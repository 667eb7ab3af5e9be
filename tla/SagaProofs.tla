----------------------------- MODULE SagaProofs -----------------------------
(***************************************************************************)
(* Machine-checked proofs about what the engine of Provisioning does to    *)
(* step rows, attempts, compensations and accounts, for every table of     *)
(* requests and steps, any number of API calls and any number of crashes.  *)
(*                                                                         *)
(* 1. Who moves a coroutine, and who changes step rows (OwnStepOnly,       *)
(*    RowWriters): inside a critical section a coroutine's employee is     *)
(*    its own (OthersStandBack).                                           *)
(* 2. The life cycle of a row (Owning, RowCycle), and from it the order of *)
(*    steps, the attempt budget, the stored results and the owners of      *)
(*    running rows.                                                        *)
(* 3. No accepted request is stuck (Whole).                                *)
(* 4. Compensation: what is recorded, and what a record says of the        *)
(*    provider.                                                            *)
(* 5. The engine implements AccessGate.                                    *)
(***************************************************************************)
EXTENDS ProvisioningProofs, WellFoundedInduction

\* What a coroutine knows stays as it is.
Unmoved(p) ==
  pc'[p] = pc[p] /\ req'[p] = req[p] /\ cur'[p] = cur[p] /\ todo'[p] = todo[p]

\* A coroutine is moved by a crash or by steps of its own.
OwnMove(p) ==
  \/ p \in Calls /\ Start(p)
  \/ LoopStep(p) \/ Answer(p)
  \/ p = Worker /\ WorkerStep

\* Enter moves the coroutine that runs and no other.
LEMMA EnterOthers ==
  ASSUME TypeOK, NEW q \in Procs, NEW e, Enter(q, e), NEW p \in Procs \ {q}
  PROVE  pc'[p] = pc[p]
  BY EnterAt

\* Only its own statements, and a crash, move a coroutine of the event loop.
LEMMA OwnStepOnly ==
  ASSUME TypeOK, [Next]_vars, NEW p \in Procs
  PROVE  OwnMove(p) \/ Crash \/ Unmoved(p)
<1> SUFFICES ASSUME ~OwnMove(p), ~Crash PROVE Unmoved(p)
  OBVIOUS
<1> USE DEF stepvars, reqvars, compvars, extvars, procvars, lockvars, runvars
<1>1. ASSUME NEW q \in Calls, Start(q) PROVE Unmoved(p)
  <2>1. q # p
    BY <1>1 DEF OwnMove
  <2>2. PICK r \in Requests : /\ Enter(q, EmpOf[r])
                              /\ req' = [req EXCEPT ![q] = r]
                              /\ UNCHANGED <<cur, todo>>
    BY <1>1 DEF Start, StartSubmit, StartAction
  <2> QED BY <2>1, <2>2, EnterOthers DEF Unmoved, TypeOK, Procs
<1>2. ASSUME NEW q \in Procs \ {p}, NEW l, Goto(q, l) PROVE pc'[p] = pc[p]
  BY <1>2, GotoAt
<1>3. ASSUME NEW q \in Procs,
             \/ LockedSubmit(q) \/ LockedRetry(q) \/ LockedCancel(q) \/ LockedVerify(q)
             \/ LockedRun(q) \/ LockedDue(q)
      PROVE  Unmoved(p)
  <2>1. q # p
    BY <1>3 DEF OwnMove, LoopStep
  <2>2. pc'[p] = pc[p]
    BY <1>2, <1>3, <2>1 DEF LockedSubmit, LockedRetry, LockedCancel, LockedVerify,
       LockedRun, LockedDue, PassThrough
  <2>3. req' = req /\ cur' = cur /\ todo'[p] = todo[p]
    BY <1>3, <2>1 DEF LockedSubmit, LockedRetry, LockedCancel, LockedVerify,
       LockedRun, LockedDue, TypeOK
  <2> QED BY <2>2, <2>3 DEF Unmoved
<1>4. ASSUME NEW q \in Procs,
             \/ MarkCancelled(q) \/ ClaimNext(q) \/ Admit(q) \/ StartCompensation(q)
             \/ CompensationDone(q) \/ VerifyNext(q) \/ Result(q)
      PROVE  Unmoved(p)
  <2>1. q # p
    BY <1>4 DEF OwnMove, LoopStep
  <2>2. pc'[p] = pc[p]
    BY <1>2, <1>4, <2>1 DEF MarkCancelled, ClaimNext, Admit, StartCompensation,
       CompensationDone, VerifyNext, Result
  <2>3. req' = req /\ cur'[p] = cur[p] /\ todo'[p] = todo[p]
    BY <1>4, <2>1 DEF MarkCancelled, ClaimNext, Admit, StartCompensation,
       CompensationDone, VerifyNext, Result, TypeOK
  <2> QED BY <2>2, <2>3 DEF Unmoved
<1>5. ASSUME NEW q \in Procs, CompensateNext(q) PROVE Unmoved(p)
  <2>1. q # p
    BY <1>5 DEF OwnMove, LoopStep
  <2>2. PICK s \in Steps :
          /\ UNCHANGED pc \/ Goto(q, "compcall")
          /\ UNCHANGED cur \/ cur' = [cur EXCEPT ![q] = s]
          /\ UNCHANGED todo \/ todo' = [todo EXCEPT ![q] = @ \ {s}]
          /\ UNCHANGED req
    BY <1>5 DEF CompensateNext
  <2>3. pc'[p] = pc[p]
    BY <1>2, <2>1, <2>2
  <2>4. cur'[p] = cur[p] /\ todo'[p] = todo[p]
    BY <2>1, <2>2 DEF TypeOK
  <2> QED BY <2>2, <2>3, <2>4 DEF Unmoved
<1>6. ASSUME NEW q \in Procs, Answer(q) PROVE Unmoved(p)
  <2>1. q # p
    BY <1>6 DEF OwnMove
  <2>2. pc'[p] = pc[p]
    BY <1>2, <1>6, <2>1 DEF Answer, ReturnOk, ReturnFailed, CompensationReturn,
       VerifyReturn, CallbackDone
  <2>3. req' = req /\ cur' = cur /\ todo'[p] = todo[p]
    BY <1>6, <2>1 DEF Answer, ReturnOk, ReturnFailed, CompensationReturn,
       VerifyReturn, CallbackDone, TypeOK
  <2> QED BY <2>2, <2>3 DEF Unmoved
<1>7. CASE WorkerStep
  <2>1. p # Worker
    BY <1>7 DEF OwnMove
  <2>2. CASE WorkerWakes \/ WorkerDue \/ WorkerRests
    BY <1>2, <2>1, <2>2 DEF WorkerWakes, WorkerDue, WorkerRests, Unmoved, Procs
  <2>3. ASSUME NEW r \in Requests, WorkerTakes(r) \/ WorkerTakesDue(r)
        PROVE  Unmoved(p)
    <3>1. pc'[p] = pc[p]
      BY <2>1, <2>3, EnterOthers DEF WorkerTakes, WorkerTakesDue, Procs
    <3>2. UNCHANGED <<cur, todo>>
      BY <2>3 DEF WorkerTakes, WorkerTakesDue
    <3>3. UNCHANGED req \/ req' = [req EXCEPT ![Worker] = r]
      BY <2>3 DEF WorkerTakes, WorkerTakesDue
    <3>4. req'[p] = req[p]
      BY <2>1, <3>3 DEF TypeOK
    <3> QED BY <3>1, <3>2, <3>4 DEF Unmoved
  <2> QED BY <1>7, <2>2, <2>3 DEF WorkerStep
<1>8. CASE \/ \E q \in Procs : Land(q)
           \/ \E r \in Requests : ReadResult(r)
           \/ \E s \in Steps : Elapse(s) \/ ElapseCompensation(s)
           \/ Restart \/ UNCHANGED vars
  BY <1>8 DEF Land, ReadResult, Elapse, ElapseCompensation, Restart, vars, Unmoved
<1> QED BY <1>1, <1>3, <1>4, <1>5, <1>6, <1>7, <1>8 DEF Next, LoopStep

\* The statements of a coroutine that write step rows.
RowWrite(q) ==
  \/ LockedSubmit(q) \/ LockedRetry(q) \/ LockedCancel(q)
  \/ ClaimNext(q) \/ Admit(q)
  \/ ReturnOk(q) \/ ReturnFailed(q, TRUE) \/ ReturnFailed(q, FALSE)

\* Step rows are written by eight statements of a coroutine and by recover_stale.
LEMMA RowWriters ==
  ASSUME [Next]_vars
  PROVE  \/ UNCHANGED <<st, att, newer>>
         \/ \E q \in Procs : RowWrite(q)
         \/ Restart
<1> USE DEF stepvars, reqvars, compvars, extvars, procvars, lockvars, runvars
<1>1. ASSUME NEW q \in Procs, LoopStep(q)
      PROVE  UNCHANGED <<st, att, newer>> \/ RowWrite(q)
  BY <1>1 DEF LoopStep, RowWrite, LockedVerify, LockedRun, LockedDue, MarkCancelled,
     StartCompensation, CompensateNext, CompensationDone, VerifyNext, Result
<1>2. ASSUME NEW q \in Procs, Answer(q) \/ Land(q)
      PROVE  UNCHANGED <<st, att, newer>> \/ RowWrite(q)
  BY <1>2 DEF Answer, RowWrite, CompensationReturn, VerifyReturn, CallbackDone, Land
<1>3. CASE \/ \E q \in Calls : Start(q)
           \/ WorkerStep \/ Crash \/ UNCHANGED vars
           \/ \E r \in Requests : ReadResult(r)
           \/ \E s \in Steps : Elapse(s) \/ ElapseCompensation(s)
  BY <1>3 DEF Start, StartSubmit, StartAction, WorkerStep, WorkerWakes, WorkerDue,
     WorkerRests, WorkerTakes, WorkerTakesDue, Crash, ReadResult, Elapse,
     ElapseCompensation, vars
<1> QED BY <1>1, <1>2, <1>3 DEF Next

\* What a coroutine does next is determined by where it is.
LEMMA NextStatement ==
  ASSUME NEW p \in Procs, OwnMove(p)
  PROVE  /\ pc[p] = "claim" => ClaimNext(p)
         /\ pc[p] = "claimed" => Admit(p)
         /\ pc[p] = "call"
            => ReturnOk(p) \/ ReturnFailed(p, TRUE) \/ ReturnFailed(p, FALSE)
         /\ pc[p] = "dead" => StartCompensation(p)
         /\ pc[p] = "comp" => CompensateNext(p) \/ CompensationDone(p)
         /\ pc[p] = "compcall"
            => CompensationReturn(p, TRUE) \/ CompensationReturn(p, FALSE)
<1> SUFFICES ASSUME pc[p] \in {"claim", "claimed", "call", "dead", "comp", "compcall"}
             PROVE  \/ pc[p] = "claim" /\ ClaimNext(p)
                    \/ pc[p] = "claimed" /\ Admit(p)
                    \/ /\ pc[p] = "call"
                       /\ \/ ReturnOk(p) \/ ReturnFailed(p, TRUE)
                          \/ ReturnFailed(p, FALSE)
                    \/ pc[p] = "dead" /\ StartCompensation(p)
                    \/ pc[p] = "comp" /\ (CompensateNext(p) \/ CompensationDone(p))
                    \/ /\ pc[p] = "compcall"
                       /\ CompensationReturn(p, TRUE) \/ CompensationReturn(p, FALSE)
  OBVIOUS
<1>1. ~Start(p) /\ (p = Worker => ~WorkerStep)
  BY DEF Start, StartSubmit, StartAction, WorkerStep, WorkerWakes, WorkerDue,
     WorkerRests, WorkerTakes, WorkerTakesDue
<1>2. /\ ~LockedSubmit(p) /\ ~LockedRetry(p) /\ ~LockedCancel(p) /\ ~LockedVerify(p)
      /\ ~LockedRun(p) /\ ~LockedDue(p) /\ ~MarkCancelled(p) /\ ~VerifyNext(p)
      /\ ~Result(p) /\ ~VerifyReturn(p) /\ ~CallbackDone(p)
  BY DEF LockedSubmit, LockedRetry, LockedCancel, LockedVerify, LockedRun, LockedDue,
     MyTurn, MarkCancelled, VerifyNext, Result, VerifyReturn, CallbackDone
<1>3. /\ ClaimNext(p) => pc[p] = "claim"
      /\ Admit(p) => pc[p] = "claimed"
      /\ ReturnOk(p) \/ ReturnFailed(p, TRUE) \/ ReturnFailed(p, FALSE)
         => pc[p] = "call"
      /\ StartCompensation(p) => pc[p] = "dead"
      /\ CompensateNext(p) \/ CompensationDone(p) => pc[p] = "comp"
      /\ CompensationReturn(p, TRUE) \/ CompensationReturn(p, FALSE)
         => pc[p] = "compcall"
  BY DEF ClaimNext, Admit, ReturnOk, ReturnFailed, StartCompensation, CompensateNext,
     CompensationDone, CompensationReturn
<1> QED BY <1>1, <1>2, <1>3 DEF OwnMove, LoopStep, Answer

\* Only claim_next and the admission of a claimed step put a coroutine between
\* claim and outcome.
LEMMA EntersCall ==
  ASSUME TypeOK, NEW p \in Procs, OwnMove(p), pc'[p] \in {"claimed", "call"}
  PROVE  \/ ClaimNext(p) /\ pc'[p] = "claimed"
         \/ Admit(p) /\ pc'[p] = "call"
<1>1. ASSUME NEW l, Goto(p, l), l \notin {"claimed", "call"} PROVE FALSE
  BY <1>1, GotoAt
<1>2. ASSUME NEW e, Enter(p, e) PROVE FALSE
  BY <1>2, EnterAt
<1>3. ~(p \in Calls /\ Start(p))
  BY <1>2 DEF Start, StartSubmit, StartAction
<1>4. ~(\/ LockedSubmit(p) \/ LockedRetry(p) \/ LockedCancel(p) \/ LockedVerify(p)
        \/ LockedRun(p) \/ LockedDue(p))
  BY <1>1 DEF LockedSubmit, LockedRetry, LockedCancel, LockedVerify, LockedRun,
     LockedDue, PassThrough
<1>5. ~(\/ MarkCancelled(p) \/ StartCompensation(p) \/ CompensationDone(p)
        \/ VerifyNext(p) \/ Result(p))
  BY <1>1 DEF MarkCancelled, StartCompensation, CompensationDone, VerifyNext, Result
<1>6. ~CompensateNext(p)
  <2>1. CompensateNext(p) => pc[p] = "comp" /\ (UNCHANGED pc \/ Goto(p, "compcall"))
    BY DEF CompensateNext
  <2> QED BY <1>1, <2>1
<1>7. ~Answer(p)
  BY <1>1 DEF Answer, ReturnOk, ReturnFailed, CompensationReturn, VerifyReturn,
     CallbackDone
<1>8. ~(p = Worker /\ WorkerStep)
  <2>1. ASSUME NEW r \in Requests, p = Worker, WorkerTakes(r) \/ WorkerTakesDue(r)
        PROVE  FALSE
    <3>1. pc[p] \in {"scan", "due"} /\ (UNCHANGED pc \/ Enter(p, EmpOf[r]))
      BY <2>1 DEF WorkerTakes, WorkerTakesDue
    <3> QED BY <1>2, <3>1
  <2>2. ASSUME p = Worker, WorkerWakes \/ WorkerDue \/ WorkerRests PROVE FALSE
    BY <1>1, <2>2 DEF WorkerWakes, WorkerDue, WorkerRests
  <2> QED BY <2>1, <2>2 DEF WorkerStep
<1>9. Admit(p) => pc'[p] = "call"
  BY <1>1, GotoAt DEF Admit
<1>10. ClaimNext(p) => pc'[p] = "claimed"
  BY <1>1, GotoAt DEF ClaimNext
<1> QED BY <1>3, <1>4, <1>5, <1>6, <1>7, <1>8, <1>9, <1>10 DEF OwnMove, LoopStep

-----------------------------------------------------------------------------
(* The life cycle of a step row. *)

\* A coroutine between claim and outcome owns a row that is running, touched after
\* every other row of its employee.
Owning ==
  \A p \in Procs : pc[p] \in {"claimed", "call"} =>
    /\ st[cur[p]] = "running"
    /\ \A s \in Steps : /\ Emp(s) = EmpOf[req[p]] /\ s # cur[p]
                        /\ st[s] # "absent"
                        => <<cur[p], s>> \in newer

\* What one step may do to a row it writes.
RowMove(s) ==
  \/ \* begin_execution
     st[s] = "absent" /\ st'[s] = "pending" /\ att'[s] = att[s]
  \/ \* claim_next
     /\ st[s] \in {"pending", "retry_wait"} /\ st'[s] = "running"
     /\ att'[s] = att[s] + 1
     /\ \A u \in Steps : ReqOf[u] = ReqOf[s] /\ SeqOf[u] < SeqOf[s]
                         => st[u] \in Settled
  \/ \* cancel_pending
     /\ st[s] \in {"pending", "retry_wait"} /\ st'[s] = "compensated"
     /\ att'[s] = att[s]
  \/ \* complete_step, fail_step, recover_stale
     /\ st[s] = "running" /\ st'[s] \in Done \cup {"dead_letter", "retry_wait"}
     /\ att'[s] = att[s]
     /\ st'[s] = "retry_wait" => att[s] < MaxAttempts[s] \/ phase = "down"
  \/ \* release_activation_claim
     /\ st[s] = "running" /\ st'[s] = "retry_wait"
     /\ att'[s] = IF att[s] > 0 THEN att[s] - 1 ELSE 0
  \/ \* schedule_step_retry
     /\ st[s] \in {"dead_letter", "retry_wait"} /\ st'[s] = "retry_wait"
     /\ att'[s] = att[s] /\ att[s] < MaxAttempts[s]

\* A step writes the rows S and stamps exactly those.
Writes(S) ==
  /\ Touch(S)
  /\ \A s \in Steps \ S : st'[s] = st[s] /\ att'[s] = att[s]
  /\ \A s \in S : RowMove(s)

\* A statement of q that writes rows writes rows of q's request, as RowMove says.
LEMMA WriteStep ==
  ASSUME Inv, Owning, NEW q \in Procs, RowWrite(q)
  PROVE  \/ UNCHANGED <<st, att, newer>>
         \/ \E S \in SUBSET Rows(req[q]) : Writes(S)
<1> USE DEF stepvars, Inv
<1>1. CASE LockedSubmit(q)
  <2> SUFFICES ASSUME BeginExecution(req[q]), ~Known(req[q])
               PROVE  Writes(Rows(req[q]))
    BY <1>1 DEF LockedSubmit
  <2>1. \A s \in Rows(req[q]) : RowMove(s)
    BY DEF BeginExecution, Known, RowMove, Rows
  <2> QED BY <2>1 DEF BeginExecution, Writes, Rows
<1>2. CASE LockedRetry(q)
  <2> SUFFICES ASSUME NEW s \in Steps, First(s, Retryable(req[q])), ScheduleStepRetry(s)
               PROVE  s \in Rows(req[q]) /\ Writes({s})
    BY <1>2 DEF LockedRetry
  <2>1. s \in Rows(req[q]) /\ st[s] \in {"dead_letter", "retry_wait"}
        /\ att[s] < MaxAttempts[s]
    BY DEF First, Retryable
  <2>2. UNCHANGED att
    BY <1>2 DEF LockedRetry
  <2> QED BY <2>1, <2>2 DEF ScheduleStepRetry, Writes, RowMove, TypeOK
<1>3. CASE LockedCancel(q)
  <2> DEFINE open == {s \in Rows(req[q]) : st[s] \in {"pending", "retry_wait"}}
  <2>1. /\ st' = [s \in Steps |-> IF s \in open THEN "compensated" ELSE st[s]]
        /\ Touch(open) /\ UNCHANGED att
    BY <1>3 DEF LockedCancel, CancelPending
  <2>2. open \in SUBSET Rows(req[q]) /\ open \subseteq Steps
    BY DEF Rows
  <2>3. \A s \in open : RowMove(s)
    BY <2>1, <2>2 DEF RowMove
  <2>4. \A s \in Steps \ open : st'[s] = st[s] /\ att'[s] = att[s]
    BY <2>1
  <2> QED BY <2>1, <2>2, <2>3, <2>4 DEF Writes
<1>4. CASE ClaimNext(q)
  <2> SUFFICES ASSUME NEW s \in Steps, First(s, Claimable(req[q])), ClaimStep(s)
               PROVE  s \in Rows(req[q]) /\ Writes({s})
    BY <1>4 DEF ClaimNext
  <2>1. /\ s \in Rows(req[q]) /\ st[s] \in {"pending", "retry_wait"}
        /\ \A u \in Rows(req[q]) : SeqOf[u] < SeqOf[s] => st[u] \in Settled
    BY DEF First, Claimable
  <2>2. RowMove(s)
    BY <2>1 DEF ClaimStep, RowMove, Rows, TypeOK
  <2> QED BY <2>1, <2>2 DEF ClaimStep, Writes, TypeOK
<1>5. CASE Admit(q)
  <2> SUFFICES ASSUME ReleaseActivationClaim(cur[q])
               PROVE  cur[q] \in Rows(req[q]) /\ Writes({cur[q]})
    BY <1>5 DEF Admit
  <2>1. cur[q] \in Steps /\ cur[q] \in Rows(req[q]) /\ st[cur[q]] = "running"
    BY <1>5 DEF Admit, Owning, Located, LocatedAt, Rows
  <2> QED BY <2>1 DEF ReleaseActivationClaim, Writes, RowMove, TypeOK
<1>6. CASE ReturnOk(q)
  <2>1. cur[q] \in Steps /\ cur[q] \in Rows(req[q]) /\ st[cur[q]] = "running"
    BY <1>6 DEF ReturnOk, Owning, Located, LocatedAt, Rows
  <2>2. RowMove(cur[q])
    BY <1>6, <2>1 DEF ReturnOk, SuccessState, RowMove, Done, TypeOK
  <2>3. Writes({cur[q]})
    BY <1>6, <2>1, <2>2 DEF ReturnOk, Writes, TypeOK
  <2> QED BY <2>1, <2>3
<1>7. ASSUME NEW b \in BOOLEAN, ReturnFailed(q, b)
      PROVE  \E S \in SUBSET Rows(req[q]) : Writes(S)
  <2>1. cur[q] \in Steps /\ cur[q] \in Rows(req[q]) /\ st[cur[q]] = "running"
    BY <1>7 DEF ReturnFailed, Owning, Located, LocatedAt, Rows
  <2>2. FailStep(cur[q], b) /\ UNCHANGED att
    BY <1>7 DEF ReturnFailed
  <2>3. att[cur[q]] \in Nat /\ MaxAttempts[cur[q]] \in Nat
    BY <2>1, ConstantsTyped DEF TypeOK
  <2>4. RowMove(cur[q])
    BY <2>1, <2>2, <2>3 DEF FailStep, RowMove, TypeOK
  <2>5. Writes({cur[q]})
    BY <2>1, <2>2, <2>4 DEF FailStep, Writes, TypeOK
  <2> QED BY <2>1, <2>5
<1> QED BY <1>1, <1>2, <1>3, <1>4, <1>5, <1>6, <1>7 DEF RowWrite

\* recover_stale writes running rows only, and while no coroutine exists.
LEMMA RestartStep ==
  ASSUME Inv, Restart
  PROVE  phase = "down" /\ \E S \in SUBSET Steps : Writes(S)
<1> PICK stale \in SUBSET {s \in Steps : st[s] = "running"} :
      /\ phase = "down"
      /\ st' = [s \in Steps |-> IF s \in stale THEN "retry_wait" ELSE st[s]]
      /\ Touch(stale) /\ UNCHANGED att
  BY DEF Restart
<1>1. \A s \in stale : RowMove(s)
  BY DEF RowMove
<1>2. stale \in SUBSET Steps
  OBVIOUS
<1> QED BY <1>1, <1>2 DEF Writes

\* Rows are written by a coroutine inside, or entering, the critical section of
\* its employee, or before the service is back after a crash.
LEMMA WhoWrites ==
  ASSUME Inv, Owning, [Next]_vars
  PROVE  \/ UNCHANGED <<st, att, newer>>
         \/ \E q \in Procs, S \in SUBSET Steps :
              /\ RowWrite(q) /\ (pc[q] \in Held \/ MyTurn(q))
              /\ S \subseteq Rows(req[q]) /\ Writes(S)
         \/ phase = "down" /\ \E S \in SUBSET Steps : Writes(S)
<1>1. ASSUME NEW q \in Procs, RowWrite(q)
      PROVE  pc[q] \in Held \/ MyTurn(q)
  BY <1>1 DEF RowWrite, LockedSubmit, LockedRetry, LockedCancel, ClaimNext, Admit,
     ReturnOk, ReturnFailed, Held
<1>2. \A r : Rows(r) \subseteq Steps
  BY DEF Rows
<1>3. ASSUME NEW q \in Procs, RowWrite(q), ~UNCHANGED <<st, att, newer>>
      PROVE  \E S \in SUBSET Steps :
              /\ RowWrite(q) /\ (pc[q] \in Held \/ MyTurn(q))
              /\ S \subseteq Rows(req[q]) /\ Writes(S)
  <2> PICK S \in SUBSET Rows(req[q]) : Writes(S)
    BY <1>3, WriteStep
  <2> QED BY <1>1, <1>2, <1>3
<1> QED BY <1>3, RestartStep, RowWriters

\* The step rows of employee e, their attempts and their order stay as they are.
RowsKept(e) ==
  /\ \A s \in Steps : Emp(s) = e => st'[s] = st[s] /\ att'[s] = att[s]
  /\ \A s, u \in Steps : Emp(s) = e /\ Emp(u) = e
                         => (<<s, u>> \in newer' <=> <<s, u>> \in newer)

\* A statement that writes rows moves its coroutine on.
LEMMA WriteMoves ==
  ASSUME TypeOK, NEW p \in Procs, RowWrite(p)
  PROVE  pc'[p] # pc[p]
<1>1. CASE \/ ClaimNext(p) \/ Admit(p) \/ ReturnOk(p)
           \/ ReturnFailed(p, TRUE) \/ ReturnFailed(p, FALSE)
  <2>1. \/ pc[p] = "claim" /\ (Goto(p, "claimed") \/ Goto(p, "result"))
        \/ pc[p] = "claimed" /\ (Goto(p, "call") \/ Goto(p, "result"))
        \/ pc[p] = "call" /\ (\/ Goto(p, "claim") \/ Goto(p, "dead")
                              \/ Goto(p, "result"))
    BY <1>1 DEF ClaimNext, Admit, ReturnOk, ReturnFailed
  <2> QED BY <2>1, GotoAt
<1>2. CASE LockedSubmit(p) \/ LockedRetry(p) \/ LockedCancel(p)
  <2>1. pc[p] \in {"enter", "lock"}
    BY <1>2 DEF LockedSubmit, LockedRetry, LockedCancel, MyTurn
  <2>2. pc'[p] \in {"claim", "ended", "result", "mark"}
    BY <1>2, GotoAt DEF LockedSubmit, LockedRetry, LockedCancel, PassThrough
  <2> QED BY <2>1, <2>2
<1> QED BY <1>1, <1>2 DEF RowWrite

\* Inside its critical section a coroutine that does not move finds the rows of
\* its employee as it left them, whatever the others do.
LEMMA OthersStandBack ==
  ASSUME Inv, Owning, [Next]_vars, NEW p \in Procs, pc[p] \in Held, Unmoved(p)
  PROVE  RowsKept(EmpOf[req[p]])
<1>1. phase # "down"
  BY DEF Inv, DownInv, Held
<1>2. ASSUME NEW q \in Procs, RowWrite(q), pc[q] \in Held \/ MyTurn(q),
             NEW S \in SUBSET Steps, S \subseteq Rows(req[q]), Writes(S)
      PROVE  RowsKept(EmpOf[req[p]])
  <2>1. q # p
    BY <1>2, WriteMoves DEF Inv, Unmoved
  <2>2. EmpOf[req[q]] # EmpOf[req[p]]
    BY <1>2, <2>1, OtherEmployee DEF Inv
  <2>3. \A s \in S : Emp(s) # EmpOf[req[p]]
    BY <1>2, <2>2 DEF Rows, Emp
  <2>4. \A s, u \in Steps : Emp(s) = EmpOf[req[p]] /\ Emp(u) = EmpOf[req[p]]
                          => (<<s, u>> \in newer' <=> <<s, u>> \in newer)
    BY <1>2, <2>3, TouchFrame DEF Writes
  <2> QED BY <1>2, <2>3, <2>4 DEF Writes, RowsKept
<1>3. CASE UNCHANGED <<st, att, newer>>
  BY <1>3 DEF RowsKept
<1> QED BY <1>1, <1>2, <1>3, WhoWrites

\* The claim of a step is not taken from the coroutine that works on it.
LEMMA OwningStep == Inv /\ Owning /\ [Next]_vars => Owning'
<1> SUFFICES ASSUME Inv, Owning, [Next]_vars,
                    NEW p \in Procs, pc'[p] \in {"claimed", "call"}
             PROVE  /\ st'[cur'[p]] = "running"
                    /\ \A s \in Steps :
                         /\ Emp(s) = EmpOf[req'[p]] /\ s # cur'[p]
                         /\ st'[s] # "absent"
                         => <<cur'[p], s>> \in newer'
  BY DEF Owning, Emp
<1> USE DEF stepvars
<1>1. CASE Unmoved(p)
  <2>1. pc[p] \in {"claimed", "call"} /\ pc[p] \in Held
    BY <1>1 DEF Unmoved, Held
  <2>2. RowsKept(EmpOf[req[p]])
    BY <1>1, <2>1, OthersStandBack
  <2>3. cur[p] \in Steps /\ Emp(cur[p]) = EmpOf[req[p]]
    BY <2>1 DEF Inv, Located, LocatedAt, Emp
  <2> QED BY <1>1, <2>1, <2>2, <2>3 DEF Owning, Unmoved, RowsKept
<1>2. CASE ClaimNext(p) /\ pc'[p] = "claimed"
  <2>1. PICK s \in Steps : ClaimStep(s) /\ cur' = [cur EXCEPT ![p] = s]
    <3>1. Goto(p, "result") => pc'[p] = "result"
      BY GotoAt DEF Inv
    <3> QED BY <1>2, <3>1 DEF ClaimNext
  <2>2. cur'[p] = s /\ st'[s] = "running"
    BY <2>1 DEF Inv, TypeOK, ClaimStep
  <2>3. \A u \in Steps \ {s} : st'[u] = st[u]
    BY <2>1 DEF Inv, TypeOK, ClaimStep
  <2>4. \A u \in Steps \ {s} : st[u] # "absent" => <<s, u>> \in newer'
    BY <2>1 DEF ClaimStep, Touch
  <2> QED BY <2>2, <2>3, <2>4
<1>3. CASE Admit(p) /\ pc'[p] = "call"
  <2>1. pc[p] = "claimed" /\ UNCHANGED <<req, cur>>
    BY <1>3 DEF Admit
  <2>2. UNCHANGED stepvars
    <3>1. Goto(p, "result") => pc'[p] = "result"
      BY GotoAt DEF Inv
    <3> QED BY <1>3, <3>1 DEF Admit
  <2> QED BY <2>1, <2>2 DEF Owning
<1>4. CASE Crash
  BY <1>4 DEF Crash
<1> QED BY <1>1, <1>2, <1>3, <1>4, OwnStepOnly, EntersCall DEF Inv

\* One step changes a row as its life cycle allows, or not at all.
LEMMA RowCycle ==
  ASSUME Inv, Owning, [Next]_vars, NEW s \in Steps
  PROVE  (st'[s] = st[s] /\ att'[s] = att[s]) \/ RowMove(s)
<1>1. CASE UNCHANGED <<st, att, newer>>
  BY <1>1
<1>2. CASE \E S \in SUBSET Steps : Writes(S)
  BY <1>2 DEF Writes
<1> QED BY <1>1, <1>2, WhoWrites

\* A settled row is not written again.
LEMMA SettledStep ==
  ASSUME Inv, Owning, [Next]_vars, NEW s \in Steps, st[s] \in Settled
  PROVE  st'[s] = st[s]
  BY RowCycle DEF RowMove, Settled, Done

\* Nothing but claim_next, which looks at all earlier rows, makes a row run.
LEMMA OrderStep == Inv /\ Owning /\ StepOrder /\ [Next]_vars => StepOrder'
<1> SUFFICES ASSUME Inv, Owning, StepOrder, [Next]_vars,
                    NEW s \in Steps, NEW u \in Steps,
                    ReqOf[u] = ReqOf[s], SeqOf[u] < SeqOf[s],
                    st'[s] \notin {"absent", "pending", "compensated"}
             PROVE  st'[u] \in Settled
  BY DEF StepOrder
<1>1. st[u] \in Settled
  <2>1. CASE st[s] \notin {"absent", "pending", "compensated"}
    BY <2>1 DEF StepOrder
  <2>2. CASE st[s] \in {"absent", "pending", "compensated"}
    BY <2>2, RowCycle DEF RowMove
  <2> QED BY <2>1, <2>2
<1> QED BY <1>1, SettledStep

\* The attempts of a row that can be claimed again are not used up.
Budget ==
  \A s \in Steps :
    /\ att[s] <= MaxAttempts[s] + crashes
    /\ st[s] \in {"absent", "pending", "retry_wait"} \/ phase = "down"
       => att[s] < MaxAttempts[s] + crashes

\* A crash adds one to the crashes, nothing takes one away, and only a crash
\* brings the process down.
LEMMA CrashCount ==
  ASSUME TypeOK, [Next]_vars
  PROVE  \/ crashes' = crashes /\ (phase' = "down" => phase = "down")
         \/ Crash /\ crashes' = crashes + 1
<1> USE DEF stepvars, reqvars, compvars, extvars, procvars, lockvars, runvars
<1>1. ASSUME NEW p \in Procs, LoopStep(p) PROVE UNCHANGED <<phase, crashes>>
  BY <1>1 DEF LoopStep, LockedSubmit, LockedRetry, LockedCancel, LockedVerify,
     LockedRun, LockedDue, MarkCancelled, ClaimNext, Admit, StartCompensation,
     CompensateNext, CompensationDone, VerifyNext, Result
<1>2. ASSUME NEW p \in Procs, Answer(p) \/ Land(p) PROVE UNCHANGED <<phase, crashes>>
  BY <1>2 DEF Answer, ReturnOk, ReturnFailed, CompensationReturn, VerifyReturn,
     CallbackDone, Land
<1>3. CASE WorkerStep \/ Restart \/ UNCHANGED vars
  BY <1>3 DEF WorkerStep, WorkerWakes, WorkerDue, WorkerRests, WorkerTakes,
     WorkerTakesDue, Restart, vars
<1>4. CASE \/ \E p \in Calls : Start(p)
           \/ \E r \in Requests : ReadResult(r)
           \/ \E s \in Steps : Elapse(s) \/ ElapseCompensation(s)
  BY <1>4 DEF Start, StartSubmit, StartAction, ReadResult, Elapse, ElapseCompensation
<1>5. CASE Crash
  BY <1>5 DEF Crash
<1> QED BY <1>1, <1>2, <1>3, <1>4, <1>5 DEF Next

\* Attempts are taken by claim_next from a row that has some left; the failure that
\* makes a row wait, the release of a claim and a crash leave at least one.
LEMMA BudgetStep == Inv /\ Owning /\ Budget /\ [Next]_vars => Budget'
<1> SUFFICES ASSUME Inv, Owning, Budget, [Next]_vars, NEW s \in Steps
             PROVE  /\ att'[s] <= MaxAttempts[s] + crashes'
                    /\ st'[s] \in {"absent", "pending", "retry_wait"} \/ phase' = "down"
                       => att'[s] < MaxAttempts[s] + crashes'
  BY DEF Budget
<1>1. /\ att[s] \in Nat /\ MaxAttempts[s] \in Nat \ {0} /\ crashes \in Nat
      /\ att[s] <= MaxAttempts[s] + crashes
      /\ st[s] \in {"absent", "pending", "retry_wait"} \/ phase = "down"
         => att[s] < MaxAttempts[s] + crashes
  BY ConstantsTyped DEF Inv, TypeOK, Budget
<1>2. CASE Crash /\ crashes' = crashes + 1
  <2>1. UNCHANGED <<st, att>>
    BY <1>2 DEF Crash, stepvars
  <2> QED BY <1>1, <1>2, <2>1
<1>3. CASE crashes' = crashes /\ (phase' = "down" => phase = "down")
  <2>1. CASE phase = "down"
    <3>1. UNCHANGED att
      <4>1. ASSUME NEW q \in Procs, RowWrite(q), pc[q] \in Held \/ MyTurn(q)
            PROVE  FALSE
        BY <2>1, <4>1 DEF Inv, DownInv, Held, MyTurn
      <4>2. CASE Restart
        BY <4>2 DEF Restart
      <4>3. CASE UNCHANGED <<st, att, newer>>
        BY <4>3
      <4>4. ASSUME NEW q \in Procs, RowWrite(q) PROVE pc[q] \in Held \/ MyTurn(q)
        BY <4>4 DEF RowWrite, LockedSubmit, LockedRetry, LockedCancel, ClaimNext,
           Admit, ReturnOk, ReturnFailed, Held
      <4> QED BY <4>1, <4>2, <4>3, <4>4, RowWriters
    <3> QED BY <1>1, <1>3, <2>1, <3>1
  <2>2. CASE phase # "down"
    <3>1. (st'[s] = st[s] /\ att'[s] = att[s]) \/ RowMove(s)
      BY RowCycle
    <3> QED BY <1>1, <1>3, <2>2, <3>1 DEF RowMove, Done
  <2> QED BY <2>1, <2>2
<1> QED BY <1>2, <1>3, CrashCount DEF Inv

\* result_json is written from the rows of its request, or erased.
LEMMA CacheWriters ==
  ASSUME [Next]_vars
  PROVE  \/ UNCHANGED cached
         \/ \E r : Refresh(r)
         \/ \E x : cached' = [cached EXCEPT ![x] = "none"]
<1> USE DEF stepvars, reqvars, compvars, extvars, procvars, lockvars, runvars
<1>1. ASSUME NEW p \in Procs, LoopStep(p), ~Admit(p)
      PROVE  UNCHANGED cached \/ \E r : Refresh(r)
  BY <1>1 DEF LoopStep, LockedSubmit, LockedRetry, LockedCancel, LockedVerify,
     LockedRun, LockedDue, MarkCancelled, ClaimNext, StartCompensation,
     CompensateNext, CompensationDone, VerifyNext, Result
<1>2. ASSUME NEW p \in Procs, Admit(p)
      PROVE  UNCHANGED cached \/ \E x : cached' = [cached EXCEPT ![x] = "none"]
  BY <1>2 DEF Admit, ReleaseActivationClaim
<1>3. ASSUME NEW p \in Procs, Answer(p) \/ Land(p)
      PROVE  UNCHANGED cached \/ \E r : Refresh(r)
  BY <1>3 DEF Answer, ReturnOk, ReturnFailed, CompensationReturn, VerifyReturn,
     CallbackDone, Land
<1>4. CASE WorkerStep \/ Crash \/ Restart \/ UNCHANGED vars
  BY <1>4 DEF WorkerStep, WorkerWakes, WorkerDue, WorkerRests, WorkerTakes,
     WorkerTakesDue, Crash, Restart, vars
<1>5. CASE \/ \E p \in Calls : Start(p)
           \/ \E r \in Requests : ReadResult(r)
           \/ \E s \in Steps : Elapse(s) \/ ElapseCompensation(s)
  BY <1>5 DEF Start, StartSubmit, StartAction, ReadResult, Elapse, ElapseCompensation
<1> QED BY <1>1, <1>2, <1>3, <1>4, <1>5 DEF Next

\* request_result says "completed" of settled rows only, and those stay.
LEMMA CacheStep ==
  Inv /\ Owning /\ ReplayNeverOverclaims /\ [Next]_vars => ReplayNeverOverclaims'
<1> SUFFICES ASSUME Inv, Owning, ReplayNeverOverclaims, [Next]_vars,
                    NEW s \in Steps, cached'[ReqOf[s]] = "completed"
             PROVE  st'[s] \in Settled
  BY DEF ReplayNeverOverclaims
<1> DEFINE r == ReqOf[s]
<1>1. r \in Requests /\ s \in Rows(r)
  BY ConstantsTyped DEF Rows
<1>2. CASE cached[r] = "completed"
  BY <1>2, SettledStep DEF ReplayNeverOverclaims
<1>3. CASE cached' = [cached EXCEPT ![r] = ResultOf(r)]
  <2>1. ResultOf(r) = "completed"
    BY <1>1, <1>3 DEF Inv, TypeOK
  <2>2. {st[x] : x \in Rows(r)} \subseteq Settled
    BY <2>1 DEF ResultOf
  <2>3. st[s] \in Settled
    BY <1>1, <2>2
  <2> QED BY <2>3, SettledStep
<1> HIDE DEF r
<1>4. ASSUME NEW x, Refresh(x), x # r PROVE cached[r] = "completed"
  BY <1>1, <1>4 DEF Refresh, Inv, TypeOK, r
<1>5. ASSUME NEW x, cached' = [cached EXCEPT ![x] = "none"] PROVE cached[r] = "completed"
  BY <1>1, <1>5 DEF Inv, TypeOK, r
<1>6. UNCHANGED cached => cached[r] = "completed"
  BY DEF r
<1> QED BY <1>2, <1>3, <1>4, <1>5, <1>6, CacheWriters DEF Refresh

\* A running row keeps its owner until the owner has written its outcome.
LEMMA OwnedStep == Inv /\ Owning /\ RunningIsOwned /\ [Next]_vars => RunningIsOwned'
<1> SUFFICES ASSUME Inv, Owning, RunningIsOwned, [Next]_vars,
                    crashes' = 0, NEW s \in Steps, st'[s] = "running"
             PROVE  \E p \in Procs : pc'[p] \in {"claimed", "call"} /\ cur'[p] = s
  BY DEF RunningIsOwned
<1> USE DEF stepvars
<1>1. ~Crash /\ crashes = 0
  BY CrashCount DEF Inv, TypeOK, Crash
<1>2. CASE st[s] = "running"
  <2>1. PICK p \in Procs : pc[p] \in {"claimed", "call"} /\ cur[p] = s
    BY <1>1, <1>2 DEF RunningIsOwned
  <2>2. CASE Unmoved(p)
    BY <2>1, <2>2 DEF Unmoved
  <2>3. CASE OwnMove(p)
    <3>1. \/ Admit(p) \/ ReturnOk(p)
          \/ ReturnFailed(p, TRUE) \/ ReturnFailed(p, FALSE)
      BY <2>1, <2>3, NextStatement
    <3>2. ~ReturnOk(p)
      BY <2>1 DEF ReturnOk, SuccessState, Inv, TypeOK
    <3>3. ~ReturnFailed(p, TRUE) /\ ~ReturnFailed(p, FALSE)
      BY <2>1 DEF ReturnFailed, FailStep, Inv, TypeOK
    <3>4. Goto(p, "call") /\ UNCHANGED cur
      BY <2>1, <3>1, <3>2, <3>3 DEF Admit, ReleaseActivationClaim, Inv, TypeOK
    <3> QED BY <2>1, <3>4, GotoAt DEF Inv
  <2> QED BY <1>1, <2>2, <2>3, OwnStepOnly DEF Inv
<1>3. CASE st[s] # "running"
  <2>1. PICK q \in Procs : ClaimNext(q) /\ st'[s] # st[s]
    <3>1. ~UNCHANGED <<st, att, newer>>
      BY <1>3
    <3>2. ~Restart
      BY <1>3 DEF Restart
    <3>3. PICK q \in Procs : RowWrite(q)
      BY <3>1, <3>2, RowWriters
    <3>4. ~LockedSubmit(q)
      BY <1>3 DEF LockedSubmit, BeginExecution
    <3>5. ~LockedRetry(q)
      BY <1>3 DEF LockedRetry, ScheduleStepRetry, Inv, TypeOK
    <3>6. ~LockedCancel(q)
      BY <1>3 DEF LockedCancel, CancelPending
    <3>7. ~Admit(q)
      BY <1>3 DEF Admit, ReleaseActivationClaim, Inv, TypeOK
    <3>8. ~ReturnOk(q)
      BY <1>3 DEF ReturnOk, SuccessState, Inv, TypeOK
    <3>9. ~ReturnFailed(q, TRUE) /\ ~ReturnFailed(q, FALSE)
      BY <1>3 DEF ReturnFailed, FailStep, Inv, TypeOK
    <3> QED BY <1>3, <3>3, <3>4, <3>5, <3>6, <3>7, <3>8, <3>9 DEF RowWrite
  <2>2. PICK x \in Steps : /\ ClaimStep(x) /\ cur' = [cur EXCEPT ![q] = x]
                           /\ Goto(q, "claimed")
    BY <2>1 DEF ClaimNext
  <2>3. x = s
    BY <2>1, <2>2 DEF ClaimStep, Inv, TypeOK
  <2>4. cur'[q] = s /\ pc'[q] = "claimed"
    BY <2>2, <2>3, GotoAt DEF Inv, TypeOK
  <2> QED BY <2>4
<1> QED BY <1>2, <1>3

\* The inductive invariant behind the theorems about step rows.
RowInv == Inv /\ Owning /\ StepOrder /\ Budget

\* The life cycle of step rows is kept in every reachable state of the engine.
THEOREM RowInvariance == Spec => []RowInv
<1>1. Init => Owning /\ StepOrder /\ Budget
  BY ConstantsTyped DEF Init, Owning, StepOrder, Budget
<1>2. Inv /\ Owning /\ StepOrder /\ Budget /\ [Next]_vars
      => (Owning /\ StepOrder /\ Budget)'
  BY OwningStep, OrderStep, BudgetStep
<1> QED BY <1>1, <1>2, Invariance, PTL DEF Spec, RowInv

\* claim_next, retries, releases, recovery and cancellation never run the steps of
\* a request out of order, for requests of any length.
THEOREM StepsInOrder == Spec => []StepOrder
<1>1. RowInv => StepOrder
  BY DEF RowInv
<1> QED BY <1>1, RowInvariance, PTL

\* A step is attempted at most max_attempts times, plus once for every crash.
THEOREM AttemptsBounded == Spec => []AttemptBudget
<1>1. RowInv => AttemptBudget
  BY DEF RowInv, Budget, AttemptBudget
<1> QED BY <1>1, RowInvariance, PTL

\* complete_step, fail_step, cancel_pending, recover_stale and a retry never
\* overwrite a row that succeeded, was verified or was dropped.
THEOREM SettledIsFinal == Spec => SettledStays
<1>1. RowInv /\ [Next]_vars
      => [\A s \in Steps : st[s] \in Settled => st'[s] = st[s]]_vars
  BY SettledStep DEF RowInv
<1> QED BY <1>1, RowInvariance, PTL DEF Spec, SettledStays

\* A replayed submit that answers "completed" from result_json is right about every
\* row of the request, however old the stored result is.
THEOREM ReplayIsTrue == Spec => []ReplayNeverOverclaims
<1>1. Init => ReplayNeverOverclaims
  BY ConstantsTyped DEF Init, ReplayNeverOverclaims
<1>2. RowInv /\ ReplayNeverOverclaims /\ [Next]_vars => ReplayNeverOverclaims'
  BY CacheStep DEF RowInv
<1> QED BY <1>1, <1>2, RowInvariance, PTL DEF Spec

\* As long as the process does not crash, every running row belongs to a coroutine
\* that will record its outcome.
THEOREM NoClaimLost == Spec => []RunningIsOwned
<1>1. Init => RunningIsOwned
  BY DEF Init, RunningIsOwned
<1>2. RowInv /\ RunningIsOwned /\ [Next]_vars => RunningIsOwned'
  BY OwnedStep DEF RowInv
<1> QED BY <1>1, <1>2, RowInvariance, PTL DEF Spec

-----------------------------------------------------------------------------
(* No request is stuck: the safety half of RequestsSettle. *)

\* The order of the naturals has no descending chains.
LEMMA NatOrder == IsWellFoundedOn({x \in Nat \X Nat : x[1] < x[2]}, Nat)
  BY NatLessThanWellFounded DEF OpToRel

\* Steps that exist have one with the least sequence number.
LEMMA LeastStep ==
  ASSUME NEW C \in SUBSET Steps, C # {}
  PROVE  \E s \in C : \A u \in C : SeqOf[s] <= SeqOf[u]
<1> DEFINE T == {SeqOf[s] : s \in C}
           R == {x \in Nat \X Nat : x[1] < x[2]}
<1>1. T \in SUBSET Nat /\ T # {}
  BY ConstantsTyped
<1>2. PICK m \in T : \A k \in T : <<k, m>> \notin R
  <2>1. IsWellFoundedOn(R, Nat)
    BY NatOrder
  <2> HIDE DEF R, T
  <2> QED BY <1>1, <2>1, WFMin
<1>3. PICK s \in C : SeqOf[s] = m
  BY <1>2
<1>4. ASSUME NEW u \in C PROVE SeqOf[s] <= SeqOf[u]
  <2>1. SeqOf[u] \in T /\ SeqOf[u] \in Nat /\ m \in Nat
    BY <1>1, <1>2
  <2>2. ~(SeqOf[u] < m)
    BY <1>2, <2>1
  <2> QED BY <1>3, <2>1, <2>2
<1> QED BY <1>4

\* The rows of a request appear together.
Whole ==
  \A s, u \in Steps : ReqOf[s] = ReqOf[u] /\ st[s] = "absent" => st[u] = "absent"

\* Only begin_execution inserts rows, all those of its request.
LEMMA WholeStep == Inv /\ Owning /\ Whole /\ [Next]_vars => Whole'
<1> SUFFICES ASSUME Inv, Owning, Whole, [Next]_vars, NEW s \in Steps, NEW u \in Steps,
                    ReqOf[s] = ReqOf[u], st'[s] = "absent", st'[u] # "absent"
             PROVE  FALSE
  BY DEF Whole
<1>1. st[s] = "absent" /\ st[u] = "absent"
  <2>1. st[s] = "absent"
    BY RowCycle DEF RowMove, Done
  <2> QED BY <2>1 DEF Whole
<1> USE DEF stepvars
<1>2. ~UNCHANGED <<st, att, newer>> /\ ~Restart
  BY <1>1 DEF Restart
<1>3. PICK q \in Procs : RowWrite(q)
  BY <1>2, RowWriters
<1>4. ~LockedSubmit(q)
  BY <1>1 DEF LockedSubmit, BeginExecution
<1>5. ~LockedRetry(q)
  BY <1>1 DEF LockedRetry, ScheduleStepRetry, First, Retryable, Inv, TypeOK
<1>6. ~LockedCancel(q)
  BY <1>1 DEF LockedCancel, CancelPending
<1>7. ~ClaimNext(q)
  BY <1>1 DEF ClaimNext, ClaimStep, First, Claimable, Inv, TypeOK
<1>8. pc[q] \in {"claimed", "call"} => st[cur[q]] = "running"
  BY DEF Owning
<1>9. ~Admit(q)
  BY <1>1, <1>8 DEF Admit, ReleaseActivationClaim, Inv, TypeOK
<1>10. ~ReturnOk(q)
  BY <1>1, <1>8 DEF ReturnOk, Inv, TypeOK
<1>11. ~ReturnFailed(q, TRUE) /\ ~ReturnFailed(q, FALSE)
  BY <1>1, <1>8 DEF ReturnFailed, FailStep, Inv, TypeOK
<1> QED BY <1>3, <1>4, <1>5, <1>6, <1>7, <1>9, <1>10, <1>11 DEF RowWrite

\* Request r has a row at work, with an owner as long as nothing crashed; or the worker
\* finds it and claim_next has a step to give; or its first open row waits for its time.
CanGoOn(r) ==
  \/ \E s \in Rows(r) :
       /\ st[s] = "running"
       /\ crashes = 0 => \E p \in Procs : pc[p] \in {"claimed", "call"} /\ cur[p] = s
  \/ r \in PendingRequests /\ \E s \in Steps : First(s, Claimable(r))
  \/ \E s \in waiting \cap Rows(r) :
       /\ st[s] \in {"pending", "retry_wait"}
       /\ \A u \in Rows(r) :
            \/ st[u] \in Settled
            \/ st[u] \in {"pending", "retry_wait"} /\ SeqOf[s] <= SeqOf[u]

NoRequestStuck ==
  \A r \in Requests :
    Known(r) /\ ResultOf(r) \notin {"completed", "dead_letter"} => CanGoOn(r)

\* What the rows of an unsettled request can be.
LEMMA OpenRequest ==
  ASSUME TypeOK, Whole, NEW r \in Requests, Known(r),
         ResultOf(r) \notin {"completed", "dead_letter"},
         \A s \in Rows(r) : st[s] # "running"
  PROVE  /\ \A s \in Rows(r) : st[s] \in Settled \cup {"pending", "retry_wait"}
         /\ \E s \in Rows(r) : st[s] \in {"pending", "retry_wait"}
<1> DEFINE states == {st[s] : s \in Rows(r)}
<1>1. ~(states \subseteq Settled) /\ "dead_letter" \notin states
  BY DEF ResultOf
<1>2. \A s \in Rows(r) : st[s] # "absent"
  BY DEF Known, Whole, Rows
<1>3. \A s \in Rows(r) : st[s] \in Settled \cup {"pending", "retry_wait"}
  <2> TAKE s \in Rows(r)
  <2>1. st[s] \in StepStates /\ st[s] \in states
    BY DEF TypeOK, Rows
  <2> QED BY <1>1, <1>2, <2>1 DEF StepStates, Settled, Done
<1> QED BY <1>1, <1>3

\* begin_execution, claim_next, fail_step, the retry schedule and recovery leave no
\* accepted request behind: while it is neither completed nor dead-lettered, one of its
\* rows is at work, or can be claimed by the worker's next pass, or is due later.
THEOREM NoRequestIsStuck == Spec => []NoRequestStuck
<1>1. Init => Whole /\ RunningIsOwned
  BY DEF Init, Whole, RunningIsOwned
<1>2. RowInv /\ Whole /\ [Next]_vars => Whole'
  BY WholeStep DEF RowInv
<1>3. ASSUME RowInv, Whole, RunningIsOwned PROVE NoRequestStuck
  <2> SUFFICES ASSUME NEW r \in Requests, Known(r),
                      ResultOf(r) \notin {"completed", "dead_letter"}
               PROVE  CanGoOn(r)
    BY DEF NoRequestStuck
  <2>1. CASE \E s \in Rows(r) : st[s] = "running"
    BY <1>3, <2>1 DEF RunningIsOwned, CanGoOn, Rows
  <2>2. CASE \A s \in Rows(r) : st[s] # "running"
    <3> DEFINE open == {s \in Rows(r) : st[s] \in {"pending", "retry_wait"}}
    <3>1. /\ \A s \in Rows(r) : st[s] \in Settled \cup {"pending", "retry_wait"}
          /\ open # {} /\ open \in SUBSET Steps
      BY <1>3, <2>2, OpenRequest DEF RowInv, Inv, Rows
    <3>2. PICK s \in open : \A u \in open : SeqOf[s] <= SeqOf[u]
      BY <3>1, LeastStep
    <3>3. \A u \in Rows(r) :
            \/ st[u] \in Settled
            \/ st[u] \in {"pending", "retry_wait"} /\ SeqOf[s] <= SeqOf[u]
      BY <3>1, <3>2
    <3>4. CASE s \in waiting
      BY <3>2, <3>3, <3>4 DEF CanGoOn
    <3>5. CASE s \notin waiting
      <4>1. s \in Steps /\ r \in PendingRequests
        BY <3>2, <3>5 DEF PendingRequests, Rows
      <4>2. \A u \in Rows(r) : SeqOf[u] < SeqOf[s] => st[u] \in Settled
        BY <3>3, <4>1, ConstantsTyped DEF Rows
      <4>3. s \in Claimable(r) /\ Claimable(r) \subseteq open
        BY <3>1, <3>2, <3>5, <4>2 DEF Claimable
      <4> QED BY <3>2, <4>1, <4>3 DEF First, CanGoOn
    <3> QED BY <3>4, <3>5
  <2> QED BY <2>1, <2>2
<1> QED BY <1>1, <1>2, <1>3, RowInvariance, NoClaimLost, PTL DEF Spec

-----------------------------------------------------------------------------
(* Compensation. *)

\* Target t of request r has its compensation record, or a coroutine is about to
\* write it.
InHand(r, t) ==
  \/ cstate[t] # "none"
  \/ \E p \in Procs : /\ req[p] = r
                      /\ \/ pc[p] = "dead"
                         \/ pc[p] \in {"comp", "compcall"} /\ t \in todo[p]

\* Without crashes nothing between the dead letter and the record is lost.
RecordInv ==
  crashes = 0 =>
    \A d, t \in Steps : /\ st[d] = "dead_letter"
                        /\ t \in CompensationTargets(ReqOf[d])
                        => InHand(ReqOf[d], t)

\* Compensation records are written by the loop of _compensate only.
LEMMA RecordWriters ==
  ASSUME [Next]_vars
  PROVE  \/ UNCHANGED cstate
         \/ \E s \in Steps : RecordCompensation(s, "superseded")
         \/ \E q \in Procs : \/ CompensationReturn(q, TRUE)
                             \/ CompensationReturn(q, FALSE)
<1> USE DEF stepvars, reqvars, compvars, extvars, procvars, lockvars, runvars
<1>1. ASSUME NEW p \in Procs, LoopStep(p), ~CompensateNext(p)
      PROVE  UNCHANGED cstate
  BY <1>1 DEF LoopStep, LockedSubmit, LockedRetry, LockedCancel, LockedVerify,
     LockedRun, LockedDue, MarkCancelled, ClaimNext, Admit, StartCompensation,
     CompensationDone, VerifyNext, Result
<1>2. ASSUME NEW p \in Procs, CompensateNext(p)
      PROVE  UNCHANGED cstate \/ \E s \in Steps : RecordCompensation(s, "superseded")
  BY <1>2 DEF CompensateNext
<1>3. ASSUME NEW p \in Procs, Land(p) \/ Answer(p),
             ~CompensationReturn(p, TRUE), ~CompensationReturn(p, FALSE)
      PROVE  UNCHANGED cstate
  BY <1>3 DEF Answer, ReturnOk, ReturnFailed, VerifyReturn, CallbackDone, Land
<1>4. CASE WorkerStep \/ Crash \/ Restart \/ UNCHANGED vars
  BY <1>4 DEF WorkerStep, WorkerWakes, WorkerDue, WorkerRests, WorkerTakes,
     WorkerTakesDue, Crash, Restart, vars
<1>5. CASE \/ \E p \in Calls : Start(p)
           \/ \E r \in Requests : ReadResult(r)
           \/ \E s \in Steps : Elapse(s) \/ ElapseCompensation(s)
  BY <1>5 DEF Start, StartSubmit, StartAction, ReadResult, Elapse, ElapseCompensation
<1> QED BY <1>1, <1>2, <1>3, <1>4, <1>5 DEF Next

\* A compensation record is overwritten, never deleted.
LEMMA RecordStays ==
  ASSUME TypeOK, [Next]_vars, NEW t \in Steps, cstate[t] # "none"
  PROVE  cstate'[t] # "none"
<1>1. ASSUME NEW q \in Procs, NEW b \in BOOLEAN, CompensationReturn(q, b)
      PROVE  cstate'[t] # "none"
  BY <1>1 DEF CompensationReturn, RecordCompensation, TypeOK
<1>2. ASSUME NEW s \in Steps, RecordCompensation(s, "superseded")
      PROVE  cstate'[t] # "none"
  BY <1>2 DEF RecordCompensation, TypeOK
<1> QED BY <1>1, <1>2, RecordWriters

\* While a request has a dead-lettered step none of its other steps completes, so
\* its compensation targets stay the same.
LEMMA TargetsStay ==
  ASSUME Inv, Owning, StepOrder, [Next]_vars, NEW d \in Steps, st[d] = "dead_letter"
  PROVE  CompensationTargets(ReqOf[d])' = CompensationTargets(ReqOf[d])
<1>1. ASSUME NEW u \in Rows(ReqOf[d])
      PROVE  st'[u] \in Done <=> st[u] \in Done
  <2>1. u \in Steps /\ ReqOf[u] = ReqOf[d]
    BY DEF Rows
  <2>2. st[u] \in Done => st'[u] \in Done
    BY <2>1, SettledStep DEF Settled
  <2>3. st[u] # "running"
    <3>1. u # d => SeqOf[u] < SeqOf[d] \/ SeqOf[d] < SeqOf[u]
      BY <2>1, ConstantsTyped, StepsOfRequests
    <3> QED BY <2>1, <3>1 DEF StepOrder, Settled, Done
  <2>4. st'[u] \in Done => st[u] \in Done
    BY <2>1, <2>3, RowCycle DEF RowMove, Done
  <2> QED BY <2>2, <2>4
<1>2. Rows(ReqOf[d])' = Rows(ReqOf[d])
  BY DEF Rows
<1>3. {s \in Rows(ReqOf[d]) : st[s] \in Done /\ OpOf[s] \in Compensable}'
        = {s \in Rows(ReqOf[d]) : st[s] \in Done /\ OpOf[s] \in Compensable}
  BY <1>1, <1>2
<1> QED BY <1>3 DEF CompensationTargets, LastPerSystem

\* A target in hand stays in hand: _compensate works through all its targets and
\* records an outcome for each before it forgets it.
LEMMA InHandStep ==
  ASSUME Inv, [Next]_vars, ~Crash, NEW r \in Requests, NEW t \in CompensationTargets(r),
         InHand(r, t)
  PROVE  InHand(r, t)'
<1>t. t \in Steps
  BY DEF CompensationTargets, LastPerSystem, Rows
<1>1. CASE cstate[t] # "none"
  BY <1>t, <1>1, RecordStays DEF Inv, InHand
<1>2. ASSUME NEW p \in Procs, req[p] = r,
             \/ pc[p] = "dead"
             \/ pc[p] \in {"comp", "compcall"} /\ t \in todo[p]
      PROVE  InHand(r, t)'
  <2>1. CASE Unmoved(p)
    BY <1>2, <2>1 DEF Unmoved, InHand
  <2>2. CASE pc[p] = "dead" /\ OwnMove(p)
    <3>1. StartCompensation(p)
      BY <2>2, NextStatement
    <3>2. pc'[p] = "comp" /\ req'[p] = r /\ t \in todo'[p]
      BY <1>2, <3>1, GotoAt DEF StartCompensation, Inv, TypeOK
    <3> QED BY <3>2 DEF InHand
  <2>3. CASE pc[p] = "comp" /\ OwnMove(p)
    <3>1. CompensateNext(p)
      BY <1>2, <2>3, NextStatement DEF CompensationDone
    <3>2. PICK s \in Steps :
            \/ /\ RecordCompensation(s, "superseded")
               /\ todo' = [todo EXCEPT ![p] = @ \ {s}]
               /\ UNCHANGED <<pc, req>>
            \/ Goto(p, "compcall") /\ UNCHANGED <<todo, req>>
      BY <3>1 DEF CompensateNext
    <3>3. CASE RecordCompensation(s, "superseded") /\ s = t
      BY <1>t, <3>3 DEF RecordCompensation, InHand, Inv, TypeOK
    <3>4. CASE /\ todo' = [todo EXCEPT ![p] = @ \ {s}] /\ s # t
               /\ UNCHANGED <<pc, req>>
      BY <1>2, <2>3, <3>4 DEF InHand, Inv, TypeOK
    <3>5. CASE Goto(p, "compcall") /\ UNCHANGED <<todo, req>>
      <4>1. pc'[p] = "compcall"
        BY <3>5, GotoAt DEF Inv
      <4> QED BY <1>2, <2>3, <3>5, <4>1 DEF InHand
    <3> QED BY <3>2, <3>3, <3>4, <3>5
  <2>4. CASE pc[p] = "compcall" /\ OwnMove(p)
    <3>1. PICK ok \in BOOLEAN : CompensationReturn(p, ok)
      BY <2>4, NextStatement
    <3>2. CASE t = cur[p]
      BY <1>t, <3>1, <3>2 DEF CompensationReturn, RecordCompensation, InHand, Inv, TypeOK
    <3>3. CASE t # cur[p]
      <4>1. pc'[p] = "comp" /\ req'[p] = r
        BY <1>2, <3>1, GotoAt DEF CompensationReturn, Inv
      <4>2. t \in todo'[p]
        BY <1>2, <2>4, <3>1, <3>3 DEF CompensationReturn, Inv, TypeOK
      <4> QED BY <4>1, <4>2 DEF InHand
    <3> QED BY <3>2, <3>3
  <2> QED BY <1>2, <2>1, <2>2, <2>3, <2>4, OwnStepOnly DEF Inv
<1> QED BY <1>1, <1>2 DEF InHand

\* The statement that dead-letters a step leads to _compensate.
LEMMA RecordStep ==
  Inv /\ Owning /\ StepOrder /\ RunningIsOwned /\ RecordInv /\ [Next]_vars
  => RecordInv'
<1> SUFFICES ASSUME Inv, Owning, StepOrder, RunningIsOwned, RecordInv, [Next]_vars,
                    crashes' = 0, NEW d \in Steps, NEW t \in Steps,
                    st'[d] = "dead_letter",
                    t \in CompensationTargets(ReqOf[d])'
             PROVE  InHand(ReqOf[d], t)'
  BY DEF RecordInv, InHand
<1>1. ~Crash /\ crashes = 0
  BY CrashCount DEF Inv, TypeOK, Crash
<1>2. CASE st[d] = "dead_letter"
  <2>1. t \in CompensationTargets(ReqOf[d]) /\ ReqOf[d] \in Requests
    BY <1>2, TargetsStay, ConstantsTyped
  <2>2. InHand(ReqOf[d], t)
    BY <1>1, <1>2, <2>1 DEF RecordInv
  <2> QED BY <1>1, <2>1, <2>2, InHandStep
<1>3. CASE st[d] # "dead_letter"
  <2>1. st[d] = "running"
    BY <1>3, RowCycle DEF RowMove, Done
  <2>2. PICK p \in Procs : pc[p] \in {"claimed", "call"} /\ cur[p] = d
    BY <1>1, <2>1 DEF RunningIsOwned
  <2>3. ReqOf[d] = req[p]
    BY <2>2 DEF Inv, Located, LocatedAt
  <2>4. ~Unmoved(p)
    BY <1>3, <2>2, <2>3, OthersStandBack DEF RowsKept, Emp, Held
  <2>5. \/ Admit(p) \/ ReturnOk(p)
        \/ ReturnFailed(p, TRUE) \/ ReturnFailed(p, FALSE)
    BY <1>1, <2>2, <2>4, OwnStepOnly, NextStatement DEF Inv
  <2>6. ~Admit(p)
    BY <1>3, <2>2 DEF Admit, ReleaseActivationClaim, Inv, TypeOK, stepvars
  <2>7. ~ReturnOk(p)
    BY <2>2 DEF ReturnOk, SuccessState, Inv, TypeOK
  <2>8. Goto(p, "dead") /\ UNCHANGED req
    BY <2>2, <2>5, <2>6, <2>7 DEF ReturnFailed, FailStep, Inv, TypeOK
  <2>9. pc'[p] = "dead" /\ req'[p] = ReqOf[d]
    BY <2>3, <2>8, GotoAt DEF Inv
  <2> QED BY <2>9 DEF InHand
<1> QED BY <1>2, <1>3

\* As long as the process does not crash, a request that is left with a
\* dead-lettered step has a compensation record for every target of _compensate.
THEOREM FailureIsRecorded == Spec => []CompensationRecorded
<1>1. Init => RecordInv
  BY DEF Init, RecordInv
<1>2. /\ RowInv /\ RunningIsOwned /\ RecordInv /\ [Next]_vars => RecordInv'
  BY RecordStep DEF RowInv
<1>3. RecordInv => CompensationRecorded
  <2> SUFFICES ASSUME RecordInv, crashes = 0, NEW r \in Requests,
                      NEW d \in Rows(r), st[d] = "dead_letter", ~Working(r),
                      NEW t \in CompensationTargets(r)
               PROVE  cstate[t] # "none"
    BY DEF CompensationRecorded
  <2>1. t \in Steps /\ d \in Steps /\ ReqOf[d] = r
    BY DEF CompensationTargets, LastPerSystem, Rows
  <2>2. InHand(r, t)
    BY <2>1 DEF RecordInv
  <2> QED BY <2>2 DEF InHand, Working, Held
<1> QED BY <1>1, <1>2, <1>3, RowInvariance, NoClaimLost, PTL DEF Spec

-----------------------------------------------------------------------------
(* What a compensation record says of the provider. *)

\* The compensation loop works on steps that are done, and a suspension that has
\* taken effect is still in effect when its answer arrives.
CompensationInv ==
  /\ \A s \in Steps : cstate[s] = "succeeded" => st[s] \in Done
  /\ \A p \in Procs : pc[p] \in {"comp", "compcall"}
                      => \A t \in todo[p] : st[t] \in Done
  /\ \A p \in Procs : pc[p] = "compcall" =>
       /\ st[cur[p]] \in Done
       /\ p \in landed => acct[Emp(cur[p])][SysOf[cur[p]]] # "enabled"

\* Only _compensate's callers and the loop itself bring a coroutine into the loop.
LEMMA EntersLoop ==
  ASSUME TypeOK, NEW p \in Procs, OwnMove(p), pc'[p] \in {"comp", "compcall"}
  PROVE  \/ LockedDue(p) \/ MarkCancelled(p) \/ StartCompensation(p)
         \/ CompensateNext(p)
         \/ CompensationReturn(p, TRUE) \/ CompensationReturn(p, FALSE)
<1>1. ASSUME NEW l, Goto(p, l), l \notin {"comp", "compcall"} PROVE FALSE
  BY <1>1, GotoAt
<1>2. ASSUME NEW e, Enter(p, e) PROVE FALSE
  BY <1>2, EnterAt
<1>3. ~(p \in Calls /\ Start(p))
  BY <1>2 DEF Start, StartSubmit, StartAction
<1>4. ~(\/ LockedSubmit(p) \/ LockedRetry(p) \/ LockedCancel(p) \/ LockedVerify(p)
        \/ LockedRun(p))
  BY <1>1 DEF LockedSubmit, LockedRetry, LockedCancel, LockedVerify, LockedRun,
     PassThrough
<1>5. ~(\/ ClaimNext(p) \/ Admit(p) \/ CompensationDone(p) \/ VerifyNext(p)
        \/ Result(p))
  BY <1>1 DEF ClaimNext, Admit, CompensationDone, VerifyNext, Result
<1>6. ~(\/ ReturnOk(p) \/ ReturnFailed(p, TRUE) \/ ReturnFailed(p, FALSE)
        \/ VerifyReturn(p) \/ CallbackDone(p))
  BY <1>1 DEF ReturnOk, ReturnFailed, VerifyReturn, CallbackDone
<1>7. ~(p = Worker /\ WorkerStep)
  <2>1. ASSUME NEW r \in Requests, p = Worker, WorkerTakes(r) \/ WorkerTakesDue(r)
        PROVE  FALSE
    <3>1. pc[p] \in {"scan", "due"} /\ (UNCHANGED pc \/ Enter(p, EmpOf[r]))
      BY <2>1 DEF WorkerTakes, WorkerTakesDue
    <3> QED BY <1>2, <3>1
  <2>2. ASSUME p = Worker, WorkerWakes \/ WorkerDue \/ WorkerRests PROVE FALSE
    BY <1>1, <2>2 DEF WorkerWakes, WorkerDue, WorkerRests
  <2> QED BY <2>1, <2>2 DEF WorkerStep
<1> QED BY <1>3, <1>4, <1>5, <1>6, <1>7 DEF OwnMove, LoopStep, Answer

\* Accounts change, and calls take effect, at the provider only.
LEMMA AccountWriters ==
  ASSUME [Next]_vars
  PROVE  \/ UNCHANGED acct /\ landed' \subseteq landed
         \/ \E q \in Procs : Land(q)
<1> USE DEF stepvars, reqvars, compvars, extvars, procvars, lockvars, runvars
<1>1. ASSUME NEW p \in Procs, LoopStep(p)
      PROVE  UNCHANGED acct /\ landed' \subseteq landed
  BY <1>1 DEF LoopStep, LockedSubmit, LockedRetry, LockedCancel, LockedVerify,
     LockedRun, LockedDue, MarkCancelled, ClaimNext, Admit, StartCompensation,
     CompensateNext, CompensationDone, VerifyNext, Result
<1>2. ASSUME NEW p \in Procs, Answer(p)
      PROVE  UNCHANGED acct /\ landed' \subseteq landed
  BY <1>2 DEF Answer, ReturnOk, ReturnFailed, CompensationReturn, VerifyReturn,
     CallbackDone
<1>3. CASE WorkerStep \/ Crash \/ Restart \/ UNCHANGED vars
  BY <1>3 DEF WorkerStep, WorkerWakes, WorkerDue, WorkerRests, WorkerTakes,
     WorkerTakesDue, Crash, Restart, vars
<1>4. CASE \/ \E p \in Calls : Start(p)
           \/ \E r \in Requests : ReadResult(r)
           \/ \E s \in Steps : Elapse(s) \/ ElapseCompensation(s)
  BY <1>4 DEF Start, StartSubmit, StartAction, ReadResult, Elapse, ElapseCompensation
<1> QED BY <1>1, <1>2, <1>3, <1>4 DEF Next

\* A call works on the account of its step and on no other.
LEMMA LandAccount ==
  ASSUME TypeOK, Located, NEW q \in Procs, Land(q), NEW s \in Steps
  PROVE  LET op == IF pc[q] = "compcall" THEN "suspend" ELSE OpOf[cur[q]]
             a  == acct[Emp(s)][SysOf[s]]
         IN  /\ cur[q] \in Steps /\ Emp(cur[q]) = EmpOf[req[q]]
             /\ acct'[Emp(s)][SysOf[s]]
                  = IF Emp(cur[q]) = Emp(s) /\ SysOf[cur[q]] = SysOf[s]
                    THEN Effect(op, a) ELSE a
<1> DEFINE op == IF pc[q] = "compcall" THEN "suspend" ELSE OpOf[cur[q]]
           c == cur[q]
           f == [acct[Emp(c)] EXCEPT ![SysOf[c]] = Effect(op, @)]
<1>1. c \in Steps /\ Emp(c) = EmpOf[req[q]]
  BY DEF Land, Located, LocatedAt, Emp
<1>2. Emp(c) \in Employees /\ Emp(s) \in Employees
  BY <1>1, ConstantsTyped DEF Emp
<1>3. SysOf[c] \in Systems /\ SysOf[s] \in Systems
  BY <1>1, ConstantsTyped
<1>4. acct' = [acct EXCEPT ![Emp(c)] = f]
  BY DEF Land
<1>5. \A e \in Employees : acct'[e] = IF e = Emp(c) THEN f ELSE acct[e]
  BY <1>2, <1>4 DEF TypeOK
<1>6. \A y \in Systems : f[y] = IF y = SysOf[c] THEN Effect(op, acct[Emp(c)][y])
                                ELSE acct[Emp(c)][y]
  BY <1>2, <1>3 DEF TypeOK
<1> HIDE DEF f
<1> QED BY <1>1, <1>2, <1>3, <1>5, <1>6

\* Nothing but an activation or a reactivation gives access.
LEMMA EffectReduces ==
  ASSUME NEW op, NEW a, a # "enabled", op \notin AccessEnabling
  PROVE  Effect(op, a) # "enabled"
  BY DEF Effect

\* Suspending an account takes access away, whatever it was.
LEMMA SuspendEffect == \A a : Effect("suspend", a) # "enabled"
  BY DEF Effect, AccessEnabling

\* A row touched after a settled row stays the later one.
LEMMA LaterStays ==
  ASSUME Inv, Owning, [Next]_vars, NEW u \in Steps, NEW s \in Steps,
         st[s] \in Settled, <<u, s>> \in newer
  PROVE  <<u, s>> \in newer'
<1>1. ASSUME NEW S \in SUBSET Steps, Writes(S) PROVE <<u, s>> \in newer'
  <2>1. s \notin S
    BY <1>1 DEF Writes, RowMove, Settled, Done
  <2>2. st[s] # "absent"
    BY DEF Settled, Done
  <2> QED BY <1>1, <2>1, <2>2 DEF Writes, Touch
<1> QED BY <1>1, WhoWrites

\* The targets of _compensate are done, and stay done.
LEMMA CompensationInvStep == Inv /\ Owning /\ CompensationInv /\ [Next]_vars => CompensationInv'
<1> SUFFICES ASSUME Inv, Owning, CompensationInv, [Next]_vars PROVE CompensationInv'
  OBVIOUS
<1>d. ASSUME NEW s \in Steps, st[s] \in Done PROVE st'[s] \in Done
  BY <1>d, SettledStep DEF Settled
<1>1. ASSUME NEW s \in Steps, cstate'[s] = "succeeded" PROVE st'[s] \in Done
  <2>1. CASE cstate[s] = "succeeded"
    BY <1>d, <2>1 DEF CompensationInv
  <2>2. CASE cstate[s] # "succeeded"
    <3>1. ASSUME NEW x \in Steps, RecordCompensation(x, "superseded") PROVE FALSE
      BY <1>1, <2>2, <3>1 DEF RecordCompensation, Inv, TypeOK
    <3>2. PICK q \in Procs, b \in BOOLEAN : CompensationReturn(q, b)
      BY <1>1, <2>2, <3>1, RecordWriters
    <3>3. s = cur[q] /\ pc[q] = "compcall"
      BY <1>1, <2>2, <3>2 DEF CompensationReturn, RecordCompensation, Inv, TypeOK
    <3> QED BY <1>d, <3>3 DEF CompensationInv
  <2> QED BY <2>1, <2>2
<1>2. ASSUME NEW p \in Procs, pc'[p] \in {"comp", "compcall"}, NEW t \in todo'[p]
      PROVE  t \in Steps /\ st'[t] \in Done
  <2>1. t \in Steps /\ st[t] \in Done
    <3>1. CASE pc[p] \in {"comp", "compcall"} /\ t \in todo[p]
      BY <3>1 DEF CompensationInv, Inv, TypeOK
    <3>2. CASE Unmoved(p)
      BY <1>2, <3>1, <3>2 DEF Unmoved
    <3>3. CASE LockedDue(p) \/ MarkCancelled(p) \/ StartCompensation(p)
      <4>1. t \in CompensationTargets(req[p])
        BY <1>2, <3>3 DEF LockedDue, MarkCancelled, StartCompensation, Inv, TypeOK
      <4> QED BY <4>1 DEF CompensationTargets, LastPerSystem, Rows
    <3>4. CASE CompensateNext(p)
      <4>1. PICK s \in Steps : /\ pc[p] = "comp"
                               /\ \/ todo' = [todo EXCEPT ![p] = @ \ {s}]
                                  \/ UNCHANGED todo
        BY <3>4 DEF CompensateNext
      <4>2. t \in todo[p]
        BY <1>2, <4>1 DEF Inv, TypeOK
      <4> QED BY <3>1, <4>1, <4>2
    <3>5. CASE CompensationReturn(p, TRUE) \/ CompensationReturn(p, FALSE)
      <4>1. /\ pc[p] = "compcall"
            /\ todo' = [todo EXCEPT ![p] = @ \ {cur[p]}]
        BY <3>5 DEF CompensationReturn
      <4>2. t \in todo[p]
        BY <1>2, <4>1 DEF Inv, TypeOK
      <4> QED BY <3>1, <4>1, <4>2
    <3>6. CASE Crash
      BY <1>2, <3>6 DEF Crash
    <3> QED BY <1>2, <3>2, <3>3, <3>4, <3>5, <3>6, OwnStepOnly, EntersLoop DEF Inv
  <2> QED BY <1>d, <2>1
<1>3. ASSUME NEW p \in Procs, pc'[p] = "compcall"
      PROVE  /\ st'[cur'[p]] \in Done
             /\ p \in landed' => acct'[Emp(cur'[p])][SysOf[cur'[p]]] # "enabled"
  <2>1. CASE Unmoved(p)
    <3>1. /\ pc[p] = "compcall" /\ cur'[p] = cur[p] /\ cur[p] \in Steps
          /\ Emp(cur[p]) = EmpOf[req[p]] /\ st[cur[p]] \in Done
          /\ p \in landed => acct[Emp(cur[p])][SysOf[cur[p]]] # "enabled"
      BY <1>3, <2>1 DEF Unmoved, CompensationInv, Inv, Located, LocatedAt, Emp
    <3>2. CASE UNCHANGED acct /\ landed' \subseteq landed
      BY <1>d, <3>1, <3>2
    <3>3. ASSUME NEW q \in Procs, Land(q)
          PROVE  p \in landed' => acct'[Emp(cur[p])][SysOf[cur[p]]] # "enabled"
      <4> DEFINE a == acct[Emp(cur[p])][SysOf[cur[p]]]
                 op == IF pc[q] = "compcall" THEN "suspend" ELSE OpOf[cur[q]]
      <4>1. /\ Emp(cur[q]) = EmpOf[req[q]]
            /\ acct'[Emp(cur[p])][SysOf[cur[p]]]
                 = IF Emp(cur[q]) = Emp(cur[p]) /\ SysOf[cur[q]] = SysOf[cur[p]]
                   THEN Effect(op, a) ELSE a
        BY <3>1, <3>3, LandAccount DEF Inv
      <4>2. landed' = landed \cup {q} /\ pc[q] \in Held
        BY <3>3 DEF Land, Held
      <4>3. CASE q = p
        <5>1. op = "suspend"
          BY <3>1, <4>3
        <5> HIDE DEF a, op
        <5> QED BY <4>1, <4>3, <5>1, SuspendEffect
      <4>4. CASE q # p
        <5>1. Emp(cur[q]) # Emp(cur[p])
          BY <3>1, <4>1, <4>2, <4>4, OtherEmployee DEF Inv, Held
        <5> HIDE DEF op
        <5> QED BY <3>1, <4>1, <4>2, <4>4, <5>1
      <4> QED BY <4>3, <4>4
    <3> QED BY <1>d, <3>1, <3>2, <3>3, AccountWriters
  <2>2. CASE OwnMove(p)
    <3>1. CompensateNext(p)
      <4>1. ASSUME NEW l, Goto(p, l), l # "compcall" PROVE FALSE
        BY <1>3, <4>1, GotoAt DEF Inv
      <4>2. ~(\/ LockedDue(p) \/ MarkCancelled(p) \/ StartCompensation(p)
              \/ CompensationReturn(p, TRUE) \/ CompensationReturn(p, FALSE))
        BY <4>1 DEF LockedDue, MarkCancelled, StartCompensation, CompensationReturn
      <4> QED BY <1>3, <2>2, <4>2, EntersLoop DEF Inv
    <3>2. PICK s \in Steps : /\ pc[p] = "comp" /\ s \in todo[p]
                             /\ \/ UNCHANGED pc
                                \/ /\ cur' = [cur EXCEPT ![p] = s]
                                   /\ landed' = landed \ {p}
      BY <3>1 DEF CompensateNext, Last
    <3>3. cur'[p] = s /\ p \notin landed'
      BY <1>3, <3>2 DEF Inv, TypeOK
    <3>4. st[s] \in Done
      BY <3>2 DEF CompensationInv
    <3> QED BY <1>d, <3>3, <3>4
  <2>3. CASE Crash
    BY <1>3, <2>3 DEF Crash
  <2> QED BY <2>1, <2>2, <2>3, OwnStepOnly DEF Inv
<1> QED BY <1>1, <1>2, <1>3 DEF CompensationInv, Emp

\* Access that a compensation took away comes back with a later activation only.
LEMMA CompensatedStep ==
  Inv /\ Owning /\ CompensationInv /\ CompensatedHasNoAccess /\ [Next]_vars
  => CompensatedHasNoAccess'
<1> SUFFICES ASSUME Inv, Owning, CompensationInv, CompensatedHasNoAccess, [Next]_vars,
                    NEW s \in Steps, cstate'[s] = "succeeded",
                    \A u \in Steps : (/\ Emp(u) = Emp(s) /\ SysOf[u] = SysOf[s]
                                      /\ OpOf[u] \in AccessEnabling)
                                     => <<u, s>> \notin newer'
             PROVE  acct'[Emp(s)][SysOf[s]] # "enabled"
  BY DEF CompensatedHasNoAccess, Emp
<1>1. CASE cstate[s] = "succeeded"
  <2>1. st[s] \in Done
    BY <1>1 DEF CompensationInv
  <2>2. \A u \in Steps : (/\ Emp(u) = Emp(s) /\ SysOf[u] = SysOf[s]
                          /\ OpOf[u] \in AccessEnabling)
                         => <<u, s>> \notin newer
    BY <2>1, LaterStays DEF Settled
  <2>3. acct[Emp(s)][SysOf[s]] # "enabled"
    BY <1>1, <2>2 DEF CompensatedHasNoAccess
  <2>4. ASSUME NEW q \in Procs, Land(q)
        PROVE  acct'[Emp(s)][SysOf[s]] # "enabled"
    <3> DEFINE a == acct[Emp(s)][SysOf[s]]
               op == IF pc[q] = "compcall" THEN "suspend" ELSE OpOf[cur[q]]
    <3>1. /\ cur[q] \in Steps /\ Emp(cur[q]) = EmpOf[req[q]]
          /\ acct'[Emp(s)][SysOf[s]]
               = IF Emp(cur[q]) = Emp(s) /\ SysOf[cur[q]] = SysOf[s]
                 THEN Effect(op, a) ELSE a
      BY <2>4, LandAccount DEF Inv
    <3>2. UNCHANGED newer /\ pc[q] \in {"call", "compcall"}
      BY <2>4 DEF Land, stepvars
    <3>3. ASSUME Emp(cur[q]) = Emp(s), SysOf[cur[q]] = SysOf[s],
                 op \in AccessEnabling
          PROVE  FALSE
      <4>1. pc[q] = "call" /\ OpOf[cur[q]] \in AccessEnabling
        BY <3>2, <3>3 DEF AccessEnabling
      <4>2. st[cur[q]] = "running"
        BY <4>1 DEF Owning
      <4>3. s # cur[q] /\ st[s] # "absent"
        BY <2>1, <4>2 DEF Done
      <4>4. <<cur[q], s>> \in newer
        BY <3>1, <3>3, <4>1, <4>3 DEF Owning
      <4> QED BY <2>2, <3>1, <3>3, <4>1, <4>4
    <3> HIDE DEF a, op
    <3>4. a # "enabled"
      BY <2>3 DEF a
    <3> QED BY <3>1, <3>3, <3>4, EffectReduces
  <2> QED BY <2>3, <2>4, AccountWriters
<1>2. CASE cstate[s] # "succeeded"
  <2>1. ASSUME NEW x \in Steps, RecordCompensation(x, "superseded") PROVE FALSE
    BY <1>2, <2>1 DEF RecordCompensation, Inv, TypeOK
  <2>2. PICK q \in Procs, b \in BOOLEAN : CompensationReturn(q, b)
    BY <1>2, <2>1, RecordWriters
  <2>3. s = cur[q] /\ b
    BY <1>2, <2>2 DEF CompensationReturn, RecordCompensation, Inv, TypeOK
  <2>4. pc[q] = "compcall" /\ q \in landed /\ UNCHANGED acct
    BY <2>2, <2>3 DEF CompensationReturn, extvars
  <2> QED BY <2>3, <2>4 DEF CompensationInv
<1> QED BY <1>1, <1>2

\* A compensation recorded as succeeded is true of the provider for ever: the account
\* is enabled again only when a later activation of the employee touched it, for any
\* interleaving of retries, cancels, crashes and restarts.
THEOREM CompensationHolds == Spec => []CompensatedHasNoAccess
<1>1. Init => CompensationInv /\ CompensatedHasNoAccess
  BY DEF Init, CompensationInv, CompensatedHasNoAccess
<1>2. RowInv /\ CompensationInv /\ [Next]_vars => CompensationInv'
  BY CompensationInvStep DEF RowInv
<1>3. RowInv /\ CompensationInv /\ CompensatedHasNoAccess /\ [Next]_vars
      => CompensatedHasNoAccess'
  BY CompensatedStep DEF RowInv
<1> QED BY <1>1, <1>2, <1>3, RowInvariance, PTL DEF Spec

-----------------------------------------------------------------------------
(* The engine implements AccessGate. *)

\* An account whose creation is recorded as done exists at the provider.
Created ==
  /\ \A s \in Steps : OpOf[s] = "create_disabled" /\ st[s] \in Done
                      => acct[Emp(s)][SysOf[s]] # "none"
  /\ \A p \in Procs : /\ pc[p] = "call" /\ p \in landed
                      /\ OpOf[cur[p]] = "create_disabled"
                      => acct[Emp(cur[p])][SysOf[cur[p]]] # "none"

\* No operation deletes an account.
LEMMA AccountStays ==
  ASSUME Inv, [Next]_vars, NEW s \in Steps, acct[Emp(s)][SysOf[s]] # "none"
  PROVE  acct'[Emp(s)][SysOf[s]] # "none"
<1>1. ASSUME NEW q \in Procs, Land(q) PROVE acct'[Emp(s)][SysOf[s]] # "none"
  <2> DEFINE a == acct[Emp(s)][SysOf[s]]
             op == IF pc[q] = "compcall" THEN "suspend" ELSE OpOf[cur[q]]
  <2>1. acct'[Emp(s)][SysOf[s]]
          = IF Emp(cur[q]) = Emp(s) /\ SysOf[cur[q]] = SysOf[s]
            THEN Effect(op, a) ELSE a
    BY <1>1, LandAccount DEF Inv
  <2>2. \A o, x : x # "none" => Effect(o, x) # "none"
    BY DEF Effect
  <2>3. a # "none"
    OBVIOUS
  <2> HIDE DEF a, op
  <2> QED BY <2>1, <2>2, <2>3
<1> QED BY <1>1, AccountWriters

\* Only complete_step makes a row done.
LEMMA WhoCompletes ==
  ASSUME Inv, Owning, [Next]_vars, NEW s \in Steps, st[s] \notin Done, st'[s] \in Done
  PROVE  \E q \in Procs : ReturnOk(q) /\ cur[q] = s
<1>1. st[s] = "running"
  BY RowCycle DEF RowMove, Done
<1>2. ~UNCHANGED <<st, att, newer>> /\ ~Restart
  BY DEF Restart, Done
<1>3. PICK q \in Procs : RowWrite(q)
  BY <1>2, RowWriters
<1>4. ~LockedSubmit(q)
  BY <1>1 DEF LockedSubmit, BeginExecution, stepvars, Done
<1>5. ~LockedRetry(q) /\ ~LockedCancel(q)
  BY <1>1 DEF LockedRetry, ScheduleStepRetry, LockedCancel, CancelPending, Inv, TypeOK,
     Done
<1>6. ~ClaimNext(q) /\ ~Admit(q)
  BY <1>1 DEF ClaimNext, ClaimStep, Admit, ReleaseActivationClaim, stepvars, Inv,
     TypeOK, Done
<1>7. ~ReturnFailed(q, TRUE) /\ ~ReturnFailed(q, FALSE)
  BY <1>1 DEF ReturnFailed, FailStep, Inv, TypeOK, Done
<1>8. ReturnOk(q)
  BY <1>3, <1>4, <1>5, <1>6, <1>7 DEF RowWrite
<1> QED BY <1>1, <1>8 DEF ReturnOk, Inv, TypeOK, Done

\* A creation counts as done only after it took effect, and accounts stay.
LEMMA CreatedStep == Inv /\ Owning /\ Created /\ [Next]_vars => Created'
<1> SUFFICES ASSUME Inv, Owning, Created, [Next]_vars PROVE Created'
  OBVIOUS
<1>1. ASSUME NEW s \in Steps, OpOf[s] = "create_disabled", st'[s] \in Done
      PROVE  acct'[Emp(s)][SysOf[s]] # "none"
  <2>1. CASE st[s] \in Done
    BY <1>1, <2>1, AccountStays DEF Created
  <2>2. CASE st[s] \notin Done
    <3>1. PICK q \in Procs : ReturnOk(q) /\ cur[q] = s
      BY <1>1, <2>2, WhoCompletes
    <3>2. pc[q] = "call" /\ q \in landed
      BY <3>1 DEF ReturnOk
    <3>3. acct[Emp(s)][SysOf[s]] # "none"
      BY <1>1, <3>1, <3>2 DEF Created
    <3> QED BY <3>3, AccountStays
  <2> QED BY <2>1, <2>2
<1>2. ASSUME NEW p \in Procs, pc'[p] = "call", p \in landed',
             OpOf[cur'[p]] = "create_disabled"
      PROVE  acct'[Emp(cur'[p])][SysOf[cur'[p]]] # "none"
  <2>1. CASE Unmoved(p)
    <3>1. pc[p] = "call" /\ cur'[p] = cur[p] /\ cur[p] \in Steps
      BY <1>2, <2>1 DEF Unmoved, Inv, Located, LocatedAt
    <3>2. CASE p \in landed
      BY <1>2, <3>1, <3>2, AccountStays DEF Created
    <3>3. CASE p \notin landed
      <4>1. Land(p)
        BY <1>2, <3>3, AccountWriters DEF Land
      <4>2. \A a : Effect("create_disabled", a) # "none"
        BY DEF Effect
      <4>3. acct'[Emp(cur[p])][SysOf[cur[p]]]
              = Effect("create_disabled", acct[Emp(cur[p])][SysOf[cur[p]]])
        BY <1>2, <3>1, <4>1, LandAccount DEF Inv
      <4> QED BY <3>1, <4>2, <4>3
    <3> QED BY <3>2, <3>3
  <2>2. CASE OwnMove(p)
    <3>1. Admit(p)
      BY <1>2, <2>2, EntersCall DEF Inv
    <3>2. Goto(p, "result") => pc'[p] = "result"
      BY GotoAt DEF Inv
    <3>3. landed' = landed \ {p}
      BY <1>2, <3>1, <3>2 DEF Admit
    <3> QED BY <1>2, <3>3
  <2>3. CASE Crash
    BY <1>2, <2>3 DEF Crash
  <2> QED BY <2>1, <2>2, <2>3, OwnStepOnly DEF Inv
<1> QED BY <1>1, <1>2 DEF Created, Emp

\* The evidence of every employee, as the access gate sees it.
Evidence == [e \in Employees |-> EvidenceOf(e)]

\* A call that takes effect creates an account disabled, enables one under current
\* evidence, reduces access or changes nothing.
LEMMA LandImplements ==
  ASSUME Inv, Created, ActivationSafe, NEW q \in Procs, Land(q)
  PROVE  \/ UNCHANGED <<acct, Evidence>>
         \/ \E e \in Employees, y \in Systems :
              Gate!Create(e, y) \/ Gate!Enable(e, y) \/ Gate!Reduce(e, y)
<1> DEFINE s == cur[q]
           e == Emp(s)
           y == SysOf[s]
           op == IF pc[q] = "compcall" THEN "suspend" ELSE OpOf[s]
           a == acct[e][y]
<1>1. s \in Steps /\ e \in Employees /\ y \in Systems /\ e = EmpOf[req[q]]
  BY ConstantsTyped DEF Land, Inv, Located, LocatedAt, Emp
<1>2. a \in {"none", "disabled", "enabled"}
  BY <1>1 DEF Inv, TypeOK
<1>3. UNCHANGED Evidence
  BY DEF Land, Evidence, EvidenceOf, Blocked, Evidenced, Candidates, CreatedDisabled,
     Latest, stepvars, reqvars
<1>4. acct' = [acct EXCEPT ![e][y] = Effect(op, a)]
  BY DEF Land
<1>5. CASE Effect(op, a) = a
  <2>1. acct' = acct
    <3>1. [acct[e] EXCEPT ![y] = a] = acct[e]
      BY <1>1 DEF Inv, TypeOK
    <3>2. acct' = [acct EXCEPT ![e] = [acct[e] EXCEPT ![y] = a]]
      BY <1>4, <1>5
    <3> HIDE DEF a, e, y
    <3> QED BY <1>1, <3>1, <3>2 DEF Inv, TypeOK
  <2> QED BY <1>3, <2>1
<1>6. CASE Effect(op, a) = "disabled" /\ a = "none"
  <2>1. Gate!Create(e, y)
    BY <1>3, <1>4, <1>6 DEF Gate!Create, Evidence
  <2> QED BY <1>1, <2>1
<1>7. CASE Effect(op, a) = "disabled" /\ a = "enabled"
  <2>1. Gate!Reduce(e, y)
    BY <1>3, <1>4, <1>7 DEF Gate!Reduce, Evidence
  <2> QED BY <1>1, <2>1
<1>8. CASE op \in AccessEnabling
  <2>1. pc[q] = "call" /\ OpOf[s] \in AccessEnabling
    BY <1>8 DEF Land, AccessEnabling
  <2>2. ~Blocked(e, {y})
    BY <1>1, <2>1 DEF ActivationSafe
  <2>3. y \in Evidence[e]
    BY <1>1, <2>2 DEF Evidence, EvidenceOf
  <2>4. CreatedDisabled(e, y)
    BY <1>1, <2>2 DEF Blocked, Evidenced
  <2>5. a # "none"
    BY <2>4 DEF CreatedDisabled, Created
  <2>6. Effect(op, a) = "enabled"
    BY <1>8 DEF Effect, AccessEnabling
  <2>7. Gate!Enable(e, y)
    BY <1>3, <1>4, <2>3, <2>5, <2>6 DEF Gate!Enable, Evidence
  <2> QED BY <1>1, <2>7
<1>9. op \notin AccessEnabling
      => \/ Effect(op, a) = a
         \/ Effect(op, a) = "disabled" /\ a \in {"none", "enabled"}
  BY <1>2 DEF Effect
<1> QED BY <1>5, <1>6, <1>7, <1>8, <1>9

\* The engine implements the access gate, for any number of employees, systems,
\* calls and crashes: accounts are created disabled, enabled only under current
\* verification evidence, and never deleted.
THEOREM AccessGateImplemented == Spec => ImplementsAccessGate
<1>1. Init => Gate!Init /\ Created
  <2> SUFFICES ASSUME Init PROVE Gate!Init /\ Created
    OBVIOUS
  <2>1. \A e \in Employees : EvidenceOf(e) = {}
    BY DEF Init, EvidenceOf, Blocked, Evidenced, CreatedDisabled, Done
  <2>2. Created
    BY DEF Init, Created, Done
  <2> QED BY <2>1, <2>2 DEF Init, Gate!Init
<1>2. RowInv /\ Created /\ [Next]_vars => Created'
  BY CreatedStep DEF RowInv
<1>3. Inv /\ Created /\ ActivationSafe /\ [Next]_vars
      => [Gate!Next]_<<acct, Evidence>>
  <2> SUFFICES ASSUME Inv, Created, ActivationSafe, [Next]_vars
               PROVE  [Gate!Next]_<<acct, Evidence>>
    OBVIOUS
  <2>1. CASE \E q \in Procs : Land(q)
    BY <2>1, LandImplements DEF Gate!Next
  <2>2. CASE UNCHANGED acct
    <3>1. Evidence' \in [Employees -> SUBSET Systems]
      BY DEF Evidence, EvidenceOf
    <3> QED BY <2>2, <3>1 DEF Gate!Next, Gate!Assess, Evidence
  <2> QED BY <2>1, <2>2, AccountWriters
<1> QED
  BY <1>1, <1>2, <1>3, RowInvariance, Invariance, ActivationIsSafe, PTL
  DEF Spec, ImplementsAccessGate, Gate!Spec, Evidence
=============================================================================
