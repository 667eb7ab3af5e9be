------------------------- MODULE ProvisioningProofs -------------------------
(***************************************************************************)
(* Machine-checked proofs about Provisioning, for every table of requests  *)
(* and steps, any number of API calls and any number of crashes.           *)
(*                                                                         *)
(* 1. Types, and what a coroutine knows at each point (Located).           *)
(* 2. The employee lock (LockInv): mutual exclusion of adapter calls.      *)
(* 3. The queue of the lock (WaitInv): nobody waits in vain.               *)
(* 4. From LockInv, that rows stay frozen while a call is in flight, and   *)
(*    hence that the check made before an activation holds until it ends.  *)
(***************************************************************************)
EXTENDS Provisioning, TLAPS

\* Where a coroutine is determines what it knows: its request, the step of that
\* request it calls an adapter for, the targets its loop has left.
LocatedAt(p) ==
  /\ pc[p] \in Held \cup {"enter", "lock"} => req[p] \in Requests
  /\ pc[p] \in {"claimed", "call", "compcall", "vcall"}
     => cur[p] \in Steps /\ ReqOf[cur[p]] = req[p]
  /\ pc[p] \in {"comp", "compcall", "verify", "vcall"}
     => todo[p] \subseteq Rows(req[p])

Located == \A p \in Procs : LocatedAt(p)

\* The code inside `async with employee_lock` runs with the lock, and a
\* coroutine that takes the uncontended path finds it free.
LockAt(p) ==
  /\ pc[p] \in Held => elock[EmpOf[req[p]]] = p
  /\ pc[p] = "enter" => elock[EmpOf[req[p]]] = None

\* The event loop runs one coroutine at a time.
OneSync == \A p, q \in Procs : pc[p] \in Sync /\ pc[q] \in Sync => p = q

LockInv == (\A p \in Procs : LockAt(p)) /\ OneSync


\* The empty database and the idle coroutines of a fresh process are typed.
LEMMA TypeInit == Init => TypeOK
  BY ConstantsTyped DEF Init, TypeOK, Procs, StepStates, ResultStates, Held, Outside

\* Stamping updated_at on a set of rows keeps `newer` a relation on steps.
LEMMA TouchType ==
  ASSUME NEW S \in SUBSET Steps, newer \in SUBSET (Steps \X Steps), Touch(S)
  PROVE  newer' \in SUBSET (Steps \X Steps)
  BY DEF Touch

\* request_result stores one of the five result states.
LEMMA RefreshType ==
  ASSUME TypeOK, NEW r, Refresh(r)
  PROVE  cached' \in [Requests -> ResultStates \cup {"none"}]
<1>1. ResultOf(r) \in ResultStates
  BY DEF ResultOf, ResultStates
<1> QED BY <1>1 DEF Refresh, TypeOK

\* Acquiring or queueing for an employee lock keeps pc and the queues typed.
LEMMA EnterType ==
  ASSUME TypeOK, NEW p \in Procs, NEW e, Enter(p, e)
  PROVE  /\ pc' \in [Procs -> Held \cup Outside]
         /\ queue' \in [Employees -> Seq(Procs)]
<1>1. pc' \in [Procs -> Held \cup Outside]
  BY DEF TypeOK, Enter, Goto, Outside
<1>2. queue' \in [Employees -> Seq(Procs)]
  <2>1. CASE queue' = queue
    BY <2>1 DEF TypeOK
  <2>2. CASE queue' = [queue EXCEPT ![e] = Append(@, p)]
    <3>1. \A x \in Employees : Append(queue[x], p) \in Seq(Procs)
      BY DEF TypeOK
    <3> QED BY <2>2, <3>1 DEF TypeOK
  <2> QED BY <2>1, <2>2 DEF Enter
<1> QED BY <1>1, <1>2

\* Waking the first waiter keeps the queues typed.
LEMMA DequeueType ==
  ASSUME TypeOK, NEW p \in Procs, MyTurn(p), Dequeue(p)
  PROVE  queue' \in [Employees -> Seq(Procs)]
<1> DEFINE e == EmpOf[req[p]]
<1>1. CASE queue' = queue
  BY <1>1 DEF TypeOK
<1>2. CASE pc[p] = "lock" /\ queue' = [queue EXCEPT ![e] = Tail(@)]
  <2>1. queue[e] # <<>>
    BY <1>2 DEF MyTurn
  <2>2. \A q \in Seq(Procs) : q # <<>> => Tail(q) \in Seq(Procs)
    OBVIOUS
  <2>3. e \in Employees => Tail(queue[e]) \in Seq(Procs)
    BY <2>1, <2>2 DEF TypeOK
  <2> QED BY <1>2, <2>3 DEF TypeOK
<1> QED BY <1>1, <1>2 DEF Dequeue

\* Whatever a provider does to an account, the account stays in its three states.
LEMMA LandType ==
  ASSUME TypeOK, NEW p \in Procs, Land(p)
  PROVE  acct' \in [Employees -> [Systems -> {"none", "disabled", "enabled"}]]
<1> DEFINE s == cur[p]
           op == IF pc[p] = "compcall" THEN "suspend" ELSE OpOf[s]
           A == {"none", "disabled", "enabled"}
           f == [acct[Emp(s)] EXCEPT ![SysOf[s]] = Effect(op, @)]
<1>1. \A a \in A : Effect(op, a) \in A
  BY DEF Effect
<1>2. acct' = [acct EXCEPT ![Emp(s)] = f]
  BY DEF Land
<1>3. Emp(s) \in Employees => f \in [Systems -> A]
  <2>1. SUFFICES ASSUME Emp(s) \in Employees PROVE f \in [Systems -> A]
    OBVIOUS
  <2>2. acct[Emp(s)] \in [Systems -> A]
    BY <2>1 DEF TypeOK
  <2> QED BY <1>1, <2>2
<1> QED BY <1>2, <1>3 DEF TypeOK

\* record_verification stores a step for an employee and a system.
LEMMA VerificationType ==
  ASSUME TypeOK, NEW s \in Steps, RecordVerification(s)
  PROVE  ver' \in [Employees -> [Systems -> Steps \cup {None}]]
<1> DEFINE f == [ver[Emp(s)] EXCEPT ![SysOf[s]] = s]
<1>1. ver' = [ver EXCEPT ![Emp(s)] = f]
  BY DEF RecordVerification
<1>2. Emp(s) \in Employees => f \in [Systems -> Steps \cup {None}]
  BY DEF TypeOK
<1> QED BY <1>1, <1>2 DEF TypeOK

\* A coroutine moves to a point of the program.
LEMMA GotoType ==
  ASSUME TypeOK, NEW p, NEW l \in Held \cup Outside, Goto(p, l)
  PROVE  pc' \in [Procs -> Held \cup Outside]
  BY DEF TypeOK, Goto

\* The points the program moves to are labels of pc.
LEMMA Labels ==
  /\ {"claim", "claimed", "call", "dead", "mark", "comp", "compcall", "verify",
      "vcall", "result", "callback"} \subseteq Held \cup Outside
  /\ {"new", "ended", "rest", "scan", "due", "enter", "lock"} \subseteq Held \cup Outside
  BY DEF Held, Outside

\* An employee lock is given to, or taken from, a coroutine.
LEMMA ElockType ==
  ASSUME TypeOK, NEW x, NEW p \in Procs \cup {None}, elock' = [elock EXCEPT ![x] = p]
  PROVE  elock' \in [Employees -> Procs \cup {None}]
  BY DEF TypeOK

\* A step row receives one of the step states.
LEMMA StepType ==
  ASSUME TypeOK, NEW s, NEW v \in StepStates, st' = [st EXCEPT ![s] = v]
  PROVE  st' \in [Steps -> StepStates]
  BY DEF TypeOK

\* Compensation and verification loop over steps.
LEMMA TargetsType ==
  ASSUME NEW r
  PROVE  /\ CompensationTargets(r) \in SUBSET Steps
         /\ VerificationTargets(r) \in SUBSET Steps
  BY DEF CompensationTargets, VerificationTargets, LastPerSystem, Rows

\* record_compensation writes a typed row.
LEMMA RecordType ==
  ASSUME TypeOK, NEW s \in Steps, NEW v \in {"failed", "succeeded", "superseded"},
         RecordCompensation(s, v)
  PROVE  /\ cstate' \in [Steps -> {"none", "failed", "succeeded", "superseded"}]
         /\ catt' \in [Steps -> Nat]
         /\ cwait' \in SUBSET Steps
  BY DEF RecordCompensation, TypeOK

\* Every statement of the engine and every event around it keeps the types.
LEMMA TypeStep == TypeOK /\ Located /\ [Next]_vars => TypeOK'
<1> SUFFICES ASSUME TypeOK, Located, [Next]_vars PROVE TypeOK'

  OBVIOUS
<1> USE DEF stepvars, reqvars, compvars, extvars, procvars, lockvars, runvars
<1>1. ASSUME NEW p \in Calls, NEW r \in Requests, StartSubmit(p, r) PROVE TypeOK'
  BY <1>1, EnterType DEF StartSubmit, Procs, TypeOK
<1>2. ASSUME NEW p \in Calls, NEW r \in Requests,
             NEW k \in {"retry", "cancel", "verify"}, StartAction(p, k, r)
      PROVE TypeOK'
  BY <1>2, EnterType, RefreshType DEF StartAction, Procs, TypeOK
<1>3. ASSUME NEW p \in Procs, LockedSubmit(p) PROVE TypeOK'
  <2>1. queue' \in [Employees -> Seq(Procs)]
    BY <1>3, DequeueType DEF LockedSubmit, PassThrough, Acquire
  <2>2. pc' \in [Procs -> Held \cup Outside]
    BY <1>3, GotoType, Labels DEF LockedSubmit, PassThrough
  <2>3. elock' \in [Employees -> Procs \cup {None}]
    BY <1>3, ElockType DEF LockedSubmit, PassThrough, Acquire, TypeOK
  <2>4. cached' \in [Requests -> ResultStates \cup {"none"}]
    BY <1>3, RefreshType DEF LockedSubmit, TypeOK
  <2>5. CASE BeginExecution(req[p])
    <3>1. newer' \in SUBSET (Steps \X Steps)
      BY <2>5, TouchType DEF BeginExecution, Rows, TypeOK
    <3>2. st' \in [Steps -> StepStates]
      BY <2>5 DEF BeginExecution, StepStates, TypeOK
    <3> QED BY <1>3, <2>1, <2>2, <2>3, <2>4, <2>5, <3>1, <3>2
            DEF LockedSubmit, BeginExecution, TypeOK
  <2>6. CASE UNCHANGED stepvars
    BY <1>3, <2>1, <2>2, <2>3, <2>4, <2>6 DEF LockedSubmit, TypeOK
  <2> QED BY <1>3, <2>5, <2>6 DEF LockedSubmit
<1>4. ASSUME NEW p \in Procs, LockedRetry(p) PROVE TypeOK'
  <2>1. queue' \in [Employees -> Seq(Procs)]
    BY <1>4, DequeueType DEF LockedRetry, Acquire
  <2>2. pc' \in [Procs -> Held \cup Outside]
    BY <1>4, GotoType, Labels DEF LockedRetry
  <2>3. elock' \in [Employees -> Procs \cup {None}]
    BY <1>4, ElockType DEF LockedRetry, Acquire
  <2>4. CASE UNCHANGED <<st, waiting, dead, newer>>
    BY <1>4, <2>1, <2>2, <2>3, <2>4 DEF LockedRetry, TypeOK
  <2>5. ASSUME NEW s \in Steps, ScheduleStepRetry(s) PROVE TypeOK'
    <3>1. newer' \in SUBSET (Steps \X Steps)
      BY <2>5, TouchType DEF ScheduleStepRetry, TypeOK
    <3>2. st' \in [Steps -> StepStates]
      BY <2>5, StepType DEF ScheduleStepRetry, StepStates
    <3>3. dead' \in [Steps -> {"none", "open", "resolved"}]
      BY <2>5 DEF ScheduleStepRetry, TypeOK
    <3> QED BY <1>4, <2>1, <2>2, <2>3, <2>5, <3>1, <3>2, <3>3
            DEF LockedRetry, ScheduleStepRetry, TypeOK
  <2> QED BY <1>4, <2>4, <2>5 DEF LockedRetry
<1>5. ASSUME NEW p \in Procs, LockedCancel(p) PROVE TypeOK'
  <2> DEFINE open == {s \in Rows(req[p]) : st[s] \in {"pending", "retry_wait"}}
  <2>1. queue' \in [Employees -> Seq(Procs)]
    BY <1>5, DequeueType DEF LockedCancel, Acquire
  <2>2. pc' \in [Procs -> Held \cup Outside]
    BY <1>5, GotoType, Labels DEF LockedCancel
  <2>3. elock' \in [Employees -> Procs \cup {None}]
    BY <1>5, ElockType DEF LockedCancel, Acquire
  <2>4. newer' \in SUBSET (Steps \X Steps)
    <3>1. open \in SUBSET Steps /\ Touch(open)
      BY <1>5 DEF LockedCancel, CancelPending, Rows
    <3> QED BY <3>1, TouchType DEF TypeOK
  <2>5. st' \in [Steps -> StepStates]
    BY <1>5 DEF LockedCancel, CancelPending, TypeOK, StepStates
  <2> QED BY <1>5, <2>1, <2>2, <2>3, <2>4, <2>5 DEF LockedCancel, CancelPending, TypeOK
<1>6. ASSUME NEW p \in Procs, LockedVerify(p) PROVE TypeOK'
  <2>1. queue' \in [Employees -> Seq(Procs)]
    BY <1>6, DequeueType DEF LockedVerify, PassThrough, Acquire
  <2>2. pc' \in [Procs -> Held \cup Outside]
    BY <1>6, GotoType, Labels DEF LockedVerify, PassThrough
  <2>3. elock' \in [Employees -> Procs \cup {None}]
    BY <1>6, ElockType DEF LockedVerify, PassThrough, Acquire, TypeOK
  <2>4. VerificationTargets(req[p]) \in SUBSET Steps
    BY DEF VerificationTargets, LastPerSystem, Rows
  <2>5. todo' \in [Procs -> SUBSET Steps]
    BY <1>6, <2>4 DEF LockedVerify, TypeOK
  <2> QED BY <1>6, <2>1, <2>2, <2>3, <2>5 DEF LockedVerify, TypeOK
<1>7. ASSUME NEW p \in Procs, LockedRun(p) PROVE TypeOK'
  <2>1. queue' \in [Employees -> Seq(Procs)]
    BY <1>7, DequeueType DEF LockedRun, Acquire
  <2>2. pc' \in [Procs -> Held \cup Outside]
    BY <1>7, GotoType, Labels DEF LockedRun
  <2>3. elock' \in [Employees -> Procs \cup {None}]
    BY <1>7, ElockType DEF LockedRun, Acquire
  <2> QED BY <1>7, <2>1, <2>2, <2>3 DEF LockedRun, TypeOK
<1>8. ASSUME NEW p \in Procs, LockedDue(p) PROVE TypeOK'
  <2>1. queue' \in [Employees -> Seq(Procs)]
    BY <1>8, DequeueType DEF LockedDue, Acquire
  <2>2. pc' \in [Procs -> Held \cup Outside]
    BY <1>8, GotoType, Labels DEF LockedDue
  <2>3. elock' \in [Employees -> Procs \cup {None}]
    BY <1>8, ElockType DEF LockedDue, Acquire
  <2>4. todo' \in [Procs -> SUBSET Steps]
    BY <1>8, TargetsType DEF LockedDue, TypeOK
  <2> QED BY <1>8, <2>1, <2>2, <2>3, <2>4 DEF LockedDue, TypeOK
<1>9. ASSUME NEW p \in Procs, MarkCancelled(p) PROVE TypeOK'
  <2>1. pc' \in [Procs -> Held \cup Outside]
    BY <1>9, GotoType, Labels DEF MarkCancelled
  <2>2. todo' \in [Procs -> SUBSET Steps]
    BY <1>9, TargetsType DEF MarkCancelled, TypeOK
  <2> QED BY <1>9, <2>1, <2>2 DEF MarkCancelled, TypeOK
<1>10. ASSUME NEW p \in Procs, ClaimNext(p) PROVE TypeOK'
  <2>1. pc' \in [Procs -> Held \cup Outside]
    BY <1>10, GotoType, Labels DEF ClaimNext
  <2>2. CASE UNCHANGED <<stepvars, cur>>
    BY <1>10, <2>1, <2>2 DEF ClaimNext, TypeOK
  <2>3. ASSUME NEW s \in Steps, ClaimStep(s), cur' = [cur EXCEPT ![p] = s]
        PROVE TypeOK'
    <3>1. newer' \in SUBSET (Steps \X Steps)
      BY <2>3, TouchType DEF ClaimStep, TypeOK
    <3>2. st' \in [Steps -> StepStates]
      BY <2>3, StepType DEF ClaimStep, StepStates
    <3>3. att' \in [Steps -> Nat] /\ cur' \in [Procs -> Steps \cup {None}]
      BY <2>3 DEF ClaimStep, TypeOK
    <3> QED BY <1>10, <2>1, <2>3, <3>1, <3>2, <3>3 DEF ClaimNext, ClaimStep, TypeOK
  <2> QED BY <1>10, <2>2, <2>3 DEF ClaimNext
<1>11. ASSUME NEW p \in Procs, Admit(p) PROVE TypeOK'
  <2>1. pc' \in [Procs -> Held \cup Outside]
    BY <1>11, GotoType, Labels DEF Admit
  <2>2. CASE UNCHANGED <<stepvars, cached>> /\ landed' = landed \ {p}
    BY <1>11, <2>1, <2>2 DEF Admit, TypeOK
  <2>3. CASE ReleaseActivationClaim(cur[p]) /\ UNCHANGED landed
    <3>1. newer' \in SUBSET (Steps \X Steps) /\ waiting' \in SUBSET Steps
      BY <1>11, <2>3, TouchType DEF ReleaseActivationClaim, TypeOK, Admit, Located, LocatedAt
    <3>2. st' \in [Steps -> StepStates]
      BY <2>3, StepType DEF ReleaseActivationClaim, StepStates
    <3>3. att' \in [Steps -> Nat]
      <4> DEFINE Dec(n) == IF n > 0 THEN n - 1 ELSE 0
      <4>1. \A n \in Nat : Dec(n) \in Nat
        OBVIOUS
      <4>2. att' = [att EXCEPT ![cur[p]] = Dec(att[cur[p]])]
        BY <2>3 DEF ReleaseActivationClaim
      <4>3. Dec(att[cur[p]]) \in Nat
        BY <1>11, <4>1 DEF Admit, Located, LocatedAt, TypeOK
      <4> HIDE DEF Dec
      <4> QED BY <4>2, <4>3 DEF TypeOK
    <3>4. cached' \in [Requests -> ResultStates \cup {"none"}]
      BY <2>3 DEF ReleaseActivationClaim, TypeOK
    <3> QED BY <1>11, <2>1, <2>3, <3>1, <3>2, <3>3, <3>4 DEF Admit, TypeOK
  <2> QED BY <1>11, <2>2, <2>3 DEF Admit
<1>12. ASSUME NEW p \in Procs, ReturnOk(p) PROVE TypeOK'
  <2>1. pc' \in [Procs -> Held \cup Outside]
    BY <1>12, GotoType, Labels DEF ReturnOk
  <2>2. newer' \in SUBSET (Steps \X Steps)
    BY <1>12, TouchType DEF ReturnOk, TypeOK, Located, LocatedAt
  <2>3. st' \in [Steps -> StepStates]
    BY <1>12, StepType DEF ReturnOk, SuccessState, StepStates
  <2> QED BY <1>12, <2>1, <2>2, <2>3 DEF ReturnOk, TypeOK
<1>13. ASSUME NEW p \in Procs, NEW b \in BOOLEAN, ReturnFailed(p, b) PROVE TypeOK'
  <2>1. pc' \in [Procs -> Held \cup Outside]
    BY <1>13, GotoType, Labels DEF ReturnFailed
  <2>2. newer' \in SUBSET (Steps \X Steps) /\ waiting' \in SUBSET Steps
    BY <1>13, TouchType DEF ReturnFailed, FailStep, TypeOK, Located, LocatedAt
  <2>3. st' \in [Steps -> StepStates]
    BY <1>13, StepType DEF ReturnFailed, FailStep, StepStates
  <2>4. dead' \in [Steps -> {"none", "open", "resolved"}]
    BY <1>13 DEF ReturnFailed, FailStep, TypeOK
  <2>5. cached' \in [Requests -> ResultStates \cup {"none"}]
    BY <1>13, RefreshType DEF ReturnFailed, TypeOK
  <2> QED BY <1>13, <2>1, <2>2, <2>3, <2>4, <2>5 DEF ReturnFailed, TypeOK
<1>14. ASSUME NEW p \in Procs, StartCompensation(p) PROVE TypeOK'
  <2>1. pc' \in [Procs -> Held \cup Outside]
    BY <1>14, GotoType, Labels DEF StartCompensation
  <2>2. todo' \in [Procs -> SUBSET Steps]
    BY <1>14, TargetsType DEF StartCompensation, TypeOK
  <2> QED BY <1>14, <2>1, <2>2 DEF StartCompensation, TypeOK
<1>15. ASSUME NEW p \in Procs, CompensateNext(p) PROVE TypeOK'
  <2> PICK s \in Steps :
        /\ \/ /\ RecordCompensation(s, "superseded")
              /\ todo' = [todo EXCEPT ![p] = @ \ {s}]
              /\ UNCHANGED <<pc, cur, landed>>
           \/ /\ cur' = [cur EXCEPT ![p] = s]
              /\ landed' = landed \ {p}
              /\ Goto(p, "compcall")
              /\ UNCHANGED <<compvars, todo>>
        /\ UNCHANGED <<stepvars, reqvars, acct, kind, req, lockvars, runvars>>
    BY <1>15 DEF CompensateNext
  <2>1. CASE RecordCompensation(s, "superseded") /\ UNCHANGED <<pc, cur, landed>>
             /\ todo' = [todo EXCEPT ![p] = @ \ {s}]
    BY <2>1, RecordType DEF TypeOK
  <2>2. CASE /\ Goto(p, "compcall") /\ UNCHANGED <<compvars, todo>>
             /\ cur' = [cur EXCEPT ![p] = s] /\ landed' = landed \ {p}
    <3>1. pc' \in [Procs -> Held \cup Outside]
      BY <2>2, GotoType, Labels
    <3> QED BY <2>2, <3>1 DEF TypeOK
  <2> QED BY <2>1, <2>2
<1>16. ASSUME NEW p \in Procs, NEW ok \in BOOLEAN, CompensationReturn(p, ok)
       PROVE TypeOK'
  <2>1. pc' \in [Procs -> Held \cup Outside]
    BY <1>16, GotoType, Labels DEF CompensationReturn
  <2>2. cur[p] \in Steps
    BY <1>16 DEF CompensationReturn, Located, LocatedAt
  <2> QED BY <1>16, <2>1, <2>2, RecordType DEF CompensationReturn, TypeOK
<1>17. ASSUME NEW p \in Procs, CompensationDone(p) PROVE TypeOK'
  <2>1. pc' \in [Procs -> Held \cup Outside]
    BY <1>17, GotoType, Labels DEF CompensationDone
  <2> QED BY <1>17, <2>1 DEF CompensationDone, TypeOK
<1>18. ASSUME NEW p \in Procs, VerifyNext(p) PROVE TypeOK'
  <2>1. pc' \in [Procs -> Held \cup Outside]
    BY <1>18, GotoType, Labels DEF VerifyNext
  <2>2. elock' \in [Employees -> Procs \cup {None}]
    BY <1>18, ElockType DEF VerifyNext, TypeOK
  <2>3. cur' \in [Procs -> Steps \cup {None}]
    BY <1>18 DEF VerifyNext, TypeOK
  <2> QED BY <1>18, <2>1, <2>2, <2>3 DEF VerifyNext, TypeOK
<1>19. ASSUME NEW p \in Procs, VerifyReturn(p) PROVE TypeOK'
  <2>1. pc' \in [Procs -> Held \cup Outside]
    BY <1>19, GotoType, Labels DEF VerifyReturn
  <2>2. elock' \in [Employees -> Procs \cup {None}]
    BY <1>19, ElockType DEF VerifyReturn, TypeOK
  <2>3. ver' \in [Employees -> [Systems -> Steps \cup {None}]]
    <3>1. cur[p] \in Steps
      BY <1>19 DEF VerifyReturn, Located, LocatedAt
    <3> QED BY <1>19, <3>1, VerificationType DEF VerifyReturn, TypeOK
  <2>4. todo' \in [Procs -> SUBSET Steps]
    <3>1. UNCHANGED todo \/ todo' = [todo EXCEPT ![p] = @ \ {cur[p]}]
      BY <1>19 DEF VerifyReturn
    <3>2. CASE UNCHANGED todo
      BY <3>2 DEF TypeOK
    <3>3. CASE todo' = [todo EXCEPT ![p] = @ \ {cur[p]}]
      BY <3>3 DEF TypeOK
    <3> QED BY <3>1, <3>2, <3>3
  <2> QED BY <1>19, <2>1, <2>2, <2>3, <2>4 DEF VerifyReturn, TypeOK
<1>20. ASSUME NEW p \in Procs, Result(p) PROVE TypeOK'
  <2>1. pc' \in [Procs -> Held \cup Outside]
    BY <1>20, GotoType, Labels DEF Result
  <2>2. elock' \in [Employees -> Procs \cup {None}]
    BY <1>20, ElockType DEF Result, Release, TypeOK
  <2>3. cached' \in [Requests -> ResultStates \cup {"none"}]
    BY <1>20, RefreshType DEF Result, TypeOK
  <2> QED BY <1>20, <2>1, <2>2, <2>3 DEF Result, Release, TypeOK
<1>21. ASSUME NEW p \in Procs, CallbackDone(p) PROVE TypeOK'
  <2>1. pc' \in [Procs -> Held \cup Outside]
    BY <1>21, GotoType, Labels DEF CallbackDone
  <2>2. elock' \in [Employees -> Procs \cup {None}]
    BY <1>21, ElockType DEF CallbackDone, Release
  <2> QED BY <1>21, <2>1, <2>2 DEF CallbackDone, Release, TypeOK
<1>22. CASE WorkerWakes \/ WorkerDue \/ WorkerRests
  <2>1. pc' \in [Procs -> Held \cup Outside]
    BY <1>22, GotoType, Labels DEF WorkerWakes, WorkerDue, WorkerRests
  <2>2. batch' \in SUBSET Requests
    BY <1>22 DEF WorkerWakes, WorkerDue, WorkerRests, PendingRequests, DueRequests, TypeOK
  <2> QED BY <1>22, <2>1, <2>2 DEF WorkerWakes, WorkerDue, WorkerRests, TypeOK
<1>23. ASSUME NEW r \in Requests, WorkerTakes(r) \/ WorkerTakesDue(r) PROVE TypeOK'
  <2>1. cached' \in [Requests -> ResultStates \cup {"none"}]
    BY <1>23, RefreshType DEF WorkerTakes, WorkerTakesDue
  <2>2. /\ pc' \in [Procs -> Held \cup Outside]
        /\ queue' \in [Employees -> Seq(Procs)]
    BY <1>23, EnterType DEF WorkerTakes, WorkerTakesDue, TypeOK, Procs
  <2>3. /\ kind' \in [Procs -> {"submit", "retry", "cancel", "verify", "run", "due"}]
        /\ req' \in [Procs -> Requests \cup {None}]
        /\ batch' \in SUBSET Requests
    BY <1>23 DEF WorkerTakes, WorkerTakesDue, TypeOK
  <2>4. UNCHANGED <<stepvars, dead, cancelled, ver, compvars, extvars, cur, todo,
                    elock, phase, crashes>>
    BY <1>23 DEF WorkerTakes, WorkerTakesDue
  <2> QED BY <2>1, <2>2, <2>3, <2>4 DEF TypeOK
<1>24. ASSUME NEW r \in Requests, ReadResult(r) PROVE TypeOK'
  BY <1>24, RefreshType DEF ReadResult, TypeOK
<1>25. ASSUME NEW s \in Steps, Elapse(s) \/ ElapseCompensation(s) PROVE TypeOK'
  BY <1>25 DEF Elapse, ElapseCompensation, TypeOK
<1>26. ASSUME NEW p \in Procs, Land(p) PROVE TypeOK'
  BY <1>26, LandType DEF Land, TypeOK
<1>27. CASE Crash
  <2>1. pc' \in [Procs -> Held \cup Outside]
    BY <1>27 DEF Crash, Outside
  <2> QED BY <1>27, <2>1 DEF Crash, TypeOK
<1>28. CASE Restart
  <2> PICK stale \in SUBSET Steps :
        /\ st' = [s \in Steps |-> IF s \in stale THEN "retry_wait" ELSE st[s]]
        /\ waiting' = waiting \ stale
        /\ Touch(stale)
        /\ phase' = "recovering"
        /\ UNCHANGED <<att, reqvars, compvars, extvars, procvars, lockvars, batch,
                       crashes>>
    BY <1>28 DEF Restart
  <2>1. newer' \in SUBSET (Steps \X Steps)
    BY TouchType DEF TypeOK
  <2>2. st' \in [Steps -> StepStates]
    BY DEF TypeOK, StepStates
  <2> QED BY <2>1, <2>2 DEF TypeOK
<1>29. CASE UNCHANGED vars
  BY <1>29 DEF vars, TypeOK
<1> QED
  BY <1>1, <1>2, <1>3, <1>4, <1>5, <1>6, <1>7, <1>8, <1>9, <1>10, <1>11, <1>12,
     <1>13, <1>14, <1>15, <1>16, <1>17, <1>18, <1>19, <1>20, <1>21, <1>22, <1>23,
     <1>24, <1>25, <1>26, <1>27, <1>28, <1>29
  DEF Next, Start, LoopStep, Answer, WorkerStep

-----------------------------------------------------------------------------

\* A step of p disturbs no other coroutine as long as it leaves the locks the
\* others hold alone.
LEMMA OwnStep ==
  ASSUME TypeOK, Located, LockInv, NEW p \in Procs, LoopFree(p),
         \A q \in Procs \ {p} : /\ pc'[q] = pc[q] /\ req'[q] = req[q]
                                /\ cur'[q] = cur[q] /\ todo'[q] = todo[q],
         \A q \in Procs \ {p} : pc[q] \in Held
           => elock'[EmpOf[req[q]]] = elock[EmpOf[req[q]]],
         LocatedAt(p)', LockAt(p)'
  PROVE  Located' /\ LockInv'
<1>1. ASSUME NEW q \in Procs \ {p} PROVE LocatedAt(q)'
  BY <1>1 DEF Located, LocatedAt, Rows
<1>2. ASSUME NEW q \in Procs \ {p} PROVE LockAt(q)'
  <2>1. pc[q] # "enter"
    BY <1>2 DEF LoopFree, Sync
  <2> QED BY <1>2, <2>1 DEF LockInv, LockAt
<1>3. OneSync'
  BY DEF OneSync, LoopFree
<1> QED BY <1>1, <1>2, <1>3 DEF Located, LockInv

\* Whoever takes a step is alone in the loop.
LEMMA Alone ==
  ASSUME LockInv, NEW p \in Procs, pc[p] \in Sync \/ MyTurn(p)
  PROVE  LoopFree(p)
  BY DEF LockInv, OneSync, LoopFree, MyTurn, Sync

\* A lock that changes hands was not held by another coroutine.
LEMMA AcquireIsFree ==
  ASSUME TypeOK, Located, LockInv, NEW p \in Procs, MyTurn(p), Acquire(p)
  PROVE  /\ \A q \in Procs \ {p} : pc[q] \in Held
              => elock'[EmpOf[req[q]]] = elock[EmpOf[req[q]]]
         /\ elock'[EmpOf[req[p]]] = p
         /\ req[p] \in Requests
<1>1. req[p] \in Requests
  BY DEF MyTurn, Located, LocatedAt
<1>2. elock[EmpOf[req[p]]] = None
  BY DEF MyTurn, LockInv, LockAt
<1>3. EmpOf[req[p]] \in Employees
  BY <1>1, ConstantsTyped
<1>4. ASSUME NEW q \in Procs \ {p}, pc[q] \in Held
      PROVE  EmpOf[req[q]] # EmpOf[req[p]]
  BY <1>2, <1>4, ProcessNames DEF LockInv, LockAt, Procs
<1> QED BY <1>1, <1>3, <1>4 DEF Acquire, TypeOK

\* The lock a coroutine releases is its own, so the others keep theirs.
LEMMA ReleaseIsOwn ==
  ASSUME TypeOK, Located, LockInv, NEW p \in Procs, pc[p] \in Held,
         elock' = [elock EXCEPT ![EmpOf[req[p]]] = None]
  PROVE  \A q \in Procs \ {p} : pc[q] \in Held
           => elock'[EmpOf[req[q]]] = elock[EmpOf[req[q]]]
<1>1. ASSUME NEW q \in Procs \ {p}, pc[q] \in Held
      PROVE  EmpOf[req[q]] # EmpOf[req[p]]
  BY <1>1 DEF LockInv, LockAt
<1> QED BY <1>1 DEF TypeOK

\* Nobody holds, awaits or needs a lock at the start.
LEMMA CoroutineInit == Init => Located /\ LockInv
  BY DEF Init, Located, LocatedAt, LockInv, LockAt, OneSync, Held, Sync

\* Goto moves the coroutine that runs and no other.
LEMMA GotoAt ==
  ASSUME TypeOK, NEW p \in Procs, NEW l, Goto(p, l)
  PROVE  pc'[p] = l /\ \A q \in Procs \ {p} : pc'[q] = pc[q]
  BY DEF TypeOK, Goto

\* Enter moves the coroutine that runs, and no other, to "enter" or "lock".
LEMMA EnterAt ==
  ASSUME TypeOK, NEW p \in Procs, NEW e, Enter(p, e)
  PROVE  /\ \A q \in Procs \ {p} : pc'[q] = pc[q]
         /\ \/ pc'[p] = "lock"
            \/ pc'[p] = "enter" /\ elock[e] = None
  BY DEF TypeOK, Goto, Enter

\* A coroutine enters: its request is chosen and it queues for the lock.
LEMMA EnterStep ==
  ASSUME TypeOK, Located, LockInv, NEW p \in Procs, NEW r \in Requests, LoopFree(p),
         req' = [req EXCEPT ![p] = r], Enter(p, EmpOf[r]),
         UNCHANGED <<cur, todo, elock>>
  PROVE  Located' /\ LockInv'
<1>1. /\ \A q \in Procs \ {p} : /\ pc'[q] = pc[q] /\ req'[q] = req[q]
                                /\ cur'[q] = cur[q] /\ todo'[q] = todo[q]
      /\ req'[p] = r
  BY EnterAt DEF TypeOK
<1>2. LocatedAt(p)' /\ LockAt(p)'
  BY <1>1, EnterAt DEF LocatedAt, LockAt, Held
<1> QED BY <1>1, <1>2, OwnStep

\* A coroutine that moves on inside the critical section.
LEMMA InsideStep ==
  ASSUME TypeOK, Located, LockInv, NEW p \in Procs, LoopFree(p), pc[p] \in Held,
         NEW l \in Held, Goto(p, l), UNCHANGED <<req, elock>>,
         \A q \in Procs \ {p} : cur'[q] = cur[q] /\ todo'[q] = todo[q],
         l \in {"claimed", "call", "compcall", "vcall"}
           => cur'[p] \in Steps /\ ReqOf[cur'[p]] = req[p],
         l \in {"comp", "compcall", "verify", "vcall"}
           => todo'[p] \subseteq Rows(req[p])
  PROVE  Located' /\ LockInv'
<1>1. pc'[p] = l /\ \A q \in Procs \ {p} : pc'[q] = pc[q]
  BY GotoAt
<1>2. LocatedAt(p)'
  BY <1>1 DEF Located, LocatedAt, Held, Rows
<1>3. LockAt(p)'
  BY <1>1 DEF LockInv, LockAt, Held
<1> QED BY <1>1, <1>2, <1>3, OwnStep

\* A coroutine that leaves the critical section.
LEMMA LeaveStep ==
  ASSUME TypeOK, Located, LockInv, NEW p \in Procs, LoopFree(p), pc[p] \in Held,
         NEW l \in Outside \ {"enter", "lock"}, Goto(p, l),
         UNCHANGED <<req, cur, todo>>,
         elock' = [elock EXCEPT ![EmpOf[req[p]]] = None]
  PROVE  Located' /\ LockInv'
<1>1. pc'[p] = l /\ \A q \in Procs \ {p} : pc'[q] = pc[q]
  BY GotoAt
<1>2. LocatedAt(p)' /\ LockAt(p)'
  BY <1>1 DEF LocatedAt, LockAt, Held, Outside
<1> QED BY <1>1, <1>2, OwnStep, ReleaseIsOwn

\* A coroutine that enters the critical section and stays there.
LEMMA AcquireStep ==
  ASSUME TypeOK, Located, LockInv, NEW p \in Procs, MyTurn(p), Acquire(p),
         NEW l \in Held \ {"claimed", "call", "compcall", "vcall"}, Goto(p, l),
         UNCHANGED <<req, cur>>,
         \A q \in Procs \ {p} : todo'[q] = todo[q],
         l \in {"comp", "verify"} => todo'[p] \subseteq Rows(req[p])
  PROVE  Located' /\ LockInv'
<1>1. pc'[p] = l /\ \A q \in Procs \ {p} : pc'[q] = pc[q]
  BY GotoAt
<1>2. LoopFree(p)
  BY Alone
<1>3. LocatedAt(p)' /\ LockAt(p)'
  BY <1>1, AcquireIsFree DEF LocatedAt, LockAt, Held, Rows
<1> QED BY <1>1, <1>2, <1>3, AcquireIsFree, OwnStep

\* A coroutine that enters the critical section and leaves it in the same step.
LEMMA PassStep ==
  ASSUME TypeOK, Located, LockInv, NEW p \in Procs, MyTurn(p), PassThrough(p),
         UNCHANGED <<req, cur, todo>>
  PROVE  Located' /\ LockInv'
<1>1. pc'[p] = "ended" /\ \A q \in Procs \ {p} : pc'[q] = pc[q]
  BY GotoAt DEF PassThrough
<1>2. LoopFree(p)
  BY Alone
<1>3. LocatedAt(p)' /\ LockAt(p)'
  BY <1>1 DEF LocatedAt, LockAt, Held
<1> QED BY <1>1, <1>2, <1>3, OwnStep DEF PassThrough

\* successful_commands and verification_commands return rows of their request.
LEMMA TargetsOfRequest ==
  ASSUME NEW r
  PROVE  /\ CompensationTargets(r) \subseteq Rows(r)
         /\ VerificationTargets(r) \subseteq Rows(r)
  BY DEF CompensationTargets, VerificationTargets, LastPerSystem

\* Every step keeps what coroutines know and the lock discipline.
LEMMA CoroutineStep ==
  TypeOK /\ Located /\ LockInv /\ [Next]_vars => Located' /\ LockInv'
<1> SUFFICES ASSUME TypeOK, Located, LockInv, [Next]_vars PROVE Located' /\ LockInv'
  OBVIOUS
<1> USE DEF stepvars, reqvars, compvars, extvars, procvars, lockvars, runvars
<1>1. ASSUME NEW p \in Calls, NEW r \in Requests, StartSubmit(p, r)
      PROVE  Located' /\ LockInv'
  BY <1>1, EnterStep DEF StartSubmit, Procs
<1>2. ASSUME NEW p \in Calls, NEW r \in Requests,
             NEW k \in {"retry", "cancel", "verify"}, StartAction(p, k, r)
      PROVE  Located' /\ LockInv'
  BY <1>2, EnterStep DEF StartAction, Procs
<1>3. ASSUME NEW p \in Procs, LockedSubmit(p) PROVE Located' /\ LockInv'
  <2>1. CASE PassThrough(p)
    BY <1>3, <2>1, PassStep DEF LockedSubmit
  <2>2. CASE Acquire(p) /\ Goto(p, "claim")
    BY <1>3, <2>2, AcquireStep DEF LockedSubmit, Held
  <2> QED BY <1>3, <2>1, <2>2 DEF LockedSubmit
<1>4. ASSUME NEW p \in Procs, LockedRetry(p) PROVE Located' /\ LockInv'
  <2>1. Goto(p, "claim") \/ Goto(p, "result")
    BY <1>4 DEF LockedRetry
  <2>2. MyTurn(p) /\ Acquire(p) /\ UNCHANGED <<req, cur, todo>>
    BY <1>4 DEF LockedRetry
  <2> QED BY <2>1, <2>2, AcquireStep DEF Held
<1>5. ASSUME NEW p \in Procs, LockedCancel(p) PROVE Located' /\ LockInv'
  <2>1. MyTurn(p) /\ Acquire(p) /\ Goto(p, "mark") /\ UNCHANGED <<req, cur, todo>>
    BY <1>5 DEF LockedCancel
  <2> QED BY <2>1, AcquireStep DEF Held
<1>6. ASSUME NEW p \in Procs, LockedVerify(p) PROVE Located' /\ LockInv'
  <2>1. CASE PassThrough(p) /\ UNCHANGED todo
    BY <1>6, <2>1, PassStep DEF LockedVerify
  <2>2. CASE /\ todo' = [todo EXCEPT ![p] = VerificationTargets(req[p])]
             /\ Acquire(p) /\ Goto(p, "verify")
    <3>1. /\ \A q \in Procs \ {p} : todo'[q] = todo[q]
          /\ todo'[p] \subseteq Rows(req[p])
      BY <2>2, TargetsOfRequest DEF TypeOK
    <3>2. MyTurn(p) /\ UNCHANGED <<req, cur>>
      BY <1>6 DEF LockedVerify
    <3> QED BY <2>2, <3>1, <3>2, AcquireStep DEF Held
  <2> QED BY <1>6, <2>1, <2>2 DEF LockedVerify
<1>7. ASSUME NEW p \in Procs, LockedRun(p) PROVE Located' /\ LockInv'
  BY <1>7, AcquireStep DEF LockedRun, Held
<1>8. ASSUME NEW p \in Procs, LockedDue(p) PROVE Located' /\ LockInv'
  <2>1. /\ \A q \in Procs \ {p} : todo'[q] = todo[q]
        /\ todo'[p] \subseteq Rows(req[p])
    BY <1>8, TargetsOfRequest DEF TypeOK, LockedDue
  <2>2. MyTurn(p) /\ Acquire(p) /\ Goto(p, "comp") /\ UNCHANGED <<req, cur>>
    BY <1>8 DEF LockedDue
  <2> QED BY <2>1, <2>2, AcquireStep DEF Held
<1>9. ASSUME NEW p \in Procs, MarkCancelled(p) \/ StartCompensation(p)
      PROVE  Located' /\ LockInv'
  <2>1. /\ \A q \in Procs \ {p} : todo'[q] = todo[q]
        /\ todo'[p] \subseteq Rows(req[p])
    BY <1>9, TargetsOfRequest DEF TypeOK, MarkCancelled, StartCompensation
  <2>2. /\ pc[p] \in {"mark", "dead"} /\ Goto(p, "comp")
        /\ UNCHANGED <<req, cur, elock>>
    BY <1>9 DEF MarkCancelled, StartCompensation
  <2>3. LoopFree(p)
    BY <2>2, Alone DEF Sync
  <2> QED BY <2>1, <2>2, <2>3, InsideStep DEF Held
<1>10. ASSUME NEW p \in Procs, ClaimNext(p) PROVE Located' /\ LockInv'
  <2>1. pc[p] = "claim" /\ UNCHANGED <<req, todo, elock>>
    BY <1>10 DEF ClaimNext
  <2>2. LoopFree(p)
    BY <2>1, Alone DEF Sync
  <2>3. CASE Goto(p, "result") /\ UNCHANGED cur
    BY <2>1, <2>2, <2>3, InsideStep DEF Held
  <2>4. ASSUME NEW s \in Steps, First(s, Claimable(req[p])),
               cur' = [cur EXCEPT ![p] = s], Goto(p, "claimed")
        PROVE  Located' /\ LockInv'
    <3>1. /\ \A q \in Procs \ {p} : cur'[q] = cur[q]
          /\ cur'[p] \in Steps /\ ReqOf[cur'[p]] = req[p]
      BY <2>4 DEF TypeOK, First, Claimable, Rows
    <3> QED BY <2>1, <2>2, <2>4, <3>1, InsideStep DEF Held
  <2> QED BY <1>10, <2>3, <2>4 DEF ClaimNext
<1>11. ASSUME NEW p \in Procs, Admit(p) PROVE Located' /\ LockInv'
  <2>1. pc[p] = "claimed" /\ UNCHANGED <<req, cur, todo, elock>>
    BY <1>11 DEF Admit
  <2>2. LoopFree(p)
    BY <2>1, Alone DEF Sync
  <2>3. Goto(p, "result") \/ Goto(p, "call")
    BY <1>11 DEF Admit
  <2>4. cur[p] \in Steps /\ ReqOf[cur[p]] = req[p]
    BY <2>1 DEF Located, LocatedAt
  <2> QED BY <2>1, <2>2, <2>3, <2>4, InsideStep DEF Held
<1>12. ASSUME NEW p \in Procs, ReturnOk(p) PROVE Located' /\ LockInv'
  BY <1>12, InsideStep DEF ReturnOk, Held
<1>13. ASSUME NEW p \in Procs, NEW b \in BOOLEAN, ReturnFailed(p, b)
       PROVE  Located' /\ LockInv'
  <2>1. /\ pc[p] = "call" /\ LoopFree(p) /\ UNCHANGED <<req, cur, todo, elock>>
        /\ Goto(p, "dead") \/ Goto(p, "result")
    BY <1>13 DEF ReturnFailed
  <2> QED BY <2>1, InsideStep DEF Held
<1>14. ASSUME NEW p \in Procs, CompensateNext(p) PROVE Located' /\ LockInv'
  <2> PICK s \in Steps :
        /\ pc[p] = "comp" /\ Last(s, todo[p])
        /\ \/ /\ todo' = [todo EXCEPT ![p] = @ \ {s}]
              /\ UNCHANGED <<pc, cur>>
           \/ /\ cur' = [cur EXCEPT ![p] = s]
              /\ Goto(p, "compcall")
              /\ UNCHANGED todo
        /\ UNCHANGED <<req, elock>>
    BY <1>14 DEF CompensateNext
  <2>1. LoopFree(p)
    BY Alone DEF Sync
  <2>2. todo[p] \subseteq Rows(req[p])
    BY DEF Located, LocatedAt
  <2>3. CASE todo' = [todo EXCEPT ![p] = @ \ {s}] /\ UNCHANGED <<pc, cur>>
    <3>1. Goto(p, "comp")
      BY <2>3 DEF Goto, TypeOK
    <3>2. /\ \A q \in Procs \ {p} : todo'[q] = todo[q]
          /\ todo'[p] \subseteq Rows(req[p])
      BY <2>2, <2>3 DEF TypeOK
    <3> QED BY <2>1, <2>3, <3>1, <3>2, InsideStep DEF Held
  <2>4. CASE /\ cur' = [cur EXCEPT ![p] = s] /\ Goto(p, "compcall")
             /\ UNCHANGED todo
    <3>1. /\ \A q \in Procs \ {p} : cur'[q] = cur[q]
          /\ cur'[p] \in Steps /\ ReqOf[cur'[p]] = req[p]
      BY <2>2, <2>4 DEF TypeOK, Last, Rows
    <3> QED BY <2>1, <2>2, <2>4, <3>1, InsideStep DEF Held
  <2> QED BY <2>3, <2>4
<1>15. ASSUME NEW p \in Procs, NEW ok \in BOOLEAN, CompensationReturn(p, ok)
       PROVE  Located' /\ LockInv'
  <2>1. /\ pc[p] = "compcall" /\ LoopFree(p) /\ Goto(p, "comp")
        /\ UNCHANGED <<req, cur, elock>>
        /\ todo' = [todo EXCEPT ![p] = @ \ {cur[p]}]
    BY <1>15 DEF CompensationReturn
  <2>2. /\ \A q \in Procs \ {p} : todo'[q] = todo[q]
        /\ todo'[p] \subseteq Rows(req[p])
    BY <2>1 DEF TypeOK, Located, LocatedAt
  <2> QED BY <2>1, <2>2, InsideStep DEF Held
<1>16. ASSUME NEW p \in Procs, CompensationDone(p) PROVE Located' /\ LockInv'
  <2>1. /\ pc[p] = "comp" /\ Goto(p, "result")
        /\ UNCHANGED <<req, cur, todo, elock>>
    BY <1>16 DEF CompensationDone
  <2> QED BY <2>1, Alone, InsideStep DEF Held, Sync
<1>17. ASSUME NEW p \in Procs, VerifyNext(p) PROVE Located' /\ LockInv'
  <2>1. pc[p] = "verify" /\ UNCHANGED <<req, todo>>
    BY <1>17 DEF VerifyNext
  <2>2. LoopFree(p) /\ todo[p] \subseteq Rows(req[p])
    BY <2>1, Alone DEF Sync, Located, LocatedAt
  <2>3. CASE /\ Goto(p, "ended") /\ UNCHANGED cur
             /\ elock' = [elock EXCEPT ![EmpOf[req[p]]] = None]
    BY <2>1, <2>2, <2>3, LeaveStep DEF Held, Outside
  <2>4. ASSUME NEW s \in Steps, Last(s, todo[p]), cur' = [cur EXCEPT ![p] = s],
               Goto(p, "vcall"), UNCHANGED elock
        PROVE  Located' /\ LockInv'
    <3>1. /\ \A q \in Procs \ {p} : cur'[q] = cur[q]
          /\ cur'[p] \in Steps /\ ReqOf[cur'[p]] = req[p]
      BY <2>2, <2>4 DEF TypeOK, Last, Rows
    <3> QED BY <2>1, <2>2, <2>4, <3>1, InsideStep DEF Held
  <2> QED BY <1>17, <2>3, <2>4 DEF VerifyNext
<1>18. ASSUME NEW p \in Procs, VerifyReturn(p) PROVE Located' /\ LockInv'
  <2>1. pc[p] = "vcall" /\ LoopFree(p) /\ UNCHANGED <<req, cur>>
    BY <1>18 DEF VerifyReturn
  <2>2. CASE /\ Goto(p, "ended") /\ UNCHANGED todo
             /\ elock' = [elock EXCEPT ![EmpOf[req[p]]] = None]
    BY <2>1, <2>2, LeaveStep DEF Held, Outside
  <2>3. CASE /\ todo' = [todo EXCEPT ![p] = @ \ {cur[p]}]
             /\ Goto(p, "verify") /\ UNCHANGED elock
    <3>1. /\ \A q \in Procs \ {p} : todo'[q] = todo[q]
          /\ todo'[p] \subseteq Rows(req[p])
      BY <2>1, <2>3 DEF TypeOK, Located, LocatedAt
    <3> QED BY <2>1, <2>3, <3>1, InsideStep DEF Held
  <2> QED BY <1>18, <2>2, <2>3 DEF VerifyReturn
<1>19. ASSUME NEW p \in Procs, Result(p) PROVE Located' /\ LockInv'
  <2>1. pc[p] = "result" /\ UNCHANGED <<req, cur, todo>>
    BY <1>19 DEF Result
  <2>2. LoopFree(p)
    BY <2>1, Alone DEF Sync
  <2>3. CASE Goto(p, "callback") /\ UNCHANGED elock
    BY <2>1, <2>2, <2>3, InsideStep DEF Held
  <2>4. CASE /\ Goto(p, "ended") \/ Goto(p, "scan") \/ Goto(p, "due")
             /\ Release(p)
    BY <2>1, <2>2, <2>4, LeaveStep DEF Held, Outside, Release
  <2> QED BY <1>19, <2>3, <2>4 DEF Result
<1>20. ASSUME NEW p \in Procs, CallbackDone(p) PROVE Located' /\ LockInv'
  BY <1>20, LeaveStep DEF CallbackDone, Release, Held, Outside
<1>21. CASE WorkerWakes \/ WorkerDue \/ WorkerRests
  <2>1. /\ Goto(Worker, "scan") \/ Goto(Worker, "due") \/ Goto(Worker, "rest")
        /\ LoopFree(Worker) /\ UNCHANGED <<req, cur, todo, elock>>
    BY <1>21, Alone DEF WorkerWakes, WorkerDue, WorkerRests, Sync, Procs
  <2>2. /\ pc'[Worker] \in {"scan", "due", "rest"}
        /\ \A q \in Procs \ {Worker} : pc'[q] = pc[q]
    BY <2>1, GotoAt DEF Procs
  <2>3. LocatedAt(Worker)' /\ LockAt(Worker)'
    BY <2>2 DEF LocatedAt, LockAt, Held
  <2> QED BY <2>1, <2>2, <2>3, OwnStep DEF Procs
<1>22. ASSUME NEW r \in Requests, WorkerTakes(r) \/ WorkerTakesDue(r)
       PROVE  Located' /\ LockInv'
  <2>1. LoopFree(Worker) /\ UNCHANGED <<cur, todo, elock>>
    BY <1>22, Alone DEF WorkerTakes, WorkerTakesDue, Sync, Procs
  <2>2. CASE UNCHANGED <<pc, req>>
    BY <2>1, <2>2 DEF Located, LocatedAt, LockInv, LockAt, OneSync, Rows
  <2>3. CASE req' = [req EXCEPT ![Worker] = r] /\ Enter(Worker, EmpOf[r])
    BY <2>1, <2>3, EnterStep DEF Procs
  <2> QED BY <1>22, <2>2, <2>3 DEF WorkerTakes, WorkerTakesDue
<1>23. CASE UNCHANGED <<pc, req, cur, todo, elock>>
  BY <1>23 DEF Located, LocatedAt, LockInv, LockAt, OneSync, Rows
<1>24. ASSUME NEW s, (\E r \in Requests : ReadResult(r)) \/ Elapse(s)
                     \/ ElapseCompensation(s) \/ Restart \/ UNCHANGED vars
       PROVE  UNCHANGED <<pc, req, cur, todo, elock>>
  BY <1>24 DEF ReadResult, Elapse, ElapseCompensation, Restart, vars
<1>25. ASSUME NEW p \in Procs, Land(p) PROVE UNCHANGED <<pc, req, cur, todo, elock>>
  BY <1>25 DEF Land
<1>26. CASE Crash
  <2>1. \A p \in Procs : pc'[p] \in {"rest", "new", "ended"}
    BY <1>26 DEF Crash
  <2> QED BY <2>1 DEF Located, LocatedAt, LockInv, LockAt, OneSync, Held, Sync
<1> QED
  BY <1>1, <1>2, <1>3, <1>4, <1>5, <1>6, <1>7, <1>8, <1>9, <1>10, <1>11, <1>12,
     <1>13, <1>14, <1>15, <1>16, <1>17, <1>18, <1>19, <1>20, <1>21, <1>22, <1>23,
     <1>24, <1>25, <1>26
  DEF Next, Start, LoopStep, Answer, WorkerStep

\* The database, the providers and the coroutines stay within their types: in
\* particular every action of engine.py leaves step and result states that the
\* queries of repository.py know.
THEOREM TypeCorrect == Spec => []TypeOK
<1>1. Init => TypeOK /\ Located /\ LockInv
  BY TypeInit, CoroutineInit
<1>2. TypeOK /\ Located /\ LockInv /\ [Next]_vars => (TypeOK /\ Located /\ LockInv)'
  BY TypeStep, CoroutineStep
<1> QED BY <1>1, <1>2, PTL DEF Spec

\* The employee lock of engine.py is held exactly where the code is inside
\* `async with employee_lock`, and one coroutine at a time runs in the event loop.
THEOREM LockDiscipline == Spec => [](TypeOK /\ Located /\ LockInv)
<1>1. Init => TypeOK /\ Located /\ LockInv
  BY TypeInit, CoroutineInit
<1>2. TypeOK /\ Located /\ LockInv /\ [Next]_vars => (TypeOK /\ Located /\ LockInv)'
  BY TypeStep, CoroutineStep
<1> QED BY <1>1, <1>2, PTL DEF Spec

\* The employee lock of engine.py serialises adapter calls: at most one
\* coroutine has a call for an employee in flight, for any number of API calls.
THEOREM MutualExclusion == Spec => []OneCallPerEmployee
<1>1. LockInv => OneCallPerEmployee
  BY DEF LockInv, LockAt, OneCallPerEmployee, AdapterCalls, Held
<1> QED BY <1>1, LockDiscipline, PTL

-----------------------------------------------------------------------------
(* Waiting for the employee lock: nobody waits in vain, and nobody who waits *)
(* or rests holds a lock.                                                    *)

Waits(e, p) == pc[p] = "lock" /\ EmpOf[req[p]] = e

\* The same after the step, of a process named before it.
WaitsNext(e, p) == pc'[p] = "lock" /\ EmpOf[req'[p]] = e

\* A lock is held by somebody inside its critical section.
NoLeak ==
  \A e \in Employees :
    elock[e] # None => pc[elock[e]] \in Held /\ EmpOf[req[elock[e]]] = e

\* The queue of an employee has those who wait for the lock, once each.
QueueOf(e) ==
  /\ \A i \in 1..Len(queue[e]) : Waits(e, queue[e][i])
  /\ \A i, j \in 1..Len(queue[e]) : queue[e][i] = queue[e][j] => i = j
  /\ \A p \in Procs : Waits(e, p) => \E i \in 1..Len(queue[e]) : queue[e][i] = p

Queues == \A e \in Employees : QueueOf(e)

WaitInv == NoLeak /\ Queues

\* Somebody who waits has one place in the queue, and either another coroutine is
\* inside, which waits for no lock, or the lock is free for the first in the queue.
WaitersServed ==
  \A p \in Procs : pc[p] = "lock" =>
    LET e == EmpOf[req[p]] IN
    /\ \E i \in 1..Len(queue[e]) : {j \in 1..Len(queue[e]) : queue[e][j] = p} = {i}
    /\ \/ /\ elock[e] \in Procs \ {p}
          /\ pc[elock[e]] \in Held /\ EmpOf[req[elock[e]]] = e
       \/ elock[e] = None /\ Waits(e, Head(queue[e]))

\* What a step can do to the lock of an employee, seen from the coroutine p it moves.
Arrives(p) ==
  /\ pc[p] \in {"new", "scan", "due"}
  /\ \E r \in Requests : req' = [req EXCEPT ![p] = r] /\ Enter(p, EmpOf[r])
  /\ UNCHANGED elock

GoesIn(p) == MyTurn(p) /\ Acquire(p) /\ (\E l \in Held : Goto(p, l)) /\ UNCHANGED req

GoesThrough(p) == MyTurn(p) /\ PassThrough(p) /\ UNCHANGED req

StaysIn(p) ==
  pc[p] \in Held /\ (\E l \in Held : Goto(p, l)) /\ UNCHANGED <<req, elock, queue>>

GoesOut(p) ==
  /\ pc[p] \in Held /\ (\E l \in {"ended", "scan", "due"} : Goto(p, l))
  /\ Release(p) /\ UNCHANGED req

GoesRound ==
  /\ pc[Worker] \in {"rest", "scan", "due"}
  /\ \E l \in {"rest", "scan", "due"} : Goto(Worker, l)
  /\ UNCHANGED <<req, elock, queue>>

\* Every step of the engine is one of these, a crash, or leaves coroutines and locks alone.
LEMMA LockMoves ==
  ASSUME TypeOK, [Next]_vars
  PROVE  \/ \E p \in Procs : \/ Arrives(p) \/ GoesIn(p) \/ GoesThrough(p)
                             \/ StaysIn(p) \/ GoesOut(p)
         \/ GoesRound \/ Crash \/ UNCHANGED <<pc, req, elock, queue>>
<1> USE DEF procvars, lockvars, runvars
<1>1. ASSUME NEW p \in Calls, Start(p) PROVE Arrives(p)
  BY <1>1 DEF Start, StartSubmit, StartAction, Arrives
<1>2. ASSUME NEW p \in Procs, LockedSubmit(p) PROVE GoesIn(p) \/ GoesThrough(p)
  BY <1>2 DEF LockedSubmit, GoesIn, GoesThrough, Held
<1>3. ASSUME NEW p \in Procs, LockedVerify(p) PROVE GoesIn(p) \/ GoesThrough(p)
  BY <1>3 DEF LockedVerify, GoesIn, GoesThrough, Held
<1>4. ASSUME NEW p \in Procs,
             LockedRetry(p) \/ LockedCancel(p) \/ LockedRun(p) \/ LockedDue(p)
      PROVE  GoesIn(p)
  BY <1>4 DEF LockedRetry, LockedCancel, LockedRun, LockedDue, GoesIn, Held
<1>5. ASSUME NEW p \in Procs,
             \/ MarkCancelled(p) \/ ClaimNext(p) \/ Admit(p) \/ StartCompensation(p)
             \/ CompensationDone(p)
      PROVE  StaysIn(p)
  BY <1>5 DEF MarkCancelled, ClaimNext, Admit, StartCompensation, CompensationDone,
     StaysIn, Held
<1>6. ASSUME NEW p \in Procs, CompensateNext(p) PROVE StaysIn(p)
  <2>1. /\ pc[p] = "comp" /\ (UNCHANGED pc \/ Goto(p, "compcall"))
        /\ UNCHANGED <<req, elock, queue>>
    BY <1>6 DEF CompensateNext
  <2>2. UNCHANGED pc => Goto(p, "comp")
    BY <2>1 DEF TypeOK, Goto
  <2> QED BY <2>1, <2>2 DEF StaysIn, Held
<1>7. ASSUME NEW p \in Procs, VerifyNext(p) PROVE StaysIn(p) \/ GoesOut(p)
  BY <1>7 DEF VerifyNext, StaysIn, GoesOut, Release, Held
<1>8. ASSUME NEW p \in Procs, Result(p) PROVE StaysIn(p) \/ GoesOut(p)
  BY <1>8 DEF Result, StaysIn, GoesOut, Held
<1>9. ASSUME NEW p \in Procs, ReturnOk(p) \/ ReturnFailed(p, TRUE) \/ ReturnFailed(p, FALSE)
      PROVE  StaysIn(p)
  BY <1>9 DEF ReturnOk, ReturnFailed, StaysIn, Held
<1>10. ASSUME NEW p \in Procs, CompensationReturn(p, TRUE) \/ CompensationReturn(p, FALSE)
       PROVE  StaysIn(p)
  BY <1>10 DEF CompensationReturn, StaysIn, Held
<1>11. ASSUME NEW p \in Procs, VerifyReturn(p) PROVE StaysIn(p) \/ GoesOut(p)
  BY <1>11 DEF VerifyReturn, StaysIn, GoesOut, Release, Held
<1>12. ASSUME NEW p \in Procs, CallbackDone(p) PROVE GoesOut(p)
  BY <1>12 DEF CallbackDone, GoesOut, Held
<1>13. CASE WorkerWakes \/ WorkerDue \/ WorkerRests
  <2>1. GoesRound
    BY <1>13 DEF WorkerWakes, WorkerDue, WorkerRests, GoesRound
  <2> QED BY <2>1
<1>14. ASSUME NEW r \in Requests, WorkerTakes(r) \/ WorkerTakesDue(r)
       PROVE  Arrives(Worker) \/ UNCHANGED <<pc, req, elock, queue>>
  BY <1>14 DEF WorkerTakes, WorkerTakesDue, Arrives
<1>15. CASE \/ \E p \in Procs : Land(p)
            \/ \E r \in Requests : ReadResult(r)
            \/ \E s \in Steps : Elapse(s) \/ ElapseCompensation(s)
            \/ Restart \/ UNCHANGED vars
  BY <1>15 DEF Land, ReadResult, Elapse, ElapseCompensation, Restart, vars
<1> QED
  BY <1>1, <1>2, <1>3, <1>4, <1>5, <1>6, <1>7, <1>8, <1>9, <1>10, <1>11, <1>12, <1>13,
     <1>14, <1>15
  DEF Next, LoopStep, Answer, WorkerStep, Procs

\* A coroutine that neither waits nor is inside is in no queue and holds no lock.
LEMMA Elsewhere ==
  ASSUME WaitInv, NEW e \in Employees, NEW p \in Procs
  PROVE  /\ pc[p] # "lock" => \A i \in 1..Len(queue[e]) : queue[e][i] # p
         /\ pc[p] \notin Held => elock[e] # p \/ p = None
  BY DEF WaitInv, NoLeak, Queues, QueueOf, Waits

\* QueueOf after the step, said of the sequence that the queue becomes.
LEMMA QueueBecomes ==
  ASSUME NEW e, NEW t, queue'[e] = t,
         \A i \in 1..Len(t) : WaitsNext(e, t[i]),
         \A i, j \in 1..Len(t) : t[i] = t[j] => i = j,
         \A p \in Procs : WaitsNext(e, p) => \E i \in 1..Len(t) : t[i] = p
  PROVE  QueueOf(e)'
  BY DEF QueueOf, Waits, WaitsNext

\* The queue of an employee does not change, and who was in it still waits.
LEMMA QueueKept ==
  ASSUME TypeOK, WaitInv, NEW e \in Employees, queue'[e] = queue[e],
         \A p \in Procs : WaitsNext(e, p) <=> Waits(e, p)
  PROVE  QueueOf(e)'
<1> DEFINE t == queue[e]
<1>1. QueueOf(e) /\ t \in Seq(Procs)
  BY DEF WaitInv, Queues, TypeOK
<1>2. \A i \in 1..Len(t) : WaitsNext(e, t[i])
  BY <1>1 DEF QueueOf
<1>3. \A i, j \in 1..Len(t) : t[i] = t[j] => i = j
  BY <1>1 DEF QueueOf
<1>4. \A p \in Procs : WaitsNext(e, p) => \E i \in 1..Len(t) : t[i] = p
  BY <1>1 DEF QueueOf
<1> HIDE DEF t
<1> QED BY <1>2, <1>3, <1>4, QueueBecomes DEF t

\* The first in the queue leaves it, and no longer waits.
LEMMA HeadLeaves ==
  ASSUME TypeOK, WaitInv, NEW p \in Procs, pc[p] = "lock", req[p] \in Requests,
         MyTurn(p), Dequeue(p), UNCHANGED req,
         pc'[p] # "lock", \A q \in Procs \ {p} : pc'[q] = pc[q]
  PROVE  Queues'
<1> DEFINE d == EmpOf[req[p]]
<1>1. /\ d \in Employees /\ queue[d] # <<>> /\ Head(queue[d]) = p
      /\ queue' = [queue EXCEPT ![d] = Tail(@)]
  BY ConstantsTyped DEF MyTurn, Dequeue
<1>2. \A e \in Employees, q \in Procs \ {p} : WaitsNext(e, q) <=> Waits(e, q)
  BY DEF Waits, WaitsNext
<1>3. \A e \in Employees : ~WaitsNext(e, p) /\ (e # d => ~Waits(e, p))
  BY DEF Waits, WaitsNext
<1> HIDE DEF d
<1> SUFFICES ASSUME NEW e \in Employees PROVE QueueOf(e)'
  BY DEF Queues
<1> DEFINE s == queue[e]
<1>4. QueueOf(e) /\ s \in Seq(Procs) /\ queue \in [Employees -> Seq(Procs)]
  BY DEF WaitInv, Queues, TypeOK
<1>5. \A i \in 1..Len(s) : s[i] \in Procs
  BY <1>4
<1>6. \A i \in 1..Len(s) : Waits(e, s[i])
  BY <1>4 DEF QueueOf
<1>7. CASE e = d
  <2>1. queue'[e] = Tail(s) /\ s # <<>> /\ s[1] = p
    BY <1>1, <1>4, <1>7
  <2>2. /\ Len(Tail(s)) = Len(s) - 1 /\ Len(s) \in Nat \ {0}
        /\ \A i \in 1..Len(Tail(s)) : Tail(s)[i] = s[i + 1] /\ i + 1 \in 1..Len(s)
    BY <1>4, <2>1
  <2>3. \A i, j \in 1..Len(s) : s[i] = s[j] => i = j
    BY <1>4 DEF QueueOf
  <2>4. \A i \in 1..Len(Tail(s)) : Tail(s)[i] # p /\ Tail(s)[i] \in Procs
    <3> TAKE i \in 1..Len(Tail(s))
    <3>1. i + 1 \in 1..Len(s) /\ 1 \in 1..Len(s) /\ i + 1 # 1 /\ Tail(s)[i] = s[i + 1]
      BY <2>2
    <3>2. s[i + 1] # s[1]
      BY <2>3, <3>1
    <3> QED BY <1>5, <2>1, <3>1, <3>2
  <2>5. \A i \in 1..Len(Tail(s)) : WaitsNext(e, Tail(s)[i])
    <3> TAKE i \in 1..Len(Tail(s))
    <3>1. Tail(s)[i] = s[i + 1] /\ i + 1 \in 1..Len(s)
      BY <2>2
    <3>2. Waits(e, s[i + 1])
      BY <1>6, <3>1
    <3> QED BY <1>2, <2>4, <3>1, <3>2
  <2>6. ASSUME NEW i \in 1..Len(Tail(s)), NEW j \in 1..Len(Tail(s)), Tail(s)[i] = Tail(s)[j]
        PROVE  i = j
    <3>1. i + 1 = j + 1
      BY <2>2, <2>3, <2>6
    <3> QED BY <2>2, <3>1
  <2>7. ASSUME NEW q \in Procs, WaitsNext(e, q)
        PROVE  \E i \in 1..Len(Tail(s)) : Tail(s)[i] = q
    <3>1. q # p /\ Waits(e, q)
      BY <1>2, <1>3, <2>7
    <3>2. PICK k \in 1..Len(s) : s[k] = q
      BY <1>4, <3>1 DEF QueueOf
    <3>3. k # 1 /\ k - 1 \in 1..Len(Tail(s)) /\ k = (k - 1) + 1
      BY <2>1, <2>2, <3>1, <3>2
    <3>4. Tail(s)[k - 1] = s[k]
      BY <2>2, <3>3
    <3> QED BY <3>2, <3>3, <3>4
  <2>8. \A i, j \in 1..Len(Tail(s)) : Tail(s)[i] = Tail(s)[j] => i = j
    BY <2>6
  <2>9. \A q \in Procs : WaitsNext(e, q) => \E i \in 1..Len(Tail(s)) : Tail(s)[i] = q
    BY <2>7
  <2> QED BY <2>1, <2>5, <2>8, <2>9, QueueBecomes
<1>8. CASE e # d
  <2>1. queue'[e] = s
    BY <1>1, <1>4, <1>8
  <2>2. \A q \in Procs : WaitsNext(e, q) <=> Waits(e, q)
    BY <1>2, <1>3, <1>8
  <2> QED BY <2>1, <2>2, QueueKept
<1> QED BY <1>7, <1>8

\* A coroutine that neither waits before its step nor after it leaves the queues alone.
LEMMA NotWaiting ==
  ASSUME TypeOK, WaitInv, NEW p \in Procs, UNCHANGED <<req, queue>>,
         pc[p] # "lock", pc'[p] # "lock", \A q \in Procs \ {p} : pc'[q] = pc[q]
  PROVE  Queues'
<1>1. \A e \in Employees, q \in Procs : WaitsNext(e, q) <=> Waits(e, q)
  BY DEF Waits, WaitsNext
<1> QED BY <1>1, QueueKept DEF Queues

\* Who asks for the lock has it at once, or stands last in the queue.
LEMMA ArrivalKeeps ==
  ASSUME TypeOK, WaitInv, NEW p \in Procs, Arrives(p)
  PROVE  WaitInv'
<1>1. PICK r \in Requests : req' = [req EXCEPT ![p] = r] /\ Enter(p, EmpOf[r])
  BY DEF Arrives
<1>2. pc[p] \notin Held \cup {"lock"} /\ UNCHANGED elock
  BY DEF Arrives, Held
<1>3. \A q \in Procs \ {p} : pc'[q] = pc[q] /\ req'[q] = req[q]
  BY <1>1, EnterAt DEF TypeOK
<1>4. req'[p] = r /\ EmpOf[r] \in Employees
  BY <1>1, ConstantsTyped DEF TypeOK
<1>5. NoLeak'
  <2> SUFFICES ASSUME NEW e \in Employees, elock[e] # None
               PROVE  pc'[elock[e]] \in Held /\ EmpOf[req'[elock[e]]] = e
    BY <1>2 DEF NoLeak
  <2>1. /\ elock[e] \in Procs
        /\ pc[elock[e]] \in Held /\ EmpOf[req[elock[e]]] = e
    BY DEF TypeOK, WaitInv, NoLeak
  <2> QED BY <1>2, <1>3, <2>1
<1>6. \A e \in Employees, q \in Procs \ {p} : WaitsNext(e, q) <=> Waits(e, q)
  BY <1>3 DEF Waits, WaitsNext
<1>7. CASE pc'[p] # "lock"
  <2>1. UNCHANGED queue
    BY <1>1, <1>7 DEF Enter, Goto, TypeOK
  <2>2. \A e \in Employees, q \in Procs : WaitsNext(e, q) <=> Waits(e, q)
    BY <1>2, <1>6, <1>7 DEF Waits, WaitsNext
  <2> QED BY <1>5, <2>1, <2>2, QueueKept DEF WaitInv, Queues
<1>8. CASE pc'[p] = "lock"
  <2> DEFINE d == EmpOf[r]
  <2>1. queue' = [queue EXCEPT ![d] = Append(@, p)]
    BY <1>1, <1>8 DEF Enter, Goto, TypeOK
  <2>2. \A e \in Employees : WaitsNext(e, p) <=> e = d
    BY <1>4, <1>8 DEF Waits, WaitsNext
  <2> HIDE DEF d
  <2> SUFFICES ASSUME NEW e \in Employees PROVE QueueOf(e)'
    BY <1>5 DEF WaitInv, Queues
  <2> DEFINE s == queue[e]
  <2>3. QueueOf(e) /\ s \in Seq(Procs) /\ queue \in [Employees -> Seq(Procs)]
    BY DEF WaitInv, Queues, TypeOK
  <2>4. \A i \in 1..Len(s) : s[i] \in Procs /\ s[i] # p
    BY <1>2, <2>3, Elsewhere
  <2>5. \A i \in 1..Len(s) : Waits(e, s[i])
    BY <2>3 DEF QueueOf
  <2>6. CASE e = d
    <3>1. queue'[e] = Append(s, p)
      BY <2>1, <2>3, <2>6
    <3>2. /\ Len(Append(s, p)) = Len(s) + 1 /\ Len(s) \in Nat
          /\ Append(s, p)[Len(s) + 1] = p
          /\ \A i \in 1..Len(s) : Append(s, p)[i] = s[i]
      BY <2>3
    <3>3. \A i \in 1..Len(s) + 1 : i \in 1..Len(s) \/ i = Len(s) + 1
      BY <3>2
    <3>4. \A i \in 1..Len(s) + 1 : WaitsNext(e, Append(s, p)[i])
      <4> TAKE i \in 1..Len(s) + 1
      <4>1. CASE i \in 1..Len(s)
        <5>1. Append(s, p)[i] = s[i] /\ s[i] \in Procs \ {p} /\ Waits(e, s[i])
          BY <2>4, <2>5, <3>2, <4>1
        <5> QED BY <1>6, <5>1
      <4>2. CASE i = Len(s) + 1
        BY <2>2, <2>6, <3>2, <4>2
      <4> QED BY <3>3, <4>1, <4>2
    <3>5. ASSUME NEW i \in 1..Len(s) + 1, NEW j \in 1..Len(s) + 1,
                 Append(s, p)[i] = Append(s, p)[j]
          PROVE  i = j
      <4>1. CASE i \in 1..Len(s) /\ j \in 1..Len(s)
        <5>1. s[i] = s[j]
          BY <3>2, <3>5, <4>1
        <5> QED BY <2>3, <4>1, <5>1 DEF QueueOf
      <4>2. CASE i = Len(s) + 1 \/ j = Len(s) + 1
        BY <2>4, <3>2, <3>3, <3>5, <4>2
      <4> QED BY <3>3, <4>1, <4>2
    <3>6. ASSUME NEW q \in Procs, WaitsNext(e, q)
          PROVE  \E i \in 1..Len(s) + 1 : Append(s, p)[i] = q
      <4>1. CASE q = p
        <5>1. Len(s) + 1 \in 1..Len(s) + 1
          BY <3>2
        <5> QED BY <3>2, <4>1, <5>1
      <4>2. CASE q # p
        <5>1. Waits(e, q)
          BY <1>6, <3>6, <4>2
        <5>2. PICK k \in 1..Len(s) : s[k] = q
          BY <2>3, <5>1 DEF QueueOf
        <5>3. k \in 1..Len(s) + 1 /\ Append(s, p)[k] = s[k]
          BY <3>2
        <5> QED BY <5>2, <5>3
      <4> QED BY <4>1, <4>2
    <3>7. \A i \in 1..Len(Append(s, p)) : WaitsNext(e, Append(s, p)[i])
      BY <3>2, <3>4
    <3>8. \A i, j \in 1..Len(Append(s, p)) : Append(s, p)[i] = Append(s, p)[j] => i = j
      BY <3>2, <3>5
    <3>9. \A q \in Procs : WaitsNext(e, q)
                          => \E i \in 1..Len(Append(s, p)) : Append(s, p)[i] = q
      BY <3>2, <3>6
    <3> QED BY <3>1, <3>7, <3>8, <3>9, QueueBecomes
  <2>7. CASE e # d
    <3>1. queue'[e] = s
      BY <2>1, <2>3, <2>7
    <3>2. \A q \in Procs : WaitsNext(e, q) <=> Waits(e, q)
      BY <1>2, <1>6, <2>2, <2>7 DEF Waits
    <3> QED BY <3>1, <3>2, QueueKept
  <2> QED BY <2>6, <2>7
<1> QED BY <1>7, <1>8

\* Who holds the lock of an employee is somebody else than a coroutine outside.
LEMMA HolderStays ==
  ASSUME TypeOK, WaitInv, NEW p \in Procs, NEW e \in Employees, elock[e] # None,
         \A q \in Procs \ {p} : pc'[q] = pc[q] /\ req'[q] = req[q],
         pc[p] \notin Held \/ EmpOf[req[p]] # e
  PROVE  elock[e] # p /\ pc'[elock[e]] \in Held /\ EmpOf[req'[elock[e]]] = e
<1>1. elock[e] \in Procs /\ pc[elock[e]] \in Held /\ EmpOf[req[elock[e]]] = e
  BY DEF TypeOK, WaitInv, NoLeak
<1> QED BY <1>1

\* Whoever is admitted into the critical section was the first in the queue, or alone.
LEMMA GoesInKeeps ==
  ASSUME TypeOK, Located, WaitInv, NEW p \in Procs, GoesIn(p) \/ GoesThrough(p)
  PROVE  WaitInv'
<1>1. /\ MyTurn(p) /\ Dequeue(p) /\ UNCHANGED req
      /\ pc'[p] # "lock" /\ \A q \in Procs \ {p} : pc'[q] = pc[q]
      /\ pc[p] \in {"enter", "lock"} /\ req[p] \in Requests
  BY GotoAt DEF GoesIn, GoesThrough, Acquire, PassThrough, MyTurn, Held, Located,
     LocatedAt
<1>2. Queues'
  <2>1. CASE pc[p] = "lock"
    BY <1>1, <2>1, HeadLeaves
  <2>2. CASE pc[p] = "enter"
    <3>1. UNCHANGED queue
      BY <1>1, <2>2 DEF Dequeue
    <3> QED BY <1>1, <2>2, <3>1, NotWaiting
  <2> QED BY <1>1, <2>1, <2>2
<1>3. NoLeak'
  <2> SUFFICES ASSUME NEW e \in Employees, elock'[e] # None
               PROVE  pc'[elock'[e]] \in Held /\ EmpOf[req'[elock'[e]]] = e
    BY DEF NoLeak
  <2>1. CASE elock'[e] = elock[e]
    BY <1>1, <2>1, HolderStays DEF Held
  <2>2. CASE elock'[e] # elock[e]
    <3>1. /\ elock' = [elock EXCEPT ![EmpOf[req[p]]] = p]
          /\ \E l \in Held : Goto(p, l)
      BY <2>2 DEF GoesIn, GoesThrough, Acquire, PassThrough
    <3>2. e = EmpOf[req[p]] /\ elock'[e] = p
      BY <2>2, <3>1 DEF TypeOK
    <3> QED BY <1>1, <3>1, <3>2, GotoAt
  <2> QED BY <2>1, <2>2
<1> QED BY <1>2, <1>3 DEF WaitInv

\* A step inside the critical section, or out of it, wakes nobody by itself.
LEMMA InsideKeeps ==
  ASSUME TypeOK, Located, LockInv, WaitInv, NEW p \in Procs, StaysIn(p) \/ GoesOut(p)
  PROVE  WaitInv'
<1>1. /\ pc[p] \in Held /\ UNCHANGED <<req, queue>>
      /\ pc[p] # "lock" /\ pc'[p] # "lock"
      /\ \A q \in Procs \ {p} : pc'[q] = pc[q]
  BY GotoAt DEF StaysIn, GoesOut, Release, Held
<1>2. Queues'
  BY <1>1, NotWaiting
<1>3. NoLeak'
  <2> SUFFICES ASSUME NEW e \in Employees, elock'[e] # None
               PROVE  pc'[elock'[e]] \in Held /\ EmpOf[req'[elock'[e]]] = e
    BY DEF NoLeak
  <2>1. CASE StaysIn(p)
    <3>1. /\ elock'[e] = elock[e] /\ elock[e] \in Procs
          /\ pc[elock[e]] \in Held /\ EmpOf[req[elock[e]]] = e
      BY <2>1 DEF StaysIn, WaitInv, NoLeak, TypeOK
    <3>2. pc'[p] \in Held
      BY <2>1, GotoAt DEF StaysIn
    <3> QED BY <1>1, <3>1, <3>2
  <2>2. CASE GoesOut(p)
    <3>1. elock' = [elock EXCEPT ![EmpOf[req[p]]] = None]
      BY <2>2 DEF GoesOut, Release
    <3>2. e # EmpOf[req[p]] /\ elock'[e] = elock[e]
      BY <3>1 DEF TypeOK
    <3> QED BY <1>1, <3>2, HolderStays
  <2> QED BY <2>1, <2>2
<1> QED BY <1>2, <1>3 DEF WaitInv

\* Nobody waits at the start.
LEMMA WaitInit == Init => WaitInv
  BY DEF Init, WaitInv, NoLeak, Queues, QueueOf, Waits

\* No step loses a waiter or a lock.
LEMMA WaitStep ==
  TypeOK /\ Located /\ LockInv /\ WaitInv /\ [Next]_vars => WaitInv'
<1> SUFFICES ASSUME TypeOK, Located, LockInv, WaitInv, [Next]_vars PROVE WaitInv'
  OBVIOUS
<1>1. CASE \E p \in Procs : \/ Arrives(p) \/ GoesIn(p) \/ GoesThrough(p)
                            \/ StaysIn(p) \/ GoesOut(p)
  BY <1>1, ArrivalKeeps, GoesInKeeps, InsideKeeps
<1>2. CASE GoesRound
  <2>1. /\ Worker \in Procs /\ pc[Worker] \notin Held \cup {"lock"}
        /\ pc'[Worker] # "lock" /\ UNCHANGED <<req, elock, queue>>
        /\ \A q \in Procs \ {Worker} : pc'[q] = pc[q]
    BY <1>2, GotoAt DEF GoesRound, Procs, Held
  <2>2. Queues'
    BY <2>1, NotWaiting
  <2>3. NoLeak'
    BY <2>1, HolderStays DEF NoLeak
  <2> QED BY <2>2, <2>3 DEF WaitInv
<1>3. CASE Crash
  <2>1. /\ \A e \in Employees : elock'[e] = None /\ queue'[e] = <<>>
        /\ \A p \in Procs : pc'[p] # "lock"
    BY <1>3 DEF Crash
  <2> QED BY <2>1 DEF WaitInv, NoLeak, Queues, QueueOf, Waits
<1>4. CASE UNCHANGED <<pc, req, elock, queue>>
  BY <1>4 DEF WaitInv, NoLeak, Queues, QueueOf, Waits
<1> QED BY <1>1, <1>2, <1>3, <1>4, LockMoves

\* asyncio.Lock as engine.py uses it: who waits for an employee lock is in its queue
\* once, and the lock is held by somebody else, inside the critical section and
\* waiting for no lock, or it is free for the first in the queue. So no lock stays
\* taken by a coroutine that ended, and coroutines never wait in a circle.
THEOREM WaitersAreServed == Spec => []WaitersServed
<1>1. Init => TypeOK /\ Located /\ LockInv /\ WaitInv
  BY TypeInit, CoroutineInit, WaitInit
<1>2. TypeOK /\ Located /\ LockInv /\ WaitInv /\ [Next]_vars
      => (TypeOK /\ Located /\ LockInv /\ WaitInv)'
  BY TypeStep, CoroutineStep, WaitStep
<1>3. ASSUME TypeOK, Located, WaitInv PROVE WaitersServed
  <2> SUFFICES ASSUME NEW p \in Procs, pc[p] = "lock"
               PROVE  LET e == EmpOf[req[p]] IN
                      /\ \E i \in 1..Len(queue[e]) :
                           {j \in 1..Len(queue[e]) : queue[e][j] = p} = {i}
                      /\ \/ /\ elock[e] \in Procs \ {p}
                            /\ pc[elock[e]] \in Held /\ EmpOf[req[elock[e]]] = e
                         \/ elock[e] = None /\ Waits(e, Head(queue[e]))
    BY DEF WaitersServed
  <2> DEFINE e == EmpOf[req[p]]
             s == queue[e]
  <2>1. e \in Employees /\ Waits(e, p)
    BY <1>3, ConstantsTyped DEF Located, LocatedAt, Waits
  <2> HIDE DEF e
  <2>2. QueueOf(e) /\ s \in Seq(Procs)
    BY <1>3, <2>1 DEF WaitInv, Queues, TypeOK
  <2>3. PICK i \in 1..Len(s) : s[i] = p
    BY <2>1, <2>2 DEF QueueOf
  <2>4. {j \in 1..Len(s) : s[j] = p} = {i}
    BY <2>2, <2>3 DEF QueueOf
  <2>5. Waits(e, Head(s))
    <3>1. Head(s) = s[1] /\ 1 \in 1..Len(s)
      BY <2>2, <2>3
    <3> QED BY <2>2, <3>1 DEF QueueOf
  <2>6. \/ elock[e] = None
        \/ /\ elock[e] \in Procs \ {p}
           /\ pc[elock[e]] \in Held /\ EmpOf[req[elock[e]]] = e
    BY <1>3, <2>1 DEF WaitInv, NoLeak, TypeOK, Held
  <2> QED BY <2>3, <2>4, <2>5, <2>6 DEF e
<1> QED BY <1>1, <1>2, <1>3, PTL DEF Spec

-----------------------------------------------------------------------------

\* Nothing runs between a crash and the restart.
DownInv == phase = "down" => \A p \in Procs : pc[p] \in {"new", "ended", "rest"}

\* No coroutine survives a crash, and none runs before the restart.
LEMMA DownStep == TypeOK /\ DownInv /\ [Next]_vars => DownInv'
<1> SUFFICES ASSUME TypeOK, DownInv, [Next]_vars, phase' = "down"
             PROVE  \A p \in Procs : pc'[p] \in {"new", "ended", "rest"}
  BY DEF DownInv
<1> USE DEF stepvars, reqvars, compvars, extvars, procvars, lockvars, runvars
<1>1. CASE Crash
  BY <1>1 DEF Crash
<1>2. CASE phase # "down" /\ ~Crash
  <2>1. UNCHANGED phase \/ phase' = "serving" \/ phase' = "recovering"
    <3>1. ASSUME NEW p \in Procs, LoopStep(p) PROVE UNCHANGED phase
      BY <3>1 DEF LoopStep, LockedSubmit, LockedRetry, LockedCancel, LockedVerify,
         LockedRun, LockedDue, MarkCancelled, ClaimNext, Admit, StartCompensation,
         CompensateNext, CompensationDone, VerifyNext, Result
    <3>2. ASSUME NEW p \in Procs, Answer(p) \/ Land(p) PROVE UNCHANGED phase
      BY <3>2 DEF Answer, ReturnOk, ReturnFailed, CompensationReturn, VerifyReturn,
         CallbackDone, Land
    <3>3. CASE WorkerStep \/ Restart \/ UNCHANGED vars
      BY <3>3 DEF WorkerStep, WorkerWakes, WorkerDue, WorkerRests, WorkerTakes,
         WorkerTakesDue, Restart, vars
    <3>4. CASE \/ \E p \in Calls : Start(p)
               \/ \E r \in Requests : ReadResult(r)
               \/ \E s \in Steps : Elapse(s) \/ ElapseCompensation(s)
      BY <3>4 DEF Start, StartSubmit, StartAction, ReadResult, Elapse,
         ElapseCompensation
    <3> QED BY <1>2, <3>1, <3>2, <3>3, <3>4 DEF Next
  <2> QED BY <1>2, <2>1
<1>3. CASE phase = "down" /\ ~Crash
  <2>1. \A p \in Procs : pc[p] \in {"new", "ended", "rest"}
    BY <1>3 DEF DownInv
  <2>2. ASSUME NEW p \in Procs, LoopStep(p) PROVE FALSE
    BY <2>1, <2>2 DEF LoopStep, LockedSubmit, LockedRetry, LockedCancel,
       LockedVerify, LockedRun, LockedDue, MyTurn, MarkCancelled, ClaimNext, Admit,
       StartCompensation, CompensateNext, CompensationDone, VerifyNext, Result
  <2>3. ASSUME NEW p \in Procs, Answer(p) \/ Land(p) PROVE FALSE
    BY <2>1, <2>3 DEF Answer, ReturnOk, ReturnFailed, CompensationReturn,
       VerifyReturn, CallbackDone, Land
  <2>4. ASSUME WorkerStep PROVE FALSE
    BY <1>3, <2>1, <2>4 DEF WorkerStep, WorkerWakes, WorkerDue, WorkerRests,
       WorkerTakes, WorkerTakesDue, Procs
  <2>5. ASSUME NEW p \in Calls, Start(p) PROVE FALSE
    BY <1>3, <2>5 DEF Start, StartSubmit, StartAction
  <2>6. CASE \/ \E r \in Requests : ReadResult(r)
             \/ \E s \in Steps : Elapse(s) \/ ElapseCompensation(s)
             \/ Restart \/ UNCHANGED vars
    BY <2>1, <2>6 DEF ReadResult, Elapse, ElapseCompensation, Restart, vars
  <2> QED BY <1>3, <2>2, <2>3, <2>4, <2>5, <2>6 DEF Next
<1> QED BY <1>1, <1>2, <1>3

\* Touching rows of other employees leaves the order of e's rows alone.
LEMMA TouchFrame ==
  ASSUME NEW e, NEW S \in SUBSET Steps, \A s \in S : Emp(s) # e, Touch(S)
  PROVE  \A s, u \in Steps : Emp(s) = e /\ Emp(u) = e
                             => (<<s, u>> \in newer' <=> <<s, u>> \in newer)
  BY DEF Touch

\* Two coroutines inside, or entering, critical sections have different employees.
LEMMA OtherEmployee ==
  ASSUME LockInv, NEW p \in Procs, NEW q \in Procs, p # q, pc[p] \in Held,
         pc[q] \in Held \/ MyTurn(q)
  PROVE  EmpOf[req[q]] # EmpOf[req[p]]
<1>1. elock[EmpOf[req[p]]] = p
  BY DEF LockInv, LockAt
<1>2. CASE pc[q] \in Held
  BY <1>1, <1>2 DEF LockInv, LockAt
<1>3. CASE MyTurn(q)
  <2>1. elock[EmpOf[req[q]]] = None
    BY <1>3 DEF MyTurn, LockInv, LockAt
  <2> QED BY <1>1, <2>1, ProcessNames DEF Procs
<1> QED BY <1>2, <1>3

\* A step of anyone leaves the rows of an employee alone while another coroutine
\* has an adapter call for that employee in flight.
LEMMA FrozenStep ==
  ASSUME TypeOK, Located, LockInv, DownInv, [Next]_vars,
         NEW p \in Procs, pc[p] \in AdapterCalls, pc'[p] = pc[p]
  PROVE  EmployeeFrozen(EmpOf[req[p]])
<1> DEFINE e == EmpOf[req[p]]
<1> USE DEF stepvars, reqvars, compvars, extvars, procvars, lockvars, runvars
<1>p. pc[p] \in Held
  BY DEF AdapterCalls, Held
<1>1. CASE UNCHANGED <<st, att, newer, ver>>
  BY <1>1 DEF EmployeeFrozen
<1>2. ASSUME NEW q \in Procs, LockedSubmit(q) PROVE EmployeeFrozen(e)
  <2>1. q # p /\ e # EmpOf[req[q]]
    BY <1>p, <1>2, OtherEmployee DEF LockedSubmit, MyTurn, Held
  <2>2. CASE UNCHANGED stepvars
    BY <1>1, <1>2, <2>2 DEF LockedSubmit
  <2>3. CASE BeginExecution(req[q])
    <3>1. \A s, u \in Steps : Emp(s) = e /\ Emp(u) = e
                             => (<<s, u>> \in newer' <=> <<s, u>> \in newer)
      BY <2>1, <2>3, TouchFrame DEF BeginExecution, Rows, Emp
    <3> QED BY <1>2, <2>1, <2>3, <3>1
            DEF LockedSubmit, BeginExecution, EmployeeFrozen, Emp
  <2> QED BY <1>2, <2>2, <2>3 DEF LockedSubmit
<1>3. ASSUME NEW q \in Procs, LockedRetry(q) PROVE EmployeeFrozen(e)
  <2>1. q # p /\ e # EmpOf[req[q]]
    BY <1>p, <1>3, OtherEmployee DEF LockedRetry, MyTurn, Held
  <2>2. CASE UNCHANGED <<st, waiting, dead, newer>>
    BY <1>1, <1>3, <2>2 DEF LockedRetry
  <2>3. ASSUME NEW s \in Steps, First(s, Retryable(req[q])), ScheduleStepRetry(s)
        PROVE  EmployeeFrozen(e)
    <3>1. Emp(s) # e
      BY <2>1, <2>3 DEF First, Retryable, Rows, Emp
    <3>2. \A x, u \in Steps : Emp(x) = e /\ Emp(u) = e
                             => (<<x, u>> \in newer' <=> <<x, u>> \in newer)
      BY <2>3, <3>1, TouchFrame DEF ScheduleStepRetry
    <3> QED BY <1>3, <2>3, <3>1, <3>2
            DEF LockedRetry, ScheduleStepRetry, EmployeeFrozen, TypeOK
  <2> QED BY <1>3, <2>2, <2>3 DEF LockedRetry
<1>4. ASSUME NEW q \in Procs, LockedCancel(q) PROVE EmployeeFrozen(e)
  <2> DEFINE open == {s \in Rows(req[q]) : st[s] \in {"pending", "retry_wait"}}
  <2>1. q # p /\ e # EmpOf[req[q]]
    BY <1>p, <1>4, OtherEmployee DEF LockedCancel, MyTurn, Held
  <2>2. open \in SUBSET Steps /\ (\A s \in open : Emp(s) # e) /\ Touch(open)
    BY <1>4, <2>1 DEF LockedCancel, CancelPending, Rows, Emp
  <2>3. \A s, u \in Steps : Emp(s) = e /\ Emp(u) = e
                             => (<<s, u>> \in newer' <=> <<s, u>> \in newer)
    BY <2>2, TouchFrame
  <2> QED BY <1>4, <2>2, <2>3 DEF LockedCancel, CancelPending, EmployeeFrozen
<1>5. ASSUME NEW q \in Procs, ClaimNext(q) PROVE EmployeeFrozen(e)
  <2>1. q # p /\ e # EmpOf[req[q]]
    BY <1>p, <1>5, OtherEmployee DEF ClaimNext, Held, AdapterCalls
  <2>2. CASE UNCHANGED stepvars
    BY <1>1, <1>5, <2>2 DEF ClaimNext
  <2>3. ASSUME NEW s \in Steps, First(s, Claimable(req[q])), ClaimStep(s)
        PROVE  EmployeeFrozen(e)
    <3>1. Emp(s) # e
      BY <2>1, <2>3 DEF First, Claimable, Rows, Emp
    <3>2. \A x, u \in Steps : Emp(x) = e /\ Emp(u) = e
                             => (<<x, u>> \in newer' <=> <<x, u>> \in newer)
      BY <2>3, <3>1, TouchFrame DEF ClaimStep
    <3> QED BY <1>5, <2>3, <3>1, <3>2 DEF ClaimNext, ClaimStep, EmployeeFrozen, TypeOK
  <2> QED BY <1>5, <2>2, <2>3 DEF ClaimNext
<1>6. ASSUME NEW q \in Procs, q # p, pc[q] \in {"claimed", "call"},
             Touch({cur[q]}), UNCHANGED ver,
             \A s \in Steps \ {cur[q]} : st'[s] = st[s] /\ att'[s] = att[s]
      PROVE  EmployeeFrozen(e)
  <2>1. cur[q] \in Steps /\ Emp(cur[q]) # e
    BY <1>p, <1>6, OtherEmployee DEF Held, Located, LocatedAt, Emp
  <2>2. \A x, u \in Steps : Emp(x) = e /\ Emp(u) = e
                             => (<<x, u>> \in newer' <=> <<x, u>> \in newer)
    BY <1>6, <2>1, TouchFrame
  <2> QED BY <1>6, <2>1, <2>2 DEF EmployeeFrozen
<1>7. ASSUME NEW q \in Procs, Admit(q) PROVE EmployeeFrozen(e)
  <2>1. q # p
    BY <1>7 DEF Admit, AdapterCalls
  <2>2. CASE UNCHANGED stepvars
    BY <1>1, <1>7, <2>2 DEF Admit
  <2>3. CASE ReleaseActivationClaim(cur[q])
    BY <1>6, <1>7, <2>1, <2>3 DEF Admit, ReleaseActivationClaim, TypeOK
  <2> QED BY <1>7, <2>2, <2>3 DEF Admit
<1>8. ASSUME NEW q \in Procs, ReturnOk(q) PROVE EmployeeFrozen(e)
  <2>1. q # p
    BY <1>8, GotoAt DEF ReturnOk
  <2> QED BY <1>6, <1>8, <2>1 DEF ReturnOk, TypeOK
<1>9. ASSUME NEW q \in Procs, NEW b \in BOOLEAN, ReturnFailed(q, b)
      PROVE  EmployeeFrozen(e)
  <2>1. q # p
    BY <1>9, GotoAt DEF ReturnFailed
  <2> QED BY <1>6, <1>9, <2>1 DEF ReturnFailed, FailStep, TypeOK
<1>10. ASSUME NEW q \in Procs, VerifyReturn(q) PROVE EmployeeFrozen(e)
  <2>1. q # p
    BY <1>10, GotoAt DEF VerifyReturn
  <2>2. Emp(cur[q]) # e
    BY <1>p, <1>10, <2>1, OtherEmployee DEF VerifyReturn, Held, Located, LocatedAt, Emp
  <2>3. ver'[e] = ver[e]
    <3>1. CASE RecordVerification(cur[q])
      BY <2>2, <3>1 DEF RecordVerification, TypeOK
    <3>2. CASE UNCHANGED ver
      BY <3>2
    <3> QED BY <1>10, <3>1, <3>2 DEF VerifyReturn
  <2> QED BY <1>10, <2>3 DEF VerifyReturn, EmployeeFrozen
<1>11. CASE Restart
  BY <1>11 DEF Restart, DownInv, AdapterCalls
<1>12. ASSUME NEW q \in Procs,
              \/ LockedVerify(q) \/ LockedRun(q) \/ LockedDue(q) \/ MarkCancelled(q)
              \/ StartCompensation(q) \/ CompensateNext(q) \/ CompensationDone(q)
              \/ VerifyNext(q) \/ Result(q) \/ CallbackDone(q) \/ Land(q)
              \/ CompensationReturn(q, TRUE) \/ CompensationReturn(q, FALSE)
       PROVE  UNCHANGED <<st, att, newer, ver>>
  BY <1>12 DEF LockedVerify, LockedRun, LockedDue, MarkCancelled, StartCompensation,
     CompensateNext, CompensationDone, VerifyNext, Result, CallbackDone, Land,
     CompensationReturn
<1>13. CASE \/ \E q \in Calls : Start(q)
            \/ WorkerStep \/ Crash \/ UNCHANGED vars
            \/ \E r \in Requests : ReadResult(r)
            \/ \E s \in Steps : Elapse(s) \/ ElapseCompensation(s)
  <2>1. UNCHANGED <<st, att, newer, ver>>
    BY <1>13 DEF Start, StartSubmit, StartAction, WorkerStep, WorkerWakes,
       WorkerDue, WorkerRests, WorkerTakes, WorkerTakesDue, Crash, ReadResult,
       Elapse, ElapseCompensation, vars
  <2> QED BY <1>1, <2>1
<1> QED
  BY <1>1, <1>2, <1>3, <1>4, <1>5, <1>7, <1>8, <1>9, <1>10, <1>11, <1>12, <1>13
  DEF Next, LoopStep, Answer

\* The conjunction the safety theorems rest on.
Inv == TypeOK /\ Located /\ LockInv /\ DownInv

\* The inductive invariant holds in every reachable state of the engine: types,
\* what each coroutine knows, the employee locks, and a process that is down.
THEOREM Invariance == Spec => []Inv
<1>1. Init => Inv
  BY TypeInit, CoroutineInit DEF Inv, DownInv, Init
<1>2. Inv /\ [Next]_vars => Inv'
  BY TypeStep, CoroutineStep, DownStep DEF Inv
<1> QED BY <1>1, <1>2, PTL DEF Spec

\* While an adapter call of an employee is in flight, no other coroutine, crash
\* or restart changes the rows the engine read for that employee before it.
THEOREM RowsFrozenInFlight == Spec => FrozenInFlight
<1>1. Inv /\ [Next]_vars
      => [\A p \in Procs : pc[p] \in AdapterCalls /\ pc'[p] = pc[p]
                           => EmployeeFrozen(EmpOf[req[p]])]_vars
  BY FrozenStep DEF Inv
<1> QED BY <1>1, Invariance, PTL DEF Spec, FrozenInFlight

\* activation_blockers depends on nothing but the rows of its employee.
LEMMA BlockedFrame ==
  ASSUME NEW e, EmployeeFrozen(e), NEW Y
  PROVE  Blocked(e, Y)' = Blocked(e, Y)
<1>1. ASSUME NEW y PROVE Candidates(e, y)' = Candidates(e, y)
  BY DEF Candidates, EmployeeFrozen, Emp
<1>2. ASSUME NEW y PROVE CreatedDisabled(e, y)' = CreatedDisabled(e, y)
  BY DEF CreatedDisabled, EmployeeFrozen, Emp
<1>3. ASSUME NEW y PROVE Latest(Candidates(e, y))' = Latest(Candidates(e, y))
  <2>1. \A s \in Candidates(e, y) : s \in Steps /\ Emp(s) = e
    BY DEF Candidates
  <2> QED BY <1>1, <2>1 DEF Latest, EmployeeFrozen
<1>4. ASSUME NEW y PROVE Evidenced(e, y)' = Evidenced(e, y)
  <2>1. \A s \in Latest(Candidates(e, y)) : s \in Steps /\ Emp(s) = e
    BY DEF Candidates, Latest
  <2> QED BY <1>1, <1>2, <1>3, <2>1 DEF Evidenced, EmployeeFrozen
<1> QED BY <1>1, <1>4 DEF Blocked

\* Only Admit moves a coroutine to the adapter call of a step, and only
\* CompensateNext to the call of a compensation.
LEMMA WhoCalls ==
  ASSUME TypeOK, [Next]_vars, NEW p \in Procs,
         pc'[p] \in {"call", "compcall"}, pc'[p] # pc[p]
  PROVE  \/ Admit(p) /\ pc'[p] = "call"
         \/ CompensateNext(p) /\ pc'[p] = "compcall"
<1> USE DEF stepvars, reqvars, compvars, extvars, procvars, lockvars, runvars
<1>1. ASSUME NEW q \in Procs, NEW l, Goto(q, l), l \notin {"call", "compcall"}
      PROVE  FALSE
  BY <1>1, GotoAt
<1>2. ASSUME NEW q \in Procs, NEW e, Enter(q, e) PROVE FALSE
  BY <1>2, EnterAt
<1>3. ASSUME NEW q \in Calls, Start(q) PROVE FALSE
  BY <1>2, <1>3 DEF Start, StartSubmit, StartAction, Procs
<1>4. ASSUME NEW q \in Procs, \/ LockedSubmit(q) \/ LockedRetry(q) \/ LockedCancel(q)
                              \/ LockedVerify(q) \/ LockedRun(q) \/ LockedDue(q)
      PROVE  FALSE
  BY <1>1, <1>4 DEF LockedSubmit, LockedRetry, LockedCancel, LockedVerify, LockedRun,
     LockedDue, PassThrough
<1>5. ASSUME NEW q \in Procs, \/ MarkCancelled(q) \/ ClaimNext(q)
                              \/ StartCompensation(q) \/ CompensationDone(q)
                              \/ VerifyNext(q) \/ Result(q)
      PROVE  FALSE
  BY <1>1, <1>5 DEF MarkCancelled, ClaimNext, StartCompensation, CompensationDone,
     VerifyNext, Result
<1>6. ASSUME NEW q \in Procs, CompensateNext(q)
      PROVE  CompensateNext(p) /\ pc'[p] = "compcall"
  <2>1. UNCHANGED pc \/ Goto(q, "compcall")
    BY <1>6 DEF CompensateNext
  <2>2. q = p
    BY <2>1, GotoAt
  <2> QED BY <1>6, <2>1, <2>2, GotoAt
<1>7. ASSUME NEW q \in Procs, Answer(q) PROVE FALSE
  BY <1>1, <1>7 DEF Answer, ReturnOk, ReturnFailed, CompensationReturn, VerifyReturn,
     CallbackDone
<1>8. ASSUME WorkerStep PROVE FALSE
  BY <1>1, <1>2, <1>8 DEF WorkerStep, WorkerWakes, WorkerDue, WorkerRests,
     WorkerTakes, WorkerTakesDue, Procs
<1>9. ASSUME NEW q \in Procs, Land(q) PROVE FALSE
  BY <1>9 DEF Land
<1>10. ASSUME Crash PROVE FALSE
  BY <1>10 DEF Crash
<1>11. ASSUME \/ \E r \in Requests : ReadResult(r)
              \/ \E s \in Steps : Elapse(s) \/ ElapseCompensation(s)
              \/ Restart \/ UNCHANGED vars
       PROVE  FALSE
  BY <1>11 DEF ReadResult, Elapse, ElapseCompensation, Restart, vars
<1>12. ASSUME NEW q \in Procs, Admit(q)
       PROVE  Admit(p) /\ pc'[p] = "call"
  <2>1. Goto(q, "call") \/ Goto(q, "result")
    BY <1>12 DEF Admit
  <2>2. q = p
    BY <2>1, GotoAt
  <2> QED BY <1>1, <1>12, <2>1, <2>2, GotoAt
<1> QED
  BY <1>3, <1>4, <1>5, <1>6, <1>7, <1>8, <1>9, <1>10, <1>11, <1>12 DEF Next, LoopStep

\* A coroutine in an adapter call keeps its request and its step.
LEMMA StillCalling ==
  ASSUME TypeOK, [Next]_vars, NEW p \in Procs,
         pc[p] \in {"call", "compcall"}, pc'[p] = pc[p]
  PROVE  req'[p] = req[p] /\ cur'[p] = cur[p]
<1> USE DEF stepvars, reqvars, compvars, extvars, procvars, lockvars, runvars
<1>1. ASSUME NEW q \in Calls, Start(q) PROVE req'[p] = req[p] /\ cur'[p] = cur[p]
  BY <1>1 DEF Start, StartSubmit, StartAction, TypeOK
<1>2. ASSUME NEW q \in Procs, \/ LockedSubmit(q) \/ LockedRetry(q) \/ LockedCancel(q)
                              \/ LockedVerify(q) \/ LockedRun(q) \/ LockedDue(q)
                              \/ MarkCancelled(q) \/ Admit(q)
                              \/ StartCompensation(q) \/ CompensationDone(q)
                              \/ Result(q) \/ Answer(q) \/ Land(q)
      PROVE  UNCHANGED <<req, cur>>
  BY <1>2 DEF LockedSubmit, LockedRetry, LockedCancel, LockedVerify, LockedRun,
     LockedDue, MarkCancelled, Admit, StartCompensation, CompensationDone, Result,
     Answer, ReturnOk, ReturnFailed, CompensationReturn, VerifyReturn, CallbackDone,
     Land
<1>3. ASSUME NEW q \in Procs, ClaimNext(q) \/ VerifyNext(q)
      PROVE  req'[p] = req[p] /\ cur'[p] = cur[p]
  BY <1>3 DEF ClaimNext, VerifyNext, TypeOK
<1>4. ASSUME NEW q \in Procs, CompensateNext(q)
      PROVE  req'[p] = req[p] /\ cur'[p] = cur[p]
  <2> PICK s \in Steps : /\ pc[q] = "comp" /\ UNCHANGED req
                         /\ UNCHANGED cur \/ cur' = [cur EXCEPT ![q] = s]
    BY <1>4 DEF CompensateNext
  <2> QED BY DEF TypeOK
<1>5. CASE WorkerStep
  BY <1>5 DEF WorkerStep, WorkerWakes, WorkerDue, WorkerRests, WorkerTakes,
     WorkerTakesDue, TypeOK
<1>6. CASE Crash
  BY <1>6 DEF Crash
<1>7. CASE \/ \E r \in Requests : ReadResult(r)
           \/ \E s \in Steps : Elapse(s) \/ ElapseCompensation(s)
           \/ Restart \/ UNCHANGED vars
  BY <1>7 DEF ReadResult, Elapse, ElapseCompensation, Restart, vars
<1> QED BY <1>1, <1>2, <1>3, <1>4, <1>5, <1>6, <1>7 DEF Next, LoopStep

\* Nothing the engine, a crash or a restart does invalidates the check behind an
\* activate or reactivate call in flight.
LEMMA ActivationStep ==
  ASSUME Inv, ActivationSafe, [Next]_vars
  PROVE  ActivationSafe'
<1> SUFFICES ASSUME NEW p \in Procs,
                    (pc[p] = "call" /\ OpOf[cur[p]] \in AccessEnabling)'
             PROVE  (~Blocked(EmpOf[req[p]], {SysOf[cur[p]]}))'
  BY DEF ActivationSafe
<1> USE DEF Inv
<1>1. CASE pc[p] = "call"
  <2>1. req'[p] = req[p] /\ cur'[p] = cur[p]
    BY <1>1, StillCalling
  <2>2. ~Blocked(EmpOf[req[p]], {SysOf[cur[p]]})
    BY <1>1, <2>1 DEF ActivationSafe
  <2>3. EmployeeFrozen(EmpOf[req[p]])
    BY <1>1, FrozenStep DEF AdapterCalls
  <2> DEFINE e == EmpOf[req[p]]
             Y == {SysOf[cur[p]]}
  <2>4. \A f, Z : f = e /\ Z = Y => (Blocked(f, Z)' = Blocked(f, Z))
    BY <2>3, BlockedFrame
  <2> QED BY <2>1, <2>2, <2>4
<1>2. CASE pc[p] # "call"
  <2>1. Admit(p)
    BY <1>2, WhoCalls
  <2>2. /\ pc[p] = "claimed" /\ ~MustWait(cur[p])
        /\ UNCHANGED <<stepvars, ver, req, cur>>
    BY <2>1, GotoAt DEF Admit
  <2> DEFINE e == EmpOf[req[p]]
             Y == {SysOf[cur[p]]}
  <2>3. ~Blocked(e, Y)
    BY <2>2 DEF MustWait, Located, LocatedAt, Emp
  <2>4. EmployeeFrozen(e)
    BY <2>2 DEF EmployeeFrozen, stepvars
  <2>5. \A f, Z : f = e /\ Z = Y => (Blocked(f, Z)' = Blocked(f, Z))
    BY <2>4, BlockedFrame
  <2> QED BY <2>2, <2>3, <2>5
<1> QED BY <1>1, <1>2

\* No activate or reactivate call is ever in flight for an employee whose
\* mandatory verification is missing or stale (engine._run_request with
\* repository.activation_blockers), for any number of concurrent calls, retries,
\* crashes and restarts.
THEOREM ActivationIsSafe == Spec => []ActivationSafe
<1>1. Init => ActivationSafe
  BY DEF Init, ActivationSafe
<1>2. Inv /\ ActivationSafe /\ [Next]_vars => ActivationSafe'
  BY ActivationStep
<1> QED BY <1>1, <1>2, Invariance, PTL DEF Spec

\* Superseded depends on nothing but the rows of its employee.
LEMMA SupersededFrame ==
  ASSUME NEW e, EmployeeFrozen(e), NEW s \in Steps, Emp(s) = e
  PROVE  Superseded(s)' = Superseded(s)
<1>1. ASSUME NEW u \in Steps, Emp(u) = Emp(s)
      PROVE  st'[u] = st[u] /\ (<<u, s>> \in newer' <=> <<u, s>> \in newer)
  BY <1>1 DEF EmployeeFrozen
<1> QED BY <1>1 DEF Superseded, Emp

\* Nothing the engine, a crash or a restart does makes a later command the owner
\* of an account while the suspension that compensates an earlier one is awaited.
LEMMA CompensationStep ==
  ASSUME Inv, NoCompensationOfSuperseded, [Next]_vars
  PROVE  NoCompensationOfSuperseded'
<1> SUFFICES ASSUME NEW p \in Procs, (pc[p] = "compcall")'
             PROVE  (~Superseded(cur[p]))'
  BY DEF NoCompensationOfSuperseded
<1> USE DEF Inv
<1>1. CASE pc[p] = "compcall"
  <2>1. cur'[p] = cur[p]
    BY <1>1, StillCalling
  <2>2. ~Superseded(cur[p])
    BY <1>1 DEF NoCompensationOfSuperseded
  <2>3. EmployeeFrozen(EmpOf[req[p]])
    BY <1>1, FrozenStep DEF AdapterCalls
  <2>4. cur[p] \in Steps /\ Emp(cur[p]) = EmpOf[req[p]]
    BY <1>1 DEF Located, LocatedAt, Emp
  <2>5. \A s \in Steps : s = cur[p] => (Superseded(s)' = Superseded(s))
    BY <2>3, <2>4, SupersededFrame
  <2> QED BY <2>1, <2>2, <2>4, <2>5
<1>2. CASE pc[p] # "compcall"
  <2>1. CompensateNext(p)
    BY <1>2, WhoCalls
  <2>2. PICK s \in Steps : /\ ~Superseded(s)
                           /\ cur' = [cur EXCEPT ![p] = s]
                           /\ UNCHANGED stepvars /\ UNCHANGED ver
    BY <1>2, <2>1 DEF CompensateNext, reqvars
  <2>3. cur'[p] = s
    BY <2>2 DEF TypeOK
  <2>4. EmployeeFrozen(Emp(s))
    BY <2>2 DEF EmployeeFrozen, stepvars
  <2>5. \A u \in Steps : u = s => (Superseded(u)' = Superseded(u))
    BY <2>4, SupersededFrame
  <2> QED BY <2>2, <2>3, <2>5
<1> QED BY <1>1, <1>2

\* A suspension is in flight as a compensation only while no other request has
\* done a later state change in the same system (engine._compensate with
\* repository.has_later_successful_employee_step), whatever is called, retried,
\* cancelled, lost or restarted meanwhile.
THEOREM CompensationIsCurrent == Spec => []NoCompensationOfSuperseded
<1>1. Init => NoCompensationOfSuperseded
  BY DEF Init, NoCompensationOfSuperseded
<1>2. Inv /\ NoCompensationOfSuperseded /\ [Next]_vars => NoCompensationOfSuperseded'
  BY CompensationStep
<1> QED BY <1>1, <1>2, Invariance, PTL DEF Spec

=============================================================================
