---------------------------- MODULE Provisioning ----------------------------
(***************************************************************************)
(* The provisioning engine (app/engine.py) over its durable state store    *)
(* (app/repository.py).                                                    *)
(*                                                                         *)
(* A request is a list of steps, each one operation on one target system.  *)
(* API calls (submit, retry, cancel, verify) and the background worker are *)
(* coroutines of ONE event loop: they interleave only where they await (an *)
(* adapter, a lock, a callback, a sleep).  Between two awaits the code is  *)
(* a sequence of committed database statements, each an action here, so    *)
(* that the process can crash between any two of them but no other         *)
(* coroutine can run (LoopFree).                                           *)
(*                                                                         *)
(* Operators named Slip... are not part of the model: each is the operator *)
(* after it with a plausible coding slip, used to see a property fail.     *)
(***************************************************************************)
EXTENDS Integers, Sequences

CONSTANTS
  Requests, Employees, Systems, Steps,  \* ids the callers use
  EmpOf,        \* the employee of a request
  ReqOf,        \* the request of a step
  SysOf, OpOf,  \* the target system and the operation of a step
  SeqOf,        \* the sequence number of a step in its request
  MaxAttempts,  \* steps.max_attempts
  Calls,        \* the API calls clients make, one process each (a bound)
  Worker,       \* the recovery/worker task
  None,         \* "no process", "no step"
  MaxCrashes    \* bound on process crashes

Operations == {"create_disabled", "update", "verify", "activate", "suspend",
               "reactivate", "terminate", "rotate_credentials", "reconcile"}

\* Step sequences are unique inside a request (contracts.consistent_steps) and
\* a request has at least one step.
ASSUME ConstantsTyped ==
  /\ EmpOf \in [Requests -> Employees]
  /\ ReqOf \in [Steps -> Requests]
  /\ SysOf \in [Steps -> Systems]
  /\ OpOf \in [Steps -> Operations]
  /\ SeqOf \in [Steps -> Nat]
  /\ MaxAttempts \in [Steps -> Nat \ {0}]
  /\ MaxCrashes \in Nat

ASSUME StepsOfRequests ==
  /\ \A r \in Requests : \E s \in Steps : ReqOf[s] = r
  /\ \A s, u \in Steps : ReqOf[s] = ReqOf[u] /\ SeqOf[s] = SeqOf[u] => s = u

ASSUME ProcessNames == None \notin Calls \cup {Worker} /\ Worker \notin Calls

ASSUME NoStepIsNone == None \notin Steps

VARIABLES
  \* Tables of the SQLite database.
  st,         \* steps.state, "absent" before the row is inserted
  att,        \* steps.attempt_count
  newer,      \* <<s, u>>: steps.updated_at of s is later than that of u
  waiting,    \* steps whose next_retry_at lies in the future
  dead,       \* dead_letters: no row, resolved_at NULL ("open"), or resolved
  cancelled,  \* executions.cancelled_at IS NOT NULL
  cached,     \* the state inside executions.result_json, "none" for NULL
  ver,        \* verification_records.source_step_id of (employee, system)
  cstate,     \* compensation_actions.state of the row of a step
  catt,       \* compensation_actions.attempt_count
  cwait,      \* compensation rows whose next_retry_at lies in the future
  \* The target systems.
  acct,       \* the account of (employee, system) at the provider
  landed,     \* processes whose call in flight has taken effect there
  \* The process and its coroutines.
  pc, kind,   \* where a coroutine is, and which entry point it runs
  req,        \* the request it works on
  cur,        \* the step whose adapter call it makes
  todo,       \* commands its compensation or verification loop has left
  elock,      \* holder of the employee lock
  queue,      \* the FIFO of coroutines waiting for an employee lock
  batch,      \* the worker's snapshot of request ids, what is left of it
  phase,      \* "down", "recovering" (engine.recover) or "serving"
  crashes

stepvars == <<st, att, newer, waiting>>
reqvars  == <<dead, cancelled, cached, ver>>
compvars == <<cstate, catt, cwait>>
extvars  == <<acct, landed>>
procvars == <<pc, kind, req, cur, todo>>
lockvars == <<elock, queue>>
runvars  == <<batch, phase, crashes>>
vars == <<stepvars, reqvars, compvars, extvars, procvars, lockvars, runvars>>

Procs == Calls \cup {Worker}

StepStates == {"absent", "pending", "running", "retry_wait", "succeeded",
               "verified", "dead_letter", "compensated"}
Done    == {"succeeded", "verified"}
Settled == Done \cup {"compensated"}
ResultStates == {"completed", "dead_letter", "retry_wait", "running", "pending"}

AccessEnabling == {"activate", "reactivate"}
Provisions     == {"create_disabled", "update"}
Compensable    == {"create_disabled", "update", "activate"}
StateChanging  == {"create_disabled", "update", "activate", "suspend",
                   "reactivate", "terminate"}

\* Points the event loop runs through without awaiting.
Sync == {"enter", "claim", "claimed", "dead", "mark", "comp", "verify",
         "result", "scan", "due"}
\* Awaits inside `async with employee_lock`.
Held == {"claim", "claimed", "call", "dead", "mark", "comp", "compcall",
         "verify", "vcall", "result", "callback"}
Outside == {"new", "ended", "rest", "scan", "due", "enter", "lock"}
AdapterCalls == {"call", "compcall", "vcall"}

CompMax == 3  \* compensation_actions.max_attempts

TypeOK ==
  /\ st \in [Steps -> StepStates]
  /\ att \in [Steps -> Nat]
  /\ newer \in SUBSET (Steps \X Steps)
  /\ waiting \in SUBSET Steps
  /\ dead \in [Steps -> {"none", "open", "resolved"}]
  /\ cancelled \in [Requests -> BOOLEAN]
  /\ cached \in [Requests -> ResultStates \cup {"none"}]
  /\ ver \in [Employees -> [Systems -> Steps \cup {None}]]
  /\ cstate \in [Steps -> {"none", "failed", "succeeded", "superseded"}]
  /\ catt \in [Steps -> Nat]
  /\ cwait \in SUBSET Steps
  /\ acct \in [Employees -> [Systems -> {"none", "disabled", "enabled"}]]
  /\ landed \in SUBSET Procs
  /\ pc \in [Procs -> Held \cup Outside]
  /\ kind \in [Procs -> {"submit", "retry", "cancel", "verify", "run", "due"}]
  /\ req \in [Procs -> Requests \cup {None}]
  /\ cur \in [Procs -> Steps \cup {None}]
  /\ todo \in [Procs -> SUBSET Steps]
  /\ elock \in [Employees -> Procs \cup {None}]
  /\ queue \in [Employees -> Seq(Procs)]
  /\ batch \in SUBSET Requests
  /\ phase \in {"down", "recovering", "serving"}
  /\ crashes \in Nat

-----------------------------------------------------------------------------
(* The rows of the database and the queries of the repository. *)

Emp(s) == EmpOf[ReqOf[s]]
Rows(r) == {s \in Steps : ReqOf[s] = r}
Known(r) == \E s \in Rows(r) : st[s] # "absent"
SystemsOf(r) == {SysOf[s] : s \in Rows(r)}
Activating(r) == \A s \in Rows(r) : OpOf[s] \in AccessEnabling
Mixed(r) == ~Activating(r) /\ \E s \in Rows(r) : OpOf[s] \in AccessEnabling

\* updated_at = now for the rows S.
Touch(S) ==
  newer' = {x \in newer : x[1] \notin S /\ x[2] \notin S}
             \cup (S \X {u \in Steps \ S : st[u] # "absent"})

Latest(C) == {s \in C : \A u \in C : <<u, s>> \notin newer}

SlipResultOf(r) ==  \* any() where all() is meant
  LET states == {st[s] : s \in Rows(r)} IN
  IF states \cap Settled # {} THEN "completed"
  ELSE IF "dead_letter" \in states THEN "dead_letter"
  ELSE IF "retry_wait" \in states THEN "retry_wait"
  ELSE IF "running" \in states THEN "running"
  ELSE "pending"

\* request_result: the state of a request, derived from its step rows.
ResultOf(r) ==
  LET states == {st[s] : s \in Rows(r)} IN
  IF states \subseteq Settled THEN "completed"
  ELSE IF "dead_letter" \in states THEN "dead_letter"
  ELSE IF "retry_wait" \in states THEN "retry_wait"
  ELSE IF "running" \in states THEN "running"
  ELSE "pending"

\* request_result also stores what it returns in executions.result_json.
Refresh(r) == cached' = [cached EXCEPT ![r] = ResultOf(r)]

\* The rows activation_blockers considers for a system.
Candidates(e, y) ==
  {s \in Steps : /\ Emp(s) = e /\ SysOf[s] = y /\ OpOf[s] \in Provisions
                 /\ st[s] \notin {"absent", "compensated"}}

CreatedDisabled(e, y) ==
  \E s \in Steps : /\ Emp(s) = e /\ SysOf[s] = y
                   /\ OpOf[s] = "create_disabled" /\ st[s] \in Done

Evidenced(e, y) ==
  /\ Candidates(e, y) # {}
  /\ CreatedDisabled(e, y)
  /\ \A s \in Latest(Candidates(e, y)) : st[s] \in Done /\ ver[e][y] = s

\* activation_blockers(e, Y) is not empty.
Blocked(e, Y) ==
  \E y \in Systems : (Candidates(e, y) # {} \/ y \in Y) /\ ~Evidenced(e, y)

\* is_current_verification_candidate for the step's own employee and system.
CurrentCandidate(s) ==
  s \in Latest({u \in Steps : /\ Emp(u) = Emp(s) /\ SysOf[u] = SysOf[s]
                              /\ OpOf[u] \in Provisions /\ st[u] \in Done})

\* The successful step with the highest sequence per system, among Ops.
LastPerSystem(r, Ops) ==
  LET done == {s \in Rows(r) : st[s] \in Done /\ OpOf[s] \in Ops} IN
  {s \in done : \A u \in done : SysOf[u] = SysOf[s] => SeqOf[u] <= SeqOf[s]}

\* successful_commands and verification_commands.
CompensationTargets(r) == LastPerSystem(r, Compensable)
VerificationTargets(r) == LastPerSystem(r, Provisions)

\* compensation_superseded.
Superseded(s) ==
  \E u \in Steps : /\ Emp(u) = Emp(s) /\ ReqOf[u] # ReqOf[s]
                   /\ SysOf[u] = SysOf[s] /\ OpOf[u] \in StateChanging
                   /\ st[u] \in Done /\ <<u, s>> \in newer

SlipClaimable(r) ==  \* without the NOT EXISTS (prior ...) clause
  {s \in Rows(r) :
     /\ \A u \in Rows(r) : st[u] \in Settled \cup {"pending", "retry_wait"}
     /\ st[s] \in {"pending", "retry_wait"} /\ s \notin waiting}

\* What claim_next may claim: nothing while a row is running or dead-lettered.
Claimable(r) ==
  {s \in Rows(r) :
     /\ \A u \in Rows(r) : st[u] \in Settled \cup {"pending", "retry_wait"}
     /\ st[s] \in {"pending", "retry_wait"} /\ s \notin waiting
     /\ \A u \in Rows(r) : SeqOf[u] < SeqOf[s] => st[u] \in Settled}

SlipRetryable(r) ==  \* attempt_count <= max_attempts
  {s \in Rows(r) : /\ st[s] \in {"dead_letter", "retry_wait"}
                   /\ att[s] <= MaxAttempts[s]}

\* What schedule_step_retry may reschedule.
Retryable(r) ==
  {s \in Rows(r) : /\ st[s] \in {"dead_letter", "retry_wait"}
                   /\ att[s] < MaxAttempts[s]}

\* ORDER BY sequence LIMIT 1, and the head of ORDER BY sequence DESC.
First(s, C) == s \in C /\ \A u \in C : SeqOf[s] <= SeqOf[u]
Last(s, C)  == s \in C /\ \A u \in C : SeqOf[u] <= SeqOf[s]

SlipPendingRequests ==  \* forgets retry_wait
  {r \in Requests : \E s \in Rows(r) : st[s] = "pending"}

\* pending_request_ids and due_compensation_request_ids.
PendingRequests ==
  {r \in Requests : \E s \in Rows(r) :
                      st[s] \in {"pending", "retry_wait"} /\ s \notin waiting}

Owed(r) == cancelled[r] \/ \E s \in Rows(r) : st[s] = "dead_letter"

SlipDueRequests ==  \* gives up one attempt early
  {r \in Requests :
     /\ Owed(r)
     /\ \E s \in Rows(r) : /\ cstate[s] = "failed" /\ catt[s] < CompMax - 1
                           /\ s \notin cwait}

DueRequests ==
  {r \in Requests :
     /\ Owed(r)
     /\ \E s \in Rows(r) : /\ cstate[s] = "failed" /\ catt[s] < CompMax
                           /\ s \notin cwait}

-----------------------------------------------------------------------------
(* The event loop and the employee lock. *)

LoopFree(p) == \A q \in Procs \ {p} : pc[q] \notin Sync

Goto(p, l) == pc' = [pc EXCEPT ![p] = l]

\* `async with employee_lock`: acquired at once when nobody holds or awaits it.
Enter(p, e) ==
  IF elock[e] = None /\ queue[e] = <<>>
  THEN Goto(p, "enter") /\ UNCHANGED queue
  ELSE Goto(p, "lock") /\ queue' = [queue EXCEPT ![e] = Append(@, p)]

SlipMyTurn(p) ==  \* wakes the first waiter while the lock is held
  LET e == EmpOf[req[p]] IN
  \/ pc[p] = "enter"
  \/ /\ pc[p] = "lock" /\ LoopFree(p)
     /\ queue[e] # <<>> /\ Head(queue[e]) = p

\* p may enter the critical section of its employee.
MyTurn(p) ==
  LET e == EmpOf[req[p]] IN
  \/ pc[p] = "enter"
  \/ /\ pc[p] = "lock" /\ LoopFree(p)
     /\ elock[e] = None /\ queue[e] # <<>> /\ Head(queue[e]) = p

Dequeue(p) ==
  queue' = IF pc[p] = "lock"
           THEN [queue EXCEPT ![EmpOf[req[p]]] = Tail(@)] ELSE queue

\* Enter and stay inside; or enter and leave again within the same step.
Acquire(p) == Dequeue(p) /\ elock' = [elock EXCEPT ![EmpOf[req[p]]] = p]
PassThrough(p) == Dequeue(p) /\ Goto(p, "ended") /\ UNCHANGED elock

SlipRelease(p) == UNCHANGED lockvars  \* never gives the lock back

Release(p) ==
  elock' = [elock EXCEPT ![EmpOf[req[p]]] = None] /\ UNCHANGED queue

-----------------------------------------------------------------------------
(* API calls: what they do before they hold the employee lock. *)

\* engine.submit; an execution mixing activation with other steps is refused.
StartSubmit(p, r) ==
  /\ pc[p] = "new" /\ phase = "serving" /\ LoopFree(p)
  /\ ~Mixed(r)
  /\ kind' = [kind EXCEPT ![p] = "submit"]
  /\ req' = [req EXCEPT ![p] = r]
  /\ Enter(p, EmpOf[r])
  /\ UNCHANGED <<stepvars, reqvars, compvars, extvars, cur, todo, elock, runvars>>

\* engine.retry, engine.cancel and engine.verify read the current result first;
\* retry looks at cancelled_at HERE, before it waits for the lock.
StartAction(p, k, r) ==
  /\ pc[p] = "new" /\ phase = "serving" /\ LoopFree(p)
  /\ Known(r)
  /\ k = "retry" => ~cancelled[r]
  /\ Refresh(r)
  /\ kind' = [kind EXCEPT ![p] = k]
  /\ req' = [req EXCEPT ![p] = r]
  /\ Enter(p, EmpOf[r])
  /\ UNCHANGED <<stepvars, dead, cancelled, ver, compvars, extvars, cur, todo,
                 elock, runvars>>

\* GET of a request, and a refused retry: only result_json is rewritten.
ReadResult(r) ==
  /\ phase = "serving" /\ \A q \in Procs : pc[q] \notin Sync
  /\ Known(r) /\ cached[r] # ResultOf(r)
  /\ Refresh(r)
  /\ UNCHANGED <<stepvars, dead, cancelled, ver, compvars, extvars, procvars,
                 lockvars, runvars>>

-----------------------------------------------------------------------------
(* API calls: the first step inside the employee lock. *)

\* begin_execution inserts the execution and all its steps.
BeginExecution(r) ==
  /\ st' = [s \in Steps |-> IF ReqOf[s] = r THEN "pending" ELSE st[s]]
  /\ Touch(Rows(r))
  /\ UNCHANGED <<att, waiting>>

LockedSubmit(p) ==
  LET r == req[p] IN
  /\ MyTurn(p) /\ kind[p] = "submit"
  /\ \/ \* existing_execution: replay the stored result, or a fresh one
        /\ Known(r)
        /\ IF cached[r] = "none" THEN Refresh(r) ELSE UNCHANGED cached
        /\ PassThrough(p)
        /\ UNCHANGED stepvars
     \/ \* mandatory_verification_incomplete
        /\ ~Known(r) /\ Activating(r) /\ Blocked(EmpOf[r], SystemsOf(r))
        /\ PassThrough(p)
        /\ UNCHANGED <<stepvars, cached>>
     \/ /\ ~Known(r) /\ ~(Activating(r) /\ Blocked(EmpOf[r], SystemsOf(r)))
        /\ BeginExecution(r)
        /\ Acquire(p) /\ Goto(p, "claim")
        /\ UNCHANGED cached
  /\ UNCHANGED <<dead, cancelled, ver, compvars, extvars, kind, req, cur, todo,
                 runvars>>

\* schedule_step_retry: the first failed step becomes due at once and its
\* dead-letter row is resolved.
ScheduleStepRetry(s) ==
  /\ st' = [st EXCEPT ![s] = "retry_wait"]
  /\ waiting' = waiting \ {s}
  /\ dead' = [dead EXCEPT ![s] = IF @ = "none" THEN "none" ELSE "resolved"]
  /\ Touch({s})

LockedRetry(p) ==
  LET r == req[p] IN
  /\ MyTurn(p) /\ kind[p] = "retry"
  /\ Acquire(p)
  /\ \/ /\ \E s \in Steps : First(s, Retryable(r)) /\ ScheduleStepRetry(s)
        /\ Goto(p, "claim")
     \/ /\ Retryable(r) = {}
        /\ Goto(p, "result")
        /\ UNCHANGED <<st, waiting, dead, newer>>
  /\ UNCHANGED <<att, cancelled, cached, ver, compvars, extvars, kind, req, cur,
                 todo, runvars>>

SlipCancelPending(r) ==  \* drops the steps that ran, too
  LET open == {s \in Rows(r) : st[s] # "running"} IN
  /\ st' = [s \in Steps |-> IF s \in open THEN "compensated" ELSE st[s]]
  /\ waiting' = waiting \ open
  /\ Touch(open)

\* cancel_pending drops what has not run.
CancelPending(r) ==
  LET open == {s \in Rows(r) : st[s] \in {"pending", "retry_wait"}} IN
  /\ st' = [s \in Steps |-> IF s \in open THEN "compensated" ELSE st[s]]
  /\ waiting' = waiting \ open
  /\ Touch(open)

LockedCancel(p) ==
  /\ MyTurn(p) /\ kind[p] = "cancel"
  /\ Acquire(p)
  /\ CancelPending(req[p])
  /\ Goto(p, "mark")
  /\ UNCHANGED <<att, reqvars, compvars, extvars, kind, req, cur, todo, runvars>>

MarkCancelled(p) ==
  /\ pc[p] = "mark"
  /\ cancelled' = [cancelled EXCEPT ![req[p]] = TRUE]
  /\ todo' = [todo EXCEPT ![p] = CompensationTargets(req[p])]
  /\ Goto(p, "comp")
  /\ UNCHANGED <<stepvars, dead, cached, ver, compvars, extvars, kind, req, cur,
                 lockvars, runvars>>

\* _verify_locked: refused as stale when a newer step took over a target.
LockedVerify(p) ==
  LET targets == VerificationTargets(req[p]) IN
  /\ MyTurn(p) /\ kind[p] = "verify"
  /\ \/ /\ \A s \in targets : CurrentCandidate(s)
        /\ todo' = [todo EXCEPT ![p] = targets]
        /\ Acquire(p) /\ Goto(p, "verify")
     \/ /\ \E s \in targets : ~CurrentCandidate(s)
        /\ PassThrough(p)
        /\ UNCHANGED todo
  /\ UNCHANGED <<stepvars, reqvars, compvars, extvars, kind, req, cur, runvars>>

\* The worker got the lock of a request it found pending or due.
LockedRun(p) ==
  /\ MyTurn(p) /\ kind[p] = "run"
  /\ Acquire(p) /\ Goto(p, "claim")
  /\ UNCHANGED <<stepvars, reqvars, compvars, extvars, kind, req, cur, todo,
                 runvars>>

LockedDue(p) ==
  /\ MyTurn(p) /\ kind[p] = "due"
  /\ Acquire(p)
  /\ todo' = [todo EXCEPT ![p] = CompensationTargets(req[p])]
  /\ Goto(p, "comp")
  /\ UNCHANGED <<stepvars, reqvars, compvars, extvars, kind, req, cur, runvars>>

-----------------------------------------------------------------------------
(* _run_request: claim, admit, call the adapter, record the outcome. *)

ClaimStep(s) ==
  /\ st' = [st EXCEPT ![s] = "running"]
  /\ att' = [att EXCEPT ![s] = @ + 1]
  /\ Touch({s})
  /\ UNCHANGED waiting

ClaimNext(p) ==
  LET due == Claimable(req[p]) IN
  /\ pc[p] = "claim"
  /\ \/ /\ \E s \in Steps : /\ First(s, due)
                            /\ ClaimStep(s)
                            /\ cur' = [cur EXCEPT ![p] = s]
        /\ Goto(p, "claimed")
     \/ /\ due = {}
        /\ Goto(p, "result")
        /\ UNCHANGED <<stepvars, cur>>
  /\ UNCHANGED <<reqvars, compvars, extvars, kind, req, todo, lockvars, runvars>>

\* release_activation_claim gives the attempt back and forgets the result.
ReleaseActivationClaim(s) ==
  /\ st' = [st EXCEPT ![s] = "retry_wait"]
  /\ att' = [att EXCEPT ![s] = IF @ > 0 THEN @ - 1 ELSE 0]
  /\ waiting' = waiting \cup {s}
  /\ Touch({s})
  /\ cached' = [cached EXCEPT ![ReqOf[s]] = "none"]

SlipMustWait(s) == FALSE  \* trusts the check submit made

MustWait(s) == OpOf[s] \in AccessEnabling /\ Blocked(Emp(s), {SysOf[s]})

Admit(p) ==
  LET s == cur[p] IN
  /\ pc[p] = "claimed"
  /\ \/ /\ MustWait(s)
        /\ ReleaseActivationClaim(s)
        /\ Goto(p, "result")
        /\ UNCHANGED landed
     \/ /\ ~MustWait(s)
        /\ landed' = landed \ {p}
        /\ Goto(p, "call")
        /\ UNCHANGED <<stepvars, cached>>
  /\ UNCHANGED <<dead, cancelled, ver, compvars, acct, kind, req, cur, todo,
                 lockvars, runvars>>

SuccessState(s) ==
  IF OpOf[s] \in {"verify", "reconcile"} THEN "verified" ELSE "succeeded"

\* The adapter answers: complete_step, and on to the next claim.
ReturnOk(p) ==
  LET s == cur[p] IN
  /\ pc[p] = "call" /\ LoopFree(p) /\ p \in landed
  /\ st' = [st EXCEPT ![s] = SuccessState(s)]
  /\ waiting' = waiting \ {s}
  /\ Touch({s})
  /\ Goto(p, "claim")
  /\ UNCHANGED <<att, reqvars, compvars, extvars, kind, req, cur, todo, lockvars,
                 runvars>>

SlipFailStep(s, permanent) ==  \* a transient failure leaves the row running
  LET dl == permanent \/ att[s] >= MaxAttempts[s] IN
  /\ st' = [st EXCEPT ![s] = IF dl THEN "dead_letter" ELSE @]
  /\ waiting' = IF dl THEN waiting \ {s} ELSE waiting \cup {s}
  /\ dead' = [dead EXCEPT ![s] = IF dl /\ @ = "none" THEN "open" ELSE @]
  /\ Touch({s})

SlipFailState(s, permanent) ==  \* writes StepState.FAILED, which nothing claims
  /\ st' = [st EXCEPT ![s] = "failed"]
  /\ waiting' = waiting \cup {s}
  /\ Touch({s})
  /\ UNCHANGED dead

\* fail_step: retry later, or dead-letter (INSERT OR IGNORE keeps an old row).
FailStep(s, permanent) ==
  LET dl == permanent \/ att[s] >= MaxAttempts[s] IN
  /\ st' = [st EXCEPT ![s] = IF dl THEN "dead_letter" ELSE "retry_wait"]
  /\ waiting' = IF dl THEN waiting \ {s} ELSE waiting \cup {s}
  /\ dead' = [dead EXCEPT ![s] = IF dl /\ @ = "none" THEN "open" ELSE @]
  /\ Touch({s})

SlipReturnFailed(p, permanent) ==  \* compensates after permanent errors only
  LET s == cur[p] IN
  /\ pc[p] = "call" /\ LoopFree(p)
  /\ IF permanent THEN UNCHANGED cached ELSE Refresh(req[p])
  /\ FailStep(s, permanent)
  /\ Goto(p, IF permanent THEN "dead" ELSE "result")
  /\ UNCHANGED <<att, cancelled, ver, compvars, extvars, kind, req, cur, todo,
                 lockvars, runvars>>

\* A RetryableAdapterError (which first reads, and stores, the current result),
\* or any other failure: permanent, unclassified, no adapter registered.
ReturnFailed(p, permanent) ==
  LET s == cur[p] IN
  /\ pc[p] = "call" /\ LoopFree(p)
  /\ IF permanent THEN UNCHANGED cached ELSE Refresh(req[p])
  /\ FailStep(s, permanent)
  /\ Goto(p, IF permanent \/ att[s] >= MaxAttempts[s] THEN "dead" ELSE "result")
  /\ UNCHANGED <<att, cancelled, ver, compvars, extvars, kind, req, cur, todo,
                 lockvars, runvars>>

-----------------------------------------------------------------------------
(* _compensate *)

\* The step is committed as dead_letter; _compensate reads its targets.
StartCompensation(p) ==
  /\ pc[p] = "dead"
  /\ todo' = [todo EXCEPT ![p] = CompensationTargets(req[p])]
  /\ Goto(p, "comp")
  /\ UNCHANGED <<stepvars, reqvars, compvars, extvars, kind, req, cur, lockvars,
                 runvars>>

SlipRecordCompensation(s, state) ==  \* every attempt counts as a success
  /\ cstate' = [cstate EXCEPT ![s] = "succeeded"]
  /\ catt' = [catt EXCEPT ![s] = @ + 1]
  /\ cwait' = cwait \ {s}

RecordCompensation(s, state) ==
  /\ cstate' = [cstate EXCEPT ![s] = state]
  /\ catt' = [catt EXCEPT ![s] = @ + 1]
  /\ cwait' = IF state = "failed" THEN cwait \cup {s} ELSE cwait \ {s}

SlipCompensateNext(p) ==  \* without asking compensation_superseded
  \E s \in Steps :
  /\ pc[p] = "comp" /\ Last(s, todo[p])
  /\ cur' = [cur EXCEPT ![p] = s]
  /\ landed' = landed \ {p}
  /\ Goto(p, "compcall")
  /\ UNCHANGED <<compvars, todo, stepvars, reqvars, acct, kind, req, lockvars,
                 runvars>>

\* One turn of the loop over the targets, highest sequence first.
CompensateNext(p) ==
  \E s \in Steps :
  /\ pc[p] = "comp" /\ Last(s, todo[p])
  /\ \/ /\ Superseded(s)
        /\ RecordCompensation(s, "superseded")
        /\ todo' = [todo EXCEPT ![p] = @ \ {s}]
        /\ UNCHANGED <<pc, cur, landed>>
     \/ /\ ~Superseded(s)
        /\ cur' = [cur EXCEPT ![p] = s]
        /\ landed' = landed \ {p}
        /\ Goto(p, "compcall")
        /\ UNCHANGED <<compvars, todo>>
  /\ UNCHANGED <<stepvars, reqvars, acct, kind, req, lockvars, runvars>>

CompensationReturn(p, ok) ==
  LET s == cur[p] IN
  /\ pc[p] = "compcall" /\ LoopFree(p)
  /\ ok => p \in landed
  /\ RecordCompensation(s, IF ok THEN "succeeded" ELSE "failed")
  /\ todo' = [todo EXCEPT ![p] = @ \ {s}]
  /\ Goto(p, "comp")
  /\ UNCHANGED <<stepvars, reqvars, extvars, kind, req, cur, lockvars, runvars>>

CompensationDone(p) ==
  /\ pc[p] = "comp" /\ todo[p] = {}
  /\ Goto(p, "result")
  /\ UNCHANGED <<stepvars, reqvars, compvars, extvars, kind, req, cur, todo,
                 lockvars, runvars>>

-----------------------------------------------------------------------------
(* _verify_locked: one adapter.verify per target. *)

VerifyNext(p) ==
  /\ pc[p] = "verify"
  /\ \/ /\ \E s \in Steps : /\ Last(s, todo[p])
                            /\ cur' = [cur EXCEPT ![p] = s]
        /\ Goto(p, "vcall")
        /\ UNCHANGED elock
     \/ /\ todo[p] = {}
        /\ Goto(p, "ended")
        /\ elock' = [elock EXCEPT ![EmpOf[req[p]]] = None]
        /\ UNCHANGED cur
  /\ UNCHANGED <<stepvars, reqvars, compvars, extvars, kind, req, todo, queue,
                 runvars>>

\* record_verification: the evidence is stored for the current candidate only.
RecordVerification(s) ==
  ver' = [ver EXCEPT ![Emp(s)][SysOf[s]] = s]

VerifyReturn(p) ==
  LET s == cur[p] IN
  /\ pc[p] = "vcall" /\ LoopFree(p)
  /\ \/ \* confirmed and accepted
        /\ CurrentCandidate(s)
        /\ RecordVerification(s)
        /\ todo' = [todo EXCEPT ![p] = @ \ {s}]
        /\ Goto(p, "verify") /\ UNCHANGED elock
     \/ \* not confirmed, or an AdapterError
        /\ todo' = [todo EXCEPT ![p] = @ \ {s}]
        /\ Goto(p, "verify") /\ UNCHANGED <<ver, elock>>
     \/ \* an unclassified exception leaves the handler
        /\ Goto(p, "ended")
        /\ elock' = [elock EXCEPT ![EmpOf[req[p]]] = None]
        /\ UNCHANGED <<ver, todo>>
  /\ UNCHANGED <<stepvars, dead, cancelled, cached, compvars, extvars, kind, req,
                 cur, queue, runvars>>

-----------------------------------------------------------------------------
(* The end of a call, and of the worker's turn on a request. *)

\* submit and retry store the result and post the callback inside the lock.
Result(p) ==
  /\ pc[p] = "result"
  /\ \/ /\ kind[p] \in {"submit", "retry"}
        /\ Refresh(req[p])
        /\ Goto(p, "callback") /\ UNCHANGED lockvars
     \/ /\ kind[p] = "cancel"
        /\ Refresh(req[p])
        /\ Goto(p, "ended") /\ Release(p)
     \/ /\ kind[p] = "run"
        /\ Goto(p, "scan") /\ Release(p) /\ UNCHANGED cached
     \/ /\ kind[p] = "due"
        /\ Goto(p, "due") /\ Release(p) /\ UNCHANGED cached
  /\ UNCHANGED <<stepvars, dead, cancelled, ver, compvars, extvars, kind, req,
                 cur, todo, runvars>>

CallbackDone(p) ==
  /\ pc[p] = "callback" /\ LoopFree(p)
  /\ Goto(p, "ended") /\ Release(p)
  /\ UNCHANGED <<stepvars, reqvars, compvars, extvars, kind, req, cur, todo,
                 runvars>>

-----------------------------------------------------------------------------
(* engine.worker, and engine.recover, which makes the same two passes. *)

WorkerWakes ==
  /\ pc[Worker] = "rest" /\ phase # "down" /\ LoopFree(Worker)
  /\ batch' = PendingRequests
  /\ Goto(Worker, "scan")
  /\ UNCHANGED <<stepvars, reqvars, compvars, extvars, kind, req, cur, todo,
                 lockvars, phase, crashes>>

\* A pending request of the snapshot; skipped while its employee is locked.
WorkerTakes(r) ==
  /\ pc[Worker] = "scan" /\ r \in batch
  /\ batch' = batch \ {r}
  /\ Refresh(r)
  /\ IF elock[EmpOf[r]] # None
     THEN UNCHANGED <<pc, kind, req, queue>>
     ELSE /\ kind' = [kind EXCEPT ![Worker] = "run"]
          /\ req' = [req EXCEPT ![Worker] = r]
          /\ Enter(Worker, EmpOf[r])
  /\ UNCHANGED <<stepvars, dead, cancelled, ver, compvars, extvars, cur, todo,
                 elock, phase, crashes>>

WorkerDue ==
  /\ pc[Worker] = "scan" /\ batch = {}
  /\ batch' = DueRequests
  /\ Goto(Worker, "due")
  /\ UNCHANGED <<stepvars, reqvars, compvars, extvars, kind, req, cur, todo,
                 lockvars, phase, crashes>>

\* _compensate_due waits for the lock and does not look again at what is due.
WorkerTakesDue(r) ==
  /\ pc[Worker] = "due" /\ r \in batch
  /\ batch' = batch \ {r}
  /\ Refresh(r)
  /\ kind' = [kind EXCEPT ![Worker] = "due"]
  /\ req' = [req EXCEPT ![Worker] = r]
  /\ Enter(Worker, EmpOf[r])
  /\ UNCHANGED <<stepvars, dead, cancelled, ver, compvars, extvars, cur, todo,
                 elock, phase, crashes>>

WorkerRests ==
  /\ pc[Worker] = "due" /\ batch = {}
  /\ Goto(Worker, "rest")
  /\ phase' = "serving"
  /\ UNCHANGED <<stepvars, reqvars, compvars, extvars, kind, req, cur, todo,
                 lockvars, batch, crashes>>

-----------------------------------------------------------------------------
(* Providers, clocks, crashes. *)

\* What a provider does to an account; a compensation reduces access.
Effect(op, a) ==
  CASE op = "create_disabled" -> IF a = "none" THEN "disabled" ELSE a
    [] op \in AccessEnabling -> "enabled"
    [] op \in {"suspend", "terminate"} -> IF a = "enabled" THEN "disabled" ELSE a
    [] OTHER -> a

Land(p) ==
  LET s == cur[p]
      op == IF pc[p] = "compcall" THEN "suspend" ELSE OpOf[s] IN
  /\ pc[p] \in {"call", "compcall"} /\ p \notin landed
  /\ acct' = [acct EXCEPT ![Emp(s)][SysOf[s]] = Effect(op, @)]
  /\ landed' = landed \cup {p}
  /\ UNCHANGED <<stepvars, reqvars, compvars, procvars, lockvars, runvars>>

\* next_retry_at passes.
Elapse(s) ==
  /\ s \in waiting
  /\ waiting' = waiting \ {s}
  /\ UNCHANGED <<st, att, newer, reqvars, compvars, extvars, procvars, lockvars,
                 runvars>>

ElapseCompensation(s) ==
  /\ s \in cwait
  /\ cwait' = cwait \ {s}
  /\ UNCHANGED <<stepvars, reqvars, cstate, catt, extvars, procvars, lockvars,
                 runvars>>

\* The process dies between any two statements: only the database is left.
Crash ==
  /\ phase # "down" /\ crashes < MaxCrashes
  /\ phase' = "down"
  /\ crashes' = crashes + 1
  /\ pc' = [p \in Procs |-> IF p = Worker THEN "rest"
                            ELSE IF pc[p] = "new" THEN "new" ELSE "ended"]
  /\ cur' = [p \in Procs |-> None]
  /\ todo' = [p \in Procs |-> {}]
  /\ landed' = {}
  /\ elock' = [e \in Employees |-> None]
  /\ queue' = [e \in Employees |-> <<>>]
  /\ batch' = {}
  /\ UNCHANGED <<stepvars, reqvars, compvars, acct, kind, req>>

\* recover_stale: the running steps claimed before the cutoff, which lies
\* anywhere in the order of the claims.
Restart ==
  \E stale \in SUBSET {s \in Steps : st[s] = "running"} :
    /\ phase = "down"
    /\ \A s \in stale, u \in Steps :
         st[u] = "running" /\ <<s, u>> \in newer => u \in stale
    /\ st' = [s \in Steps |-> IF s \in stale THEN "retry_wait" ELSE st[s]]
    /\ waiting' = waiting \ stale
    /\ Touch(stale)
    /\ phase' = "recovering"
    /\ UNCHANGED <<att, reqvars, compvars, extvars, procvars, lockvars, batch,
                   crashes>>

-----------------------------------------------------------------------------

Init ==
  /\ st = [s \in Steps |-> "absent"]
  /\ att = [s \in Steps |-> 0]
  /\ newer = {} /\ waiting = {}
  /\ dead = [s \in Steps |-> "none"]
  /\ cancelled = [r \in Requests |-> FALSE]
  /\ cached = [r \in Requests |-> "none"]
  /\ ver = [e \in Employees |-> [y \in Systems |-> None]]
  /\ cstate = [s \in Steps |-> "none"]
  /\ catt = [s \in Steps |-> 0]
  /\ cwait = {}
  /\ acct = [e \in Employees |-> [y \in Systems |-> "none"]]
  /\ landed = {}
  /\ pc = [p \in Procs |-> IF p = Worker THEN "rest" ELSE "new"]
  /\ kind = [p \in Procs |-> IF p = Worker THEN "run" ELSE "submit"]
  /\ req = [p \in Procs |-> None]
  /\ cur = [p \in Procs |-> None]
  /\ todo = [p \in Procs |-> {}]
  /\ elock = [e \in Employees |-> None]
  /\ queue = [e \in Employees |-> <<>>]
  /\ batch = {} /\ phase = "serving" /\ crashes = 0

\* Steps the event loop takes by itself once a coroutine is running.
LoopStep(p) ==
  \/ LockedSubmit(p) \/ LockedRetry(p) \/ LockedCancel(p) \/ LockedVerify(p)
  \/ LockedRun(p) \/ LockedDue(p)
  \/ MarkCancelled(p)
  \/ ClaimNext(p) \/ Admit(p)
  \/ StartCompensation(p) \/ CompensateNext(p) \/ CompensationDone(p)
  \/ VerifyNext(p) \/ Result(p)

\* Answers of adapters and of the callback receiver.
Answer(p) ==
  \/ ReturnOk(p) \/ ReturnFailed(p, TRUE) \/ ReturnFailed(p, FALSE)
  \/ CompensationReturn(p, TRUE) \/ CompensationReturn(p, FALSE)
  \/ VerifyReturn(p) \/ CallbackDone(p)

WorkerStep ==
  \/ WorkerWakes \/ WorkerDue \/ WorkerRests
  \/ \E r \in Requests : WorkerTakes(r) \/ WorkerTakesDue(r)

Start(p) ==
  \E r \in Requests :
    \/ StartSubmit(p, r)
    \/ \E k \in {"retry", "cancel", "verify"} : StartAction(p, k, r)

Next ==
  \/ \E p \in Calls : Start(p)
  \/ \E p \in Procs : LoopStep(p) \/ Answer(p) \/ Land(p)
  \/ WorkerStep
  \/ \E r \in Requests : ReadResult(r)
  \/ \E s \in Steps : Elapse(s) \/ ElapseCompensation(s)
  \/ Crash \/ Restart

Spec == Init /\ [][Next]_vars

\* The event loop resumes every coroutine that is ready (asyncio runs its ready
\* queue in FIFO order), adapters and callbacks answer or time out, clocks
\* advance and the supervisor restarts a dead process.  Clients promise nothing.
Fairness ==
  /\ \A p \in Procs : SF_vars(LoopStep(p) \/ Answer(p))
  /\ SF_vars(WorkerStep)
  /\ \A s \in Steps : WF_vars(Elapse(s)) /\ WF_vars(ElapseCompensation(s))
  /\ WF_vars(Restart)

FairSpec == Spec /\ Fairness

-----------------------------------------------------------------------------
(* Properties *)

Working(r) == \E p \in Procs : pc[p] \in Held /\ req[p] = r

\* The employee lock: two coroutines never have adapter calls for the same
\* employee in flight together, whatever requests they work on.
OneCallPerEmployee ==
  \A p, q \in Procs :
    /\ pc[p] \in AdapterCalls /\ pc[q] \in AdapterCalls
    /\ EmpOf[req[p]] = EmpOf[req[q]]
    => p = q

\* The rows the repository's queries read for employee e, before and after.
EmployeeFrozen(e) ==
  /\ \A s \in Steps : Emp(s) = e => st'[s] = st[s] /\ att'[s] = att[s]
  /\ \A s, u \in Steps : Emp(s) = e /\ Emp(u) = e
                         => (<<s, u>> \in newer' <=> <<s, u>> \in newer)
  /\ ver'[e] = ver[e]

\* While a coroutine awaits an adapter nobody else changes the step rows, their
\* order or the verification records of its employee: what it read before the
\* await still holds when it writes the outcome after it.
FrozenInFlight ==
  [][\A p \in Procs : pc[p] \in AdapterCalls /\ pc'[p] = pc[p]
                      => EmployeeFrozen(EmpOf[req[p]])]_vars

\* An activate or reactivate call is in flight only while every system the
\* employee is provisioned in has its latest step done and verified: nothing
\* another call, the worker or a restart does invalidates the check that
\* _run_request made before it awaited the adapter.
ActivationSafe ==
  \A p \in Procs :
    pc[p] = "call" /\ OpOf[cur[p]] \in AccessEnabling
    => ~Blocked(EmpOf[req[p]], {SysOf[cur[p]]})

\* A step that has been claimed at least once has all its predecessors behind
\* it: claim_next, retries, recovery and cancellation never run steps of a
\* request out of order.
StepOrder ==
  \A s, u \in Steps :
    /\ ReqOf[u] = ReqOf[s] /\ SeqOf[u] < SeqOf[s]
    /\ st[s] \notin {"absent", "pending", "compensated"}
    => st[u] \in Settled

\* Transient failures and API retries never give a step more attempts than
\* max_attempts; every crash can add one at most (recover_stale).
AttemptBudget == \A s \in Steps : att[s] <= MaxAttempts[s] + crashes

\* A stored result that a replayed submit returns as "completed" is true of the
\* step rows, however old the cached JSON is.
ReplayNeverOverclaims ==
  \A s \in Steps : cached[ReqOf[s]] = "completed" => st[s] \in Settled

\* Without crashes a "running" row always belongs to a coroutine that is about
\* to record its outcome: no claim is ever lost.
RunningIsOwned ==
  crashes = 0 =>
    \A s \in Steps : st[s] = "running" =>
      \E p \in Procs : pc[p] \in {"claimed", "call"} /\ cur[p] = s

\* Without crashes, a request that sits with a dead-lettered step has a
\* compensation record for each system its earlier steps had changed.
CompensationRecorded ==
  crashes = 0 =>
    \A r \in Requests :
      (\E s \in Rows(r) : st[s] = "dead_letter") /\ ~Working(r)
      => \A s \in CompensationTargets(r) : cstate[s] # "none"

\* A compensation recorded as succeeded is true of the provider: the account is
\* not enabled unless a later activation step of the employee touched it.
CompensatedHasNoAccess ==
  \A s \in Steps :
    /\ cstate[s] = "succeeded"
    /\ \A u \in Steps : (/\ Emp(u) = Emp(s) /\ SysOf[u] = SysOf[s]
                         /\ OpOf[u] \in AccessEnabling)
                        => <<u, s>> \notin newer
    => acct[Emp(s)][SysOf[s]] # "enabled"

\* A compensation in flight never takes away what a later request of the employee
\* has set up: the answer of compensation_superseded still holds while the adapter
\* is awaited, for a handler of a failure, a cancel and the worker alike.
NoCompensationOfSuperseded ==
  \A p \in Procs : pc[p] = "compcall" => ~Superseded(cur[p])

\* A step that succeeded, was verified or was dropped by a cancellation never
\* leaves that state (complete_step and fail_step do not test the state they
\* overwrite).
SettledStays ==
  [][\A s \in Steps : st[s] \in Settled => st'[s] = st[s]]_vars

\* What activation_blockers accepts for an employee.
EvidenceOf(e) == {y \in Systems : ~Blocked(e, {y})}

Gate == INSTANCE AccessGate WITH
          evidence <- [e \in Employees |-> EvidenceOf(e)]

\* The engine implements the access gate: accounts are created disabled, enabled
\* only under current verification evidence, and never deleted.
ImplementsAccessGate == Gate!Spec

\* Every API call that starts returns: no coroutine waits for ever for a lock,
\* an adapter or a callback.
CallsFinish == \A p \in Calls : pc[p] # "new" ~> pc[p] = "ended"

\* An accepted request that enables no access ends as completed or as
\* dead-lettered, driven by the worker when its caller is gone.
RequestsSettle ==
  \A r \in Requests :
    Known(r) /\ ~Activating(r) ~> ResultOf(r) \in {"completed", "dead_letter"}

Unresolved(s) ==
  /\ cstate[s] = "failed" /\ catt[s] < CompMax
  /\ Owed(ReqOf[s]) /\ s \in CompensationTargets(ReqOf[s])

\* The worker retries a failed compensation of a current target until it
\* succeeds, is superseded, is no longer owed, or used up its attempts.
CompensationResolves == \A s \in Steps : Unresolved(s) ~> ~Unresolved(s)

-----------------------------------------------------------------------------
(* What the repository's own texts say, refuted by the violation runs. *)

\* "cancelled_execution_retry_forbidden": no step of a cancelled execution is
\* claimed again.
CancelledNeverRuns ==
  [][\A s \in Steps :
       cancelled[ReqOf[s]] /\ st[s] # "running" => st'[s] # "running"]_vars

\* After partial failure access is reduced: compensation has been recorded for
\* each system whose step succeeded, crash or no crash, once the service is back.
FailureIsCompensated ==
  phase = "serving" =>
    \A r \in Requests :
      (\E s \in Rows(r) : st[s] = "dead_letter") /\ ~Working(r)
      => \A s \in CompensationTargets(r) : cstate[s] # "none"

\* "Retried request is removed from due compensation": the worker compensates
\* only requests that are still cancelled or dead-lettered.
DueStillOwed ==
  \A p \in Procs : pc[p] = "compcall" /\ kind[p] = "due" => Owed(req[p])
=============================================================================
