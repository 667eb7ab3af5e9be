----------------------------- MODULE Lifecycle ------------------------------
(***************************************************************************)
(* Which provider identity a command addresses: engine.lifecycle and       *)
(* repository.employee_commands, for one employee.                         *)
(*                                                                         *)
(* A command names an identity (a username, an extension) in its payload,  *)
(* or names none.  The lifecycle routes (suspend, reactivate, terminate,   *)
(* rotate) complete the fields the caller left out from the commands that  *)
(* have succeeded; what the caller sends overrides that.  The request then *)
(* waits for the employee lock and may be retried much later with the      *)
(* payload it stored.  The execute route completes nothing.                *)
(* Steps are one per call here; Provisioning has their full execution.     *)
(***************************************************************************)
EXTENDS Naturals, Sequences

CONSTANTS
  Calls,    \* API calls, one request with one step each (a bound)
  Systems,
  Ids,      \* provider identities
  None

ASSUME LifecycleConstants == None \notin Calls \cup Ids

VARIABLES
  log,     \* the successful commands, by updated_at
  cmd,     \* the command of a call, as stored in steps.command_json
  pc,      \* "new", "wait" (for the lock), "call", "retry" (later), "ended"
  holder,  \* of the employee lock
  queue    \* the calls waiting for it, in FIFO order

vars == <<log, cmd, pc, holder, queue>>

\* src records where the identity came from: the caller, or the completion.
Commands == [sys : Systems, op : {"create_disabled", "later"},
             id : Ids \cup {None}, src : {"caller", "bound"}]

TypeOK ==
  /\ log \in Seq(Commands)
  /\ cmd \in [Calls -> Commands \cup {None}]
  /\ pc \in [Calls -> {"new", "wait", "call", "retry", "ended"}]
  /\ holder \in Calls \cup {None}
  /\ queue \in Seq(Calls)

SlipNaming(y) ==  \* forgets to group the rows by target system
  {i \in 1..Len(log) : log[i].id # None}

\* The rows of system y that employee_commands merges and that name an identity:
\* nothing counts before the first create_disabled.
Naming(y) ==
  {i \in 1..Len(log) :
     /\ log[i].sys = y /\ log[i].id # None
     /\ \E j \in 1..i : log[j].sys = y /\ log[j].op = "create_disabled"}

\* The identity in the merged payload: later rows override earlier ones.
Bound(y) ==
  IF Naming(y) = {} THEN None
  ELSE log[CHOOSE i \in Naming(y) : \A j \in Naming(y) : j <= i].id

Submit(p, c) ==
  /\ pc[p] = "new"
  /\ cmd' = [cmd EXCEPT ![p] = c]
  /\ pc' = [pc EXCEPT ![p] = "wait"]
  /\ queue' = Append(queue, p)
  /\ UNCHANGED <<log, holder>>

\* The execute route: any operation, with the identity the caller names, if any.
SubmitNamed(p, y, op, own) == Submit(p, [sys |-> y, op |-> op, id |-> own, src |-> "caller"])

SlipSubmitLifecycle(p, y, own) ==  \* merges the previous command, not its payload
  IF own = None
  THEN Submit(p, [sys |-> y, op |-> "later", src |-> "bound",
                  id |-> IF Naming(y) = {} THEN None ELSE log[Len(log)]])
  ELSE SubmitNamed(p, y, "later", own)

\* engine.lifecycle: the payload is completed BEFORE the employee lock is taken.
SubmitLifecycle(p, y, own) ==
  IF own = None
  THEN Submit(p, [sys |-> y, op |-> "later", id |-> Bound(y), src |-> "bound"])
  ELSE SubmitNamed(p, y, "later", own)

Execute(p) ==
  /\ pc[p] = "wait" /\ holder = None /\ Head(queue) = p
  /\ holder' = p
  /\ queue' = Tail(queue)
  /\ pc' = [pc EXCEPT ![p] = "call"]
  /\ UNCHANGED <<log, cmd>>

\* complete_step: the command counts as the latest of its system.
Succeed(p) ==
  /\ pc[p] = "call"
  /\ log' = Append(log, cmd[p])
  /\ pc' = [pc EXCEPT ![p] = "ended"]
  /\ holder' = None
  /\ UNCHANGED <<cmd, queue>>

\* fail_step: dead-lettered, or retried with the stored command.
Fail(p, retry) ==
  /\ pc[p] = "call"
  /\ pc' = [pc EXCEPT ![p] = IF retry THEN "retry" ELSE "ended"]
  /\ holder' = None
  /\ UNCHANGED <<log, cmd, queue>>

\* The worker takes the step up again, unless the employee is busy.
Requeue(p) ==
  /\ pc[p] = "retry" /\ holder = None
  /\ pc' = [pc EXCEPT ![p] = "wait"]
  /\ queue' = Append(queue, p)
  /\ UNCHANGED <<log, cmd, holder>>

Init ==
  /\ log = <<>> /\ holder = None /\ queue = <<>>
  /\ cmd = [p \in Calls |-> None]
  /\ pc = [p \in Calls |-> "new"]

Next ==
  \E p \in Calls :
    \/ \E y \in Systems, own \in Ids \cup {None} :
         \/ SubmitLifecycle(p, y, own)
         \/ \E op \in {"create_disabled", "later"} : SubmitNamed(p, y, op, own)
    \/ Execute(p) \/ Succeed(p) \/ Requeue(p)
    \/ \E retry \in BOOLEAN : Fail(p, retry)

Spec == Init /\ [][Next]_vars

-----------------------------------------------------------------------------

\* The caller of a successful command named id in system y, once the employee's
\* creation there had succeeded.
Provided(y, id) ==
  \E i \in 1..Len(log) :
    /\ log[i].sys = y /\ log[i].id = id /\ log[i].src = "caller"
    /\ \E j \in 1..i : log[j].sys = y /\ log[j].op = "create_disabled"

\* A completed identity is the employee's own: whatever a command in flight did not get
\* from its caller was provided for the employee in THAT system, also when the command
\* was stored long before, overtaken and retried, or copied from another completed one.
OwnIdentity ==
  \A p \in Calls :
    pc[p] = "call" /\ cmd[p].src = "bound" /\ cmd[p].id # None
    => Provided(cmd[p].sys, cmd[p].id)

\* "Provider identifiers stay bound to the last successful target command."
BoundToLast ==
  \A p \in Calls :
    pc[p] = "call" /\ cmd[p].src = "bound" /\ cmd[p].id # None
    => cmd[p].id = Bound(cmd[p].sys)
=============================================================================
