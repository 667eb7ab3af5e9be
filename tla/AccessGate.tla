----------------------------- MODULE AccessGate -----------------------------
(***************************************************************************)
(* What the service promises about access, without requests, steps, locks, *)
(* retries or crashes: an account is created disabled, it is enabled only  *)
(* while verification evidence covers it, access can be taken away at any  *)
(* time, and an account is never deleted.                                  *)
(***************************************************************************)
CONSTANTS Employees, Systems

VARIABLES
  acct,     \* the account of an employee in a target system
  evidence  \* the systems of an employee that may be activated

Init ==
  /\ acct = [e \in Employees |-> [y \in Systems |-> "none"]]
  /\ evidence = [e \in Employees |-> {}]

Create(e, y) ==
  /\ acct[e][y] = "none"
  /\ acct' = [acct EXCEPT ![e][y] = "disabled"]
  /\ UNCHANGED evidence

Enable(e, y) ==
  /\ acct[e][y] # "none"
  /\ y \in evidence[e]
  /\ acct' = [acct EXCEPT ![e][y] = "enabled"]
  /\ UNCHANGED evidence

Reduce(e, y) ==
  /\ acct[e][y] = "enabled"
  /\ acct' = [acct EXCEPT ![e][y] = "disabled"]
  /\ UNCHANGED evidence

\* Provisioning work and verification change the evidence of an employee, the
\* recovery after a crash that of several at once.
Assess ==
  /\ evidence' \in [Employees -> SUBSET Systems]
  /\ UNCHANGED acct

Next ==
  \/ Assess
  \/ \E e \in Employees, y \in Systems :
       Create(e, y) \/ Enable(e, y) \/ Reduce(e, y)

Spec == Init /\ [][Next]_<<acct, evidence>>
=============================================================================
