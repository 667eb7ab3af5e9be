--------------------------- MODULE MCProvisioning ---------------------------
(***************************************************************************)
(* Small instances of Provisioning for TLC.  An instance is a table of     *)
(* steps: employee, request, sequence, target system, operation and        *)
(* max_attempts of each.  A .cfg chooses the table and how many API calls  *)
(* and crashes there are.                                                  *)
(***************************************************************************)
EXTENDS Provisioning, TLC

CONSTANTS Table, c1, c2, c3, c4, c5, worker, none

Row(e, r, q, y, op, max) ==
  [e |-> e, r |-> r, q |-> q, y |-> y, op |-> op, max |-> max]

\* One account created, changed and activated by three requests: evidence goes
\* stale between the moment it is checked and the activation.
GateTable ==
  [create   |-> Row("alice", "provision", 1, "keycloak", "create_disabled", 1),
   update   |-> Row("alice", "change", 1, "keycloak", "update", 1),
   activate |-> Row("alice", "activation", 1, "keycloak", "activate", 2)]

\* One request over two systems, whose second step can fail after the first
\* succeeded, at once or after a retry.
DuoTable ==
  [kc   |-> Row("alice", "provision", 1, "keycloak", "create_disabled", 1),
   vici |-> Row("alice", "provision", 2, "vicidial", "create_disabled", 2)]

\* The same, ended by a verification step.
PairTable ==
  [kc    |-> Row("alice", "provision", 1, "keycloak", "create_disabled", 1),
   vici  |-> Row("alice", "provision", 2, "vicidial", "create_disabled", 2),
   check |-> Row("alice", "provision", 3, "vicidial", "verify", 1)]

\* Two systems created by one request and enabled by another: each can fail after
\* its first step succeeded, and the second supersedes compensations of the first.
EnableTable ==
  [kc      |-> Row("alice", "provision", 1, "keycloak", "create_disabled", 1),
   vici    |-> Row("alice", "provision", 2, "vicidial", "create_disabled", 1),
   kc_on   |-> Row("alice", "activation", 1, "keycloak", "activate", 1),
   vici_on |-> Row("alice", "activation", 2, "vicidial", "activate", 1)]

TableSteps     == DOMAIN Table
TableRequests  == {Table[s].r : s \in TableSteps}
TableSystems   == {Table[s].y : s \in TableSteps}
TableEmployees == {Table[s].e : s \in TableSteps}
TableEmpOf == [r \in TableRequests |-> Table[CHOOSE s \in TableSteps : Table[s].r = r].e]
TableReqOf == [s \in TableSteps |-> Table[s].r]
TableSysOf == [s \in TableSteps |-> Table[s].y]
TableOpOf  == [s \in TableSteps |-> Table[s].op]
TableSeqOf == [s \in TableSteps |-> Table[s].q]
TableMax   == [s \in TableSteps |-> Table[s].max]

\* Calls are interchangeable until they start, and nothing orders them.
CallSymmetry == Permutations(Calls)
=============================================================================
