------------------------------ MODULE Keycloak ------------------------------
(***************************************************************************)
(* The Keycloak adapter: app/keycloak.py against the realm it administers. *)
(*                                                                         *)
(* A step command is carried out by several admin requests.  Each of them  *)
(* may be answered, be refused, or be given up by the adapter: a write     *)
(* that is given up may have been applied, may never be, or may be applied *)
(* later, when other commands have run.  The engine retries a command that *)
(* failed, from its first request, under the same idempotency key, and     *)
(* runs the commands of an employee one at a time.                         *)
(***************************************************************************)
EXTENDS Naturals, FiniteSets

CONSTANTS
  Commands,    \* step commands; a command stands for its idempotency_key too
  Employees,
  Names,       \* usernames
  None,
  EmpOf,       \* [Commands -> Employees], employee_id
  OpOf,        \* [Commands -> Operations]
  NameOf,      \* [Commands -> Names], payload["username"] of a creation
  LinkOf,      \* [Commands -> {"none", "approved", "other"}], the activation link
  MaxAttempts, \* [Commands -> Nat \ {0}], max_attempts
  MaxLate      \* bound on the writes that are applied late

Operations == {"create_disabled", "update", "verify", "activate", "suspend",
               "reactivate", "terminate", "rotate_credentials"}

\* What _user_for_command keeps of a user.
Representation == [name: Names, key: Commands, actions: BOOLEAN]

ASSUME KeycloakConstants ==
  /\ EmpOf \in [Commands -> Employees] /\ OpOf \in [Commands -> Operations]
  /\ NameOf \in [Commands -> Names]
  /\ LinkOf \in [Commands -> {"none", "approved", "other"}]
  /\ MaxAttempts \in [Commands -> Nat \ {0}]
  /\ MaxLate \in Nat
  /\ None \notin Commands \cup Employees \cup Representation

VARIABLES
  \* The realm.
  user,    \* [Names -> User \cup {Absent}]
  late,    \* writes given up that Keycloak has yet to apply
  lates,   \* how many there have been
  \* The commands.
  pc,      \* the request a command awaits, or how it ended
  att,     \* attempts
  seen,    \* the representation read by _user_for_command
  \* The engine around them.
  verified, \* employees whose latest account has been verified
  last      \* the last command of an employee that set its access

realm == <<user, late, lates>>
vars == <<realm, pc, att, seen, verified, last>>

Reads  == {"name", "search", "snapshot"}
Writes == {"post", "put", "entitle", "email", "logout"}
InFlight(c) == pc[c] \in Reads \cup Writes

Lives == {"activation_pending", "active", "suspended", "terminated"}
User == [emp: Employees, key: Commands, enabled: BOOLEAN, life: Lives,
         actions: BOOLEAN,   \* UPDATE_PASSWORD and CONFIGURE_TOTP are required
         entitled: BOOLEAN,  \* the groups and roles asked for are assigned
         session: BOOLEAN]
Absent == [emp |-> None]

Provisions == {"create_disabled", "update"}
Enabling   == {"activate", "reactivate"}
Disabling  == {"suspend", "terminate"}

\* Type invariant.
TypeOK ==
  /\ user \in [Names -> User \cup {Absent}]
  /\ \A w \in late : w.stage \in Writes /\ w.cmd \in Commands
  /\ lates \in 0..MaxLate
  /\ pc \in [Commands -> {"todo", "retry", "ok", "failed"} \cup Reads \cup Writes]
  /\ att \in [Commands -> Nat]
  /\ seen \in [Commands -> Representation \cup {None}]
  /\ \A c \in Commands : pc[c] \in Writes \cup {"snapshot"} =>
       (seen[c] = None <=> OpOf[c] = "create_disabled")
  /\ verified \subseteq Employees
  /\ last \in [Employees -> Commands \cup {None}]

-----------------------------------------------------------------------------
(* What a request does to the realm. *)

Found(e) == {n \in Names : user[n].emp = e}

\* POST users: disabled, with required actions, nothing assigned.
Created(c) ==
  [emp |-> EmpOf[c], key |-> c, enabled |-> FALSE, life |-> "activation_pending",
   actions |-> TRUE, entitled |-> FALSE, session |-> FALSE]

SlipMerged(c, u, k) ==  \* reactivate leaves lifecycle_state as it is
  LET op == OpOf[c] IN
  CASE op = "update" ->
         [u EXCEPT !.key = c, !.life = "activation_pending"]
    [] op = "activate" ->
         [u EXCEPT !.enabled = TRUE, !.actions = TRUE, !.key = k,
                   !.life = "activation_pending"]
    [] op = "reactivate" -> [u EXCEPT !.enabled = TRUE, !.key = k]
    [] op \in Disabling ->
         [u EXCEPT !.enabled = FALSE, !.key = k,
                   !.life = IF op = "suspend" THEN "suspended" ELSE "terminated"]
    [] op = "rotate_credentials" -> [u EXCEPT !.actions = TRUE]

\* PUT users/id.  The attributes are replaced as a whole: update writes its own
\* idempotency key, the others write back the one (k) they have read.
Merged(c, u, k) ==
  LET op == OpOf[c] IN
  CASE op = "update" ->
         [u EXCEPT !.key = c, !.life = "activation_pending"]
    [] op = "activate" ->
         [u EXCEPT !.enabled = TRUE, !.actions = TRUE, !.key = k,
                   !.life = "activation_pending"]
    [] op = "reactivate" ->
         [u EXCEPT !.enabled = TRUE, !.key = k, !.life = "active"]
    [] op \in Disabling ->
         [u EXCEPT !.enabled = FALSE, !.key = k,
                   !.life = IF op = "suspend" THEN "suspended" ELSE "terminated"]
    [] op = "rotate_credentials" -> [u EXCEPT !.actions = TRUE]

\* The realm after the write w.  A username is unique.
Applied(w) ==
  LET n == w.name
      u == user[n] IN
  CASE w.stage = "post"   -> IF u = Absent THEN [user EXCEPT ![n] = Created(w.cmd)]
                             ELSE user
    [] w.stage = "put"    -> [user EXCEPT ![n] = Merged(w.cmd, u, w.key)]
    [] w.stage = "entitle" -> [user EXCEPT ![n].entitled = TRUE]
    [] w.stage = "logout" -> [user EXCEPT ![n].session = FALSE]
    [] w.stage = "email"  -> user

\* The write that command c is about to make, or has in flight.
Pending(c) ==
  [cmd |-> c, stage |-> pc[c],
   name |-> IF OpOf[c] = "create_disabled" THEN NameOf[c] ELSE seen[c].name,
   key  |-> IF OpOf[c] = "create_disabled" THEN c ELSE seen[c].key]

-----------------------------------------------------------------------------
(* The order of the requests of a command.  The writes of _apply_entitlements *)
(* (groups, realm roles, client roles) are taken together as "entitle": one   *)
(* that fails in the middle counts as not applied.                           *)

SlipFirstRequest(op) ==  \* a verification looks for no user
  CASE op = "create_disabled" -> "name"
    [] op = "verify" -> "snapshot"
    [] OTHER -> "search"

FirstRequest(op) == IF op = "create_disabled" THEN "name" ELSE "search"

\* The first request after the user has been read; an update that carries no
\* attribute and no name goes straight to the entitlements.
AfterSearch(op) ==
  CASE op = "verify" -> {"snapshot"}
    [] op = "update" -> {"put", "entitle"}
    [] OTHER -> {"put"}

\* activate looks at the redirect after it has enabled the user.
AfterEnable(link) ==
  CASE link = "none" -> "ok" [] link = "approved" -> "email" [] link = "other" -> "failed"

SlipAfterPut(c) ==  \* the sessions are not ended
  CASE OpOf[c] = "update" -> "entitle"
    [] OpOf[c] = "activate" -> AfterEnable(LinkOf[c])
    [] OpOf[c] = "rotate_credentials" -> "logout"
    [] OpOf[c] \in {"reactivate"} \cup Disabling -> "ok"

AfterPut(c) ==
  CASE OpOf[c] = "update" -> "entitle"
    [] OpOf[c] = "activate" -> AfterEnable(LinkOf[c])
    [] OpOf[c] \in Disabling \cup {"rotate_credentials"} -> "logout"
    [] OpOf[c] = "reactivate" -> "ok"

AfterWrite(c) ==
  CASE pc[c] = "post" -> "entitle"
    [] pc[c] = "put" -> AfterPut(c)
    [] pc[c] \in {"entitle", "email", "logout"} -> "ok"

\* A transient error is retried while attempts are left.
GivenUp(c) == IF att[c] < MaxAttempts[c] THEN "retry" ELSE "failed"

\* The command moves on to l, having read rep, which it forgets when it ends.  A
\* provision that succeeds is not yet verified; a verification that does is the
\* evidence activation needs.
Proceed(c, l, rep) ==
  /\ pc' = [pc EXCEPT ![c] = l]
  /\ seen' = [seen EXCEPT ![c] = IF l \in Reads \cup Writes THEN rep ELSE None]
  /\ verified' =
       IF l # "ok" THEN verified
       ELSE CASE OpOf[c] \in Provisions -> verified \ {EmpOf[c]}
              [] OpOf[c] = "verify" -> verified \cup {EmpOf[c]}
              [] OTHER -> verified

Goto(c, l) == Proceed(c, l, seen[c])

-----------------------------------------------------------------------------
(* The engine: starting a command. *)

SlipIdle(e) == TRUE  \* without the employee lock

Idle(e) == \A c \in Commands : EmpOf[c] = e => ~InFlight(c)

\* claim_next, recovery, or a retry of a dead letter; an activation waits for
\* verification evidence, which there is only for provisions that succeeded.
Start(c) ==
  LET e == EmpOf[c] IN
  /\ pc[c] \in {"todo", "retry", "failed"} /\ att[c] < MaxAttempts[c]
  /\ Idle(e)
  /\ OpOf[c] \in Enabling => e \in verified
  /\ OpOf[c] = "verify" =>
       \E d \in Commands : EmpOf[d] = e /\ OpOf[d] \in Provisions /\ pc[d] = "ok"
  /\ att' = [att EXCEPT ![c] = @ + 1]
  /\ last' = IF OpOf[c] \in Enabling \cup Disabling
             THEN [last EXCEPT ![e] = c] ELSE last
  /\ Goto(c, FirstRequest(OpOf[c]))
  /\ UNCHANGED realm

-----------------------------------------------------------------------------
(* The adapter: what the answer to a request leads to. *)

SlipFindName(c) ==  \* any user of that name is taken for the command's own
  /\ pc[c] = "name"
  /\ Goto(c, IF user[NameOf[c]] = Absent THEN "search" ELSE "ok")
  /\ UNCHANGED <<realm, att, last>>

\* create_disabled: a user of that name is the command's own, or a conflict.
FindName(c) ==
  /\ pc[c] = "name"
  /\ Goto(c, CASE user[NameOf[c]] = Absent -> "search"
               [] user[NameOf[c]] # Absent ->
                    IF user[NameOf[c]].key = c THEN "ok" ELSE "failed")
  /\ UNCHANGED <<realm, att, last>>

\* create_disabled: nobody may have the employee_id yet.
FindIdentity(c) ==
  /\ pc[c] = "search" /\ OpOf[c] = "create_disabled"
  /\ Goto(c, IF Found(EmpOf[c]) = {} THEN "post" ELSE "failed")
  /\ UNCHANGED <<realm, att, last>>

\* _user_for_command: exactly one user has the employee_id.
FindUser(c) ==
  /\ pc[c] = "search" /\ OpOf[c] # "create_disabled"
  /\ \/ /\ Cardinality(Found(EmpOf[c])) # 1
        /\ Goto(c, "failed")
     \/ /\ Cardinality(Found(EmpOf[c])) = 1
        /\ \E n \in Found(EmpOf[c]), l \in AfterSearch(OpOf[c]) :
             Proceed(c, l, [name |-> n, key |-> user[n].key,
                            actions |-> user[n].actions])
  /\ UNCHANGED <<realm, att, last>>

\* verify: the required actions of the user as read must still be there.
Snapshot(c) ==
  /\ pc[c] = "snapshot"
  /\ Goto(c, IF seen[c].actions THEN "ok" ELSE "failed")
  /\ UNCHANGED <<realm, att, last>>

\* A write is applied and answered; POST of an existing username is refused.
Write(c) ==
  /\ pc[c] \in Writes
  /\ pc[c] = "post" => user[NameOf[c]] = Absent
  /\ user' = Applied(Pending(c))
  /\ Goto(c, AfterWrite(c))
  /\ UNCHANGED <<late, lates, att, last>>

\* A request is refused: 403, 409 or another unexpected status, or an attribute or
\* entitlement that is not approved.
Refuse(c) ==
  /\ InFlight(c)
  /\ Goto(c, "failed")
  /\ UNCHANGED <<realm, att, last>>

\* A request is given up: a timeout, a network error, 429 or 5xx, or a crash of
\* the service.  A write may have been applied nevertheless, or be applied later.
GiveUp(c) ==
  /\ InFlight(c)
  /\ \/ UNCHANGED realm
     \/ /\ pc[c] \in Writes
        /\ user' = Applied(Pending(c))
        /\ UNCHANGED <<late, lates>>
     \/ /\ pc[c] \in Writes /\ lates < MaxLate
        /\ late' = late \cup {Pending(c)}
        /\ lates' = lates + 1
        /\ UNCHANGED user
  /\ Goto(c, GivenUp(c))
  /\ UNCHANGED <<att, last>>

-----------------------------------------------------------------------------
(* Keycloak and its users. *)

ApplyLate(w) ==
  /\ user' = Applied(w)
  /\ late' = late \ {w}
  /\ UNCHANGED <<lates, pc, att, seen, verified, last>>

\* A user of an enabled account completes its required actions and is logged in.
Login(n) ==
  /\ user[n] # Absent /\ user[n].enabled
  /\ user' = [user EXCEPT ![n].actions = FALSE, ![n].session = TRUE]
  /\ UNCHANGED <<late, lates, pc, att, seen, verified, last>>

-----------------------------------------------------------------------------
Init ==
  /\ user = [n \in Names |-> Absent]
  /\ late = {} /\ lates = 0
  /\ pc = [c \in Commands |-> "todo"]
  /\ att = [c \in Commands |-> 0]
  /\ seen = [c \in Commands |-> None]
  /\ verified = {}
  /\ last = [e \in Employees |-> None]

Next ==
  \/ \E c \in Commands :
       \/ Start(c) \/ FindName(c) \/ FindIdentity(c) \/ FindUser(c)
       \/ Snapshot(c) \/ Write(c) \/ Refuse(c) \/ GiveUp(c)
  \/ \E w \in late : ApplyLate(w)
  \/ \E n \in Names : Login(n)

Spec == Init /\ [][Next]_vars

-----------------------------------------------------------------------------
(* Properties. *)

\* The lifecycle_state attribute never claims more or less than the account:
\* whatever is retried, lost or applied late (update, activate and _set_enabled
\* all rewrite the attributes), "active" is enabled, "suspended" and
\* "terminated" are not.
LifecycleTellsAccess ==
  \A n \in Names : user[n] # Absent =>
    /\ user[n].life = "active" => user[n].enabled
    /\ user[n].life \in {"suspended", "terminated"} => ~user[n].enabled

\* create_disabled succeeds only on an account of its own employee, whatever
\* name clashes, retries and foreign updates of the idempotency key there were.
OwnUser ==
  \A c \in Commands :
    OpOf[c] = "create_disabled" /\ pc[c] = "ok" => user[NameOf[c]].emp = EmpOf[c]

\* No employee gets a second account (create_disabled searches employee_id
\* before it posts), as long as no write is applied after it was given up.
OneUserPerEmployee ==
  lates = 0 => \A e \in Employees : Cardinality(Found(e)) <= 1

\* Once the last command that set an employee's access, a suspension or
\* termination, has succeeded, the account is disabled and nobody is logged in,
\* logins at any moment of _set_enabled included, as long as no write is late.
SuspendedIsOut ==
  lates = 0 =>
    \A e \in Employees, n \in Names :
      /\ user[n].emp = e
      /\ last[e] # None => pc[last[e]] = "ok" /\ OpOf[last[e]] \in Disabling
      /\ last[e] # None
      => ~user[n].enabled /\ ~user[n].session

\* A step is "independently idempotent" (README.md): a creation that reports
\* success has applied the groups and roles it was asked for, however many
\* attempts it took.
CreatedIsEntitled ==
  \A c \in Commands :
    OpOf[c] = "create_disabled" /\ pc[c] = "ok"
      => user[NameOf[c]].entitled
=============================================================================
