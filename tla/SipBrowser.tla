----------------------------- MODULE SipBrowser -----------------------------
(***************************************************************************)
(* SIP browser sessions: app/sip_browser.py over sip_browser_sessions.     *)
(*                                                                         *)
(* create, renew and revoke read the session table, await a credential     *)
(* rotation at the SIP provider and then write the table.  They take no    *)
(* lock: what they read may have changed when the rotation returns, and    *)
(* rotations of several calls reach the provider in any order.  A session  *)
(* carries the name of the call that created it, and a credential that of  *)
(* the call whose rotation installed it.                                   *)
(*                                                                         *)
(* The manager serves ONE phone, self.endpoint: every employee whose SIP   *)
(* command names it shares its credential, and a rotation for one of them  *)
(* displaces the credential of the others.                                 *)
(***************************************************************************)
EXTENDS Naturals

CONSTANTS
  Calls,      \* API calls, one coroutine each (a bound)
  Employees,
  Bindings,   \* browser_session_binding values clients send
  None,
  MaxChanges  \* bound on changes that the provisioning engine makes meanwhile

ASSUME SipConstants == None \notin Calls \cup Employees /\ MaxChanges \in Nat

VARIABLES
  \* Table sip_browser_sessions.
  sess,      \* state of a row, "absent" when there is none
  owner,     \* employee_id
  binding,   \* browser_session_binding
  fp,        \* credential_fingerprint: the call that issued the credential
  overdue,   \* rows whose expires_at has passed
  \* The provider and the identity tables.
  secret,    \* the credential the phone accepts, None when no call installed it
  identity,  \* "valid": _validated_command accepts the employee; "moved": the
             \* employee's SIP command names another phone
  changes,
  \* The coroutines.
  pc,        \* "new", awaiting "create", "renew" or "revoke", "ended", "failed"
  target,    \* the session a call works on
  landed,    \* calls whose rotation has taken effect
  astray,    \* revocations that rotate another phone
  \* History, which CredentialsMatch reads.
  alone,     \* the call in flight that has had the phone to itself so far
  sure       \* the employee of the last rotation, if that was alone and answered

rowvars == <<sess, owner, binding, fp, overdue>>
extvars == <<secret, identity, changes>>
history == <<alone, sure>>
vars == <<rowvars, extvars, pc, target, landed, astray, history>>

TypeOK ==
  /\ sess \in [Calls -> {"absent", "active", "expired", "revoked"}]
  /\ owner \in [Calls -> Employees \cup {None}]
  /\ binding \in [Calls -> Bindings \cup {None}]
  /\ fp \in [Calls -> Calls \cup {None}]
  /\ overdue \subseteq Calls
  /\ secret \in Calls \cup {None}
  /\ identity \in [Employees -> {"valid", "invalid", "moved"}]
  /\ changes \in Nat
  /\ pc \in [Calls -> {"new", "create", "renew", "revoke", "ended", "failed"}]
  /\ target \in [Calls -> Calls \cup {None}]
  /\ landed \subseteq Calls /\ astray \subseteq Calls
  /\ alone \in Calls \cup {None} /\ sure \in Employees \cup {None}

Awaiting == {"create", "renew", "revoke"}

\* The calls that await a rotation.
InFlight == {p \in Calls : pc[p] \in Awaiting}

\* UPDATE ... SET state='expired' for the overdue rows of S.
Expire(S) ==
  sess' = [s \in Calls |-> IF s \in S \cap overdue /\ sess[s] = "active"
                           THEN "expired" ELSE sess[s]]

Sessions(e) == {s \in Calls : sess[s] # "absent" /\ owner[s] = e}

\* A call is refused, or goes on to await its rotation of this phone or another.
Proceed(p, ok, label, here) ==
  /\ pc' = [pc EXCEPT ![p] = IF ok THEN label ELSE "ended"]
  /\ alone' = IF ~ok THEN alone ELSE IF InFlight = {} /\ here THEN p ELSE None
  /\ astray' = IF ok /\ ~here THEN astray \cup {p} ELSE astray
  /\ UNCHANGED sure

\* The rotation of p is over; certain says whether the call has learnt its outcome.
Return(p, certain) ==
  /\ pc' = [pc EXCEPT ![p] = IF certain THEN "ended" ELSE "failed"]
  /\ alone' = IF alone = p THEN None ELSE alone
  /\ sure' = IF certain /\ alone = p THEN owner[target[p]]
             ELSE IF p \in landed THEN None ELSE sure

\* The phone's credential changes while no call of this module awaits the answer.
Displaced == alone' = None /\ sure' = None

-----------------------------------------------------------------------------
(* Up to the await. *)

SlipStartCreate(p, e, b) ==  \* without the look at active sessions
  /\ pc[p] = "new"
  /\ Proceed(p, identity[e] = "valid", "create", TRUE)
  /\ owner' = [owner EXCEPT ![p] = e]
  /\ binding' = [binding EXCEPT ![p] = b]
  /\ target' = [target EXCEPT ![p] = p]
  /\ UNCHANGED <<sess, fp, overdue, extvars, landed>>

\* create: refused while an active session exists (after expiring overdue
\* ones) or when the identity binding does not hold.
StartCreate(p, e, b) ==
  /\ pc[p] = "new"
  /\ Expire(Sessions(e))
  /\ LET ok == identity[e] = "valid" /\ \A s \in Sessions(e) : sess'[s] # "active" IN
     Proceed(p, ok, "create", TRUE)
  /\ owner' = [owner EXCEPT ![p] = e]
  /\ binding' = [binding EXCEPT ![p] = b]
  /\ target' = [target EXCEPT ![p] = p]
  /\ UNCHANGED <<fp, overdue, extvars, landed>>

\* _active: the named session, expired first if overdue, with this binding.
Active(s, b) == sess'[s] = "active" /\ binding[s] = b

\* renew validates the identity again.  revoke does not: it rotates whatever phone the
\* employee's SIP command names now.
StartAction(p, k, s, b) ==
  /\ pc[p] = "new" /\ sess[s] # "absent"
  /\ Expire({s})
  /\ LET ok == Active(s, b) /\ (k = "renew" => identity[owner[s]] = "valid") IN
     Proceed(p, ok, k, identity[owner[s]] # "moved")
  /\ target' = [target EXCEPT ![p] = s]
  /\ UNCHANGED <<owner, binding, fp, overdue, extvars, landed>>

\* config reads a session; all it changes is an overdue state.
Config(s) ==
  /\ sess[s] = "active" /\ s \in overdue
  /\ Expire({s})
  /\ UNCHANGED <<owner, binding, fp, overdue, extvars, pc, target, landed, astray, history>>

-----------------------------------------------------------------------------
(* The rotation, and what follows it. *)

\* The provider installs the new credential, perhaps when the adapter has given up;
\* after a revocation nobody knows it.
Land(p) ==
  /\ pc[p] \in Awaiting \cup {"failed"} /\ p \notin landed
  /\ landed' = landed \cup {p}
  /\ secret' = IF p \in astray THEN secret ELSE p
  /\ IF pc[p] = "failed" /\ p \notin astray THEN Displaced ELSE UNCHANGED history
  /\ UNCHANGED <<rowvars, identity, changes, pc, target, astray>>

SlipFail(p) ==  \* revoke ignores the adapter's error
  /\ pc[p] \in Awaiting
  /\ Return(p, FALSE)
  /\ sess' = IF pc[p] = "revoke" THEN [sess EXCEPT ![target[p]] = "revoked"] ELSE sess
  /\ UNCHANGED <<owner, binding, fp, overdue, extvars, target, landed, astray>>

\* An adapter error, or a crash: the rotation may have landed, or land later.
Fail(p) ==
  /\ pc[p] \in Awaiting
  /\ Return(p, FALSE)
  /\ UNCHANGED <<rowvars, extvars, target, landed, astray>>

\* The unique constraints: one active row per employee, one row per binding.
Insertable(p) ==
  /\ \A s \in Sessions(owner[p]) : sess[s] # "active"
  /\ \A s \in Calls : sess[s] # "absent" => binding[s] # binding[p]

SlipFinishCreate(p) ==  \* writes the state the caller asked for
  /\ pc[p] = "create" /\ p \in landed
  /\ sess' = [sess EXCEPT ![p] = "create"]
  /\ Return(p, TRUE)
  /\ UNCHANGED <<owner, binding, fp, overdue, extvars, target, landed, astray>>

FinishCreate(p) ==
  /\ pc[p] = "create" /\ p \in landed
  /\ IF Insertable(p)
     THEN /\ sess' = [sess EXCEPT ![p] = "active"]
          /\ fp' = [fp EXCEPT ![p] = p]
     ELSE UNCHANGED <<sess, fp>>
  /\ Return(p, TRUE)
  /\ UNCHANGED <<owner, binding, overdue, extvars, target, landed, astray>>

SlipFinishRenew(p) ==  \* UPDATE without AND state='active'
  /\ pc[p] = "renew" /\ p \in landed
  /\ fp' = [fp EXCEPT ![target[p]] = p]
  /\ overdue' = overdue \ {target[p]}
  /\ Return(p, TRUE)
  /\ UNCHANGED <<sess, owner, binding, extvars, target, landed, astray>>

\* renew_sip_browser_session: only an active row gets the new credential.
FinishRenew(p) ==
  /\ pc[p] = "renew" /\ p \in landed
  /\ IF sess[target[p]] = "active"
     THEN /\ fp' = [fp EXCEPT ![target[p]] = p]
          /\ overdue' = overdue \ {target[p]}
     ELSE UNCHANGED <<fp, overdue>>
  /\ Return(p, TRUE)
  /\ UNCHANGED <<sess, owner, binding, extvars, target, landed, astray>>

\* revoke_sip_browser_session: a row that expired meanwhile stays expired.
FinishRevoke(p) ==
  /\ pc[p] = "revoke" /\ p \in landed
  /\ sess' = [sess EXCEPT ![target[p]] = IF @ = "active" THEN "revoked" ELSE @]
  /\ Return(p, TRUE)
  /\ UNCHANGED <<owner, binding, fp, overdue, extvars, target, landed, astray>>

-----------------------------------------------------------------------------

\* expires_at passes.
Elapse(s) ==
  /\ sess[s] = "active" /\ s \notin overdue
  /\ overdue' = overdue \cup {s}
  /\ UNCHANGED <<sess, owner, binding, fp, extvars, pc, target, landed, astray, history>>

\* The engine activates or suspends the identity, or moves it from phone to phone.
ChangeIdentity(e, v) ==
  /\ changes < MaxChanges /\ v # identity[e]
  /\ changes' = changes + 1
  /\ identity' = [identity EXCEPT ![e] = v]
  /\ UNCHANGED <<rowvars, secret, pc, target, landed, astray, history>>

\* A rotate_credentials request of the engine rotates the phone.
RotatePhone ==
  /\ changes < MaxChanges
  /\ changes' = changes + 1
  /\ secret' = None
  /\ Displaced
  /\ UNCHANGED <<rowvars, identity, pc, target, landed, astray>>

Init ==
  /\ sess = [s \in Calls |-> "absent"]
  /\ owner = [s \in Calls |-> None]
  /\ binding = [s \in Calls |-> None]
  /\ fp = [s \in Calls |-> None]
  /\ overdue = {} /\ landed = {} /\ astray = {} /\ changes = 0
  /\ secret = None /\ alone = None /\ sure = None
  /\ identity = [e \in Employees |-> "valid"]
  /\ pc = [p \in Calls |-> "new"]
  /\ target = [p \in Calls |-> None]

Next ==
  \/ \E p \in Calls, b \in Bindings :
       \/ \E e \in Employees : StartCreate(p, e, b)
       \/ \E s \in Calls, k \in {"renew", "revoke"} : StartAction(p, k, s, b)
  \/ \E p \in Calls : \/ Land(p) \/ Fail(p)
                      \/ FinishCreate(p) \/ FinishRenew(p) \/ FinishRevoke(p)
  \/ \E s \in Calls : Config(s) \/ Elapse(s)
  \/ \E e \in Employees, v \in {"valid", "invalid", "moved"} : ChangeIdentity(e, v)
  \/ RotatePhone

Spec == Init /\ [][Next]_vars

-----------------------------------------------------------------------------

\* When the last rotation of the phone was alone and answered, rows and provider agree
\* on its employee: the active session carries the credential that the phone accepts, a
\* revoked one does not, and no other employee's session works, since the phone is
\* shared.  create, renew and revoke change row and phone both or neither, and one that
\* runs alone repairs what overlapping, lost and late ones left.
CredentialsMatch ==
  sure # None /\ InFlight = {} =>
    /\ \A s \in Sessions(sure) : sess[s] = "active" => fp[s] = secret
    /\ \A s \in Calls : sess[s] = "revoked" => fp[s] # secret
    /\ \A s \in Calls : sess[s] = "active" /\ fp[s] = secret => owner[s] = sure

\* A session that expired or was revoked stays so and receives no credential,
\* also when a renewal or a revocation of it was in flight at that moment.
EndedStaysEnded ==
  [][\A s \in Calls : sess[s] \in {"expired", "revoked"}
                      => sess'[s] = sess[s] /\ fp'[s] = fp[s]]_vars

\* A session is marked revoked only when the phone no longer accepts the credential the
\* session was created with, whatever answers were lost or come late, unless its employee
\* had moved to another phone before the revocation.  (A credential that a renewal
\* obtains while the revocation is in flight can survive it.)
RevokedIsRotated ==
  \A s \in Calls : sess[s] = "revoked" =>
    secret # s \/ \E p \in astray : target[p] = s
=============================================================================
