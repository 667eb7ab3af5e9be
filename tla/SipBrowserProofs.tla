-------------------------- MODULE SipBrowserProofs --------------------------
(***************************************************************************)
(* Machine-checked proofs about SipBrowser, for any number of calls,       *)
(* employees and bindings.                                                 *)
(*                                                                         *)
(* 1. Types, and what the place of a coroutine says of its session         *)
(*    (Placed): a call rotates before its own row appears, and once only.  *)
(* 2. A revoked session's creation credential was replaced (Replaced),     *)
(*    unless the revocation went astray.                                   *)
(* 3. Rows and phone agree on the employee who rotated last (MatchInv),    *)
(*    from what a call knows that had the phone to itself (AloneInv).      *)
(***************************************************************************)
EXTENDS SipBrowser, TLAPS

\* What the place of a coroutine says of its session, and a row or a fingerprint of
\* the call it is named after.
PlacedAt(p) ==
  /\ pc[p] = "create" => target[p] = p /\ owner[p] \in Employees
  /\ pc[p] \in {"renew", "revoke"}
     => target[p] \in Calls /\ sess[target[p]] # "absent"
  /\ sess[p] # "absent" => pc[p] = "ended" /\ owner[p] \in Employees
  /\ pc[p] = "new" => p \notin landed /\ p \notin astray
  /\ fp[p] # None => pc[fp[p]] = "ended"

Placed == \A p \in Calls : PlacedAt(p)

\* The rotation of a renewal or a revocation replaces the credential that the
\* creation of its session installed.
Replaced ==
  \A p \in Calls : pc[p] \in {"renew", "revoke"} /\ p \in landed
                   => secret # target[p] \/ p \in astray

\* One session of an employee is active at most.
OneActive ==
  \A s, u \in Calls : /\ sess[s] = "active" /\ sess[u] = "active"
                      /\ owner[s] = owner[u]
                      => s = u

\* What a call knows that has had the phone to itself.
AloneAt(p) ==
  /\ pc[p] \in Awaiting /\ InFlight = {p} /\ p \notin astray
  /\ p \in landed => secret = p
  /\ \A s \in Calls : sess[s] = "active" /\ owner[s] = owner[target[p]]
                      => pc[p] # "create" /\ s = target[p]

AloneInv == \A p \in Calls : p = alone => AloneAt(p)

\* Rows and phone agree, and the phone is e's.
Match(e) ==
  /\ \A s \in Sessions(e) : sess[s] = "active" => fp[s] = secret
  /\ \A s \in Calls : sess[s] = "revoked" => fp[s] # secret
  /\ \A s \in Calls : sess[s] = "active" /\ fp[s] = secret => owner[s] = e

MatchInv == \A e \in Employees : e = sure /\ InFlight \cap landed = {} => Match(e)

\* A call up to its await: the session t it works on, the employee e, whether it
\* goes on (ok), which kind of call it is (k), and whether it rotates this phone (here).
StartsOn(p, e, t, ok, k, here) ==
  /\ pc[p] = "new" /\ Proceed(p, ok, k, here)
  /\ \E S : Expire(S)
  /\ target' = [target EXCEPT ![p] = t]
  /\ owner'[t] = e /\ \A q \in Calls \ {p} : owner'[q] = owner[q]
  /\ k = "create" => t = p /\ (ok => \A s \in Sessions(e) : sess'[s] # "active")
  /\ k # "create" => /\ sess[t] # "absent" /\ UNCHANGED owner
                     /\ ok => sess'[t] = "active"
  /\ UNCHANGED <<fp, overdue, extvars, landed>>

\* create, renew and revoke start alike.
LEMMA StartFacts ==
  ASSUME TypeOK, Placed, NEW p \in Calls, NEW b,
         \/ \E e \in Employees : StartCreate(p, e, b)
         \/ \E s \in Calls, k \in {"renew", "revoke"} : StartAction(p, k, s, b)
  PROVE  \E e \in Employees, t \in Calls, ok \in BOOLEAN, k \in Awaiting, here \in BOOLEAN :
           StartsOn(p, e, t, ok, k, here)
<1>1. ASSUME NEW e \in Employees, StartCreate(p, e, b)
      PROVE  \E ok \in BOOLEAN : StartsOn(p, e, p, ok, "create", TRUE)
  <2> DEFINE ok == identity[e] = "valid" /\ \A s \in Sessions(e) : sess'[s] # "active"
  <2>1. ok \in BOOLEAN
    OBVIOUS
  <2>2. StartsOn(p, e, p, ok, "create", TRUE)
    BY <1>1 DEF StartCreate, StartsOn, TypeOK
  <2> QED BY <2>1, <2>2
<1>2. ASSUME NEW s \in Calls, NEW k \in {"renew", "revoke"}, StartAction(p, k, s, b)
      PROVE  owner[s] \in Employees
             /\ \E ok \in BOOLEAN, here \in BOOLEAN : StartsOn(p, owner[s], s, ok, k, here)
  <2> DEFINE ok == Active(s, b) /\ (k = "renew" => identity[owner[s]] = "valid")
             here == identity[owner[s]] # "moved"
  <2>1. owner[s] \in Employees
    BY <1>2 DEF StartAction, Placed, PlacedAt
  <2>2. ok \in BOOLEAN /\ here \in BOOLEAN
    BY DEF Active
  <2>3. StartsOn(p, owner[s], s, ok, k, here)
    BY <1>2 DEF StartAction, StartsOn, Active
  <2> QED BY <2>1, <2>2, <2>3
<1> QED BY <1>1, <1>2 DEF Awaiting

\* Expiring rows neither creates nor revokes one.
LEMMA ExpireFacts ==
  ASSUME TypeOK, NEW S, Expire(S)
  PROVE  /\ sess' \in [Calls -> {"absent", "active", "expired", "revoked"}]
         /\ \A s \in Calls : /\ sess'[s] = sess[s] \/ (sess[s] = "active" /\ sess'[s] = "expired")
  BY DEF Expire, TypeOK

\* Nothing is in flight, stored or installed at the start.
LEMMA SipInit ==
  Init => TypeOK /\ Placed /\ Replaced /\ OneActive /\ AloneInv /\ MatchInv
  BY SipConstants DEF Init, TypeOK, Placed, PlacedAt, Replaced, OneActive, AloneInv,
     MatchInv

\* Every call, rotation, expiry and identity change keeps the types.
LEMMA TypeStep == TypeOK /\ Placed /\ [Next]_vars => TypeOK'
<1> SUFFICES ASSUME TypeOK, Placed, [Next]_vars PROVE TypeOK'
  OBVIOUS
<1> USE DEF rowvars, extvars, history
<1>1. ASSUME NEW p \in Calls, NEW b \in Bindings, NEW e \in Employees,
             StartCreate(p, e, b)
      PROVE  TypeOK'
  <2>1. sess' \in [Calls -> {"absent", "active", "expired", "revoked"}]
    BY <1>1, ExpireFacts DEF StartCreate
  <2>2. pc' \in [Calls -> {"new", "create", "renew", "revoke", "ended", "failed"}]
    BY <1>1 DEF StartCreate, Proceed, TypeOK
  <2>3. alone' \in Calls \cup {None} /\ astray' \subseteq Calls /\ UNCHANGED sure
    BY <1>1 DEF StartCreate, Proceed, TypeOK
  <2> QED BY <1>1, <2>1, <2>2, <2>3 DEF StartCreate, TypeOK
<1>2. ASSUME NEW p \in Calls, NEW s \in Calls, NEW k \in {"renew", "revoke"}, NEW b,
             StartAction(p, k, s, b)
      PROVE  TypeOK'
  <2>1. sess' \in [Calls -> {"absent", "active", "expired", "revoked"}]
    BY <1>2, ExpireFacts DEF StartAction
  <2>2. pc' \in [Calls -> {"new", "create", "renew", "revoke", "ended", "failed"}]
    BY <1>2 DEF StartAction, Proceed, TypeOK
  <2>3. alone' \in Calls \cup {None} /\ astray' \subseteq Calls /\ UNCHANGED sure
    BY <1>2 DEF StartAction, Proceed, TypeOK
  <2> QED BY <1>2, <2>1, <2>2, <2>3 DEF StartAction, TypeOK
<1>3. ASSUME NEW p \in Calls, NEW c \in BOOLEAN, pc[p] \in Awaiting, Return(p, c)
      PROVE  /\ pc' \in [Calls -> {"new", "create", "renew", "revoke", "ended", "failed"}]
             /\ alone' \in Calls \cup {None} /\ sure' \in Employees \cup {None}
  <2>1. owner[target[p]] \in Employees /\ target[p] \in Calls
    BY <1>3 DEF Awaiting, Placed, PlacedAt
  <2> QED BY <1>3, <2>1 DEF Return, TypeOK
<1>4. ASSUME NEW p \in Calls, Land(p) PROVE TypeOK'
  BY <1>4 DEF Land, Displaced, TypeOK
<1>5. ASSUME NEW p \in Calls, Fail(p) PROVE TypeOK'
  BY <1>3, <1>5 DEF Fail, TypeOK
<1>6. ASSUME NEW p \in Calls, FinishCreate(p) PROVE TypeOK'
  <2>1. /\ pc' \in [Calls -> {"new", "create", "renew", "revoke", "ended", "failed"}]
        /\ alone' \in Calls \cup {None} /\ sure' \in Employees \cup {None}
    BY <1>3, <1>6 DEF FinishCreate, Awaiting
  <2> QED BY <1>6, <2>1 DEF FinishCreate, TypeOK
<1>7. ASSUME NEW p \in Calls, FinishRenew(p) PROVE TypeOK'
  <2>1. /\ pc' \in [Calls -> {"new", "create", "renew", "revoke", "ended", "failed"}]
        /\ alone' \in Calls \cup {None} /\ sure' \in Employees \cup {None}
    BY <1>3, <1>7 DEF FinishRenew, Awaiting
  <2> QED BY <1>7, <2>1 DEF FinishRenew, TypeOK
<1>8. ASSUME NEW p \in Calls, FinishRevoke(p) PROVE TypeOK'
  <2>1. /\ pc' \in [Calls -> {"new", "create", "renew", "revoke", "ended", "failed"}]
        /\ alone' \in Calls \cup {None} /\ sure' \in Employees \cup {None}
    BY <1>3, <1>8 DEF FinishRevoke, Awaiting
  <2> QED BY <1>8, <2>1 DEF FinishRevoke, TypeOK
<1>9. ASSUME NEW s \in Calls, Config(s) PROVE TypeOK'
  BY <1>9, ExpireFacts DEF Config, TypeOK
<1>10. ASSUME NEW s \in Calls, Elapse(s) PROVE TypeOK'
  BY <1>10 DEF Elapse, TypeOK
<1>11. ASSUME NEW e \in Employees, NEW v \in {"valid", "invalid", "moved"},
              ChangeIdentity(e, v)
       PROVE  TypeOK'
  BY <1>11 DEF ChangeIdentity, TypeOK
<1>12. CASE RotatePhone
  BY <1>12 DEF RotatePhone, Displaced, TypeOK
<1>13. CASE UNCHANGED vars
  BY <1>13 DEF vars, TypeOK
<1> QED BY <1>1, <1>2, <1>4, <1>5, <1>6, <1>7, <1>8, <1>9, <1>10, <1>11, <1>12, <1>13
        DEF Next

\* A call that returns moves itself only.
LEMMA ReturnMoves ==
  ASSUME TypeOK, NEW p \in Calls, NEW c \in BOOLEAN, Return(p, c)
  PROVE  pc'[p] \in {"ended", "failed"} /\ (c => pc'[p] = "ended")
         /\ \A q \in Calls \ {p} : pc'[q] = pc[q]
  BY DEF Return, TypeOK

\* A call that goes on to its rotation, or is refused, moves itself only.
LEMMA StartMoves ==
  ASSUME TypeOK, NEW p \in Calls, NEW e \in Employees, NEW t \in Calls,
         NEW ok \in BOOLEAN, NEW k \in Awaiting, NEW here \in BOOLEAN,
             StartsOn(p, e, t, ok, k, here)
  PROVE  /\ pc[p] = "new" /\ (ok => pc'[p] = k) /\ (~ok => pc'[p] = "ended")
         /\ target'[p] = t
         /\ \A q \in Calls \ {p} : pc'[q] = pc[q] /\ target'[q] = target[q]
  BY DEF StartsOn, Proceed, TypeOK

\* The statements after the rotation: what they do to rows and fingerprints.
LEMMA Finishes ==
  ASSUME TypeOK, Placed, NEW p \in Calls,
         FinishCreate(p) \/ FinishRenew(p) \/ FinishRevoke(p) \/ Fail(p)
  PROVE  /\ pc[p] \in Awaiting /\ \E c \in BOOLEAN : Return(p, c)
         /\ UNCHANGED <<owner, extvars, target, landed, astray>>
         /\ (~Fail(p) => p \in landed /\ Return(p, TRUE))
         /\ target[p] \in Calls /\ owner[target[p]] \in Employees
         /\ \A s \in Calls :
              \/ sess'[s] = sess[s] /\ fp'[s] = fp[s]
              \/ /\ s = p /\ sess[s] = "absent" /\ sess'[s] = "active" /\ fp'[s] = p
                 /\ FinishCreate(p) /\ Insertable(p)
              \/ /\ s = target[p] /\ sess[s] = "active" /\ sess'[s] = "active"
                 /\ fp'[s] = p /\ FinishRenew(p)
              \/ /\ s = target[p] /\ sess[s] = "active" /\ sess'[s] = "revoked"
                 /\ fp'[s] = fp[s] /\ FinishRevoke(p)
<1> USE DEF rowvars
<1>1. /\ pc[p] \in Awaiting /\ target[p] \in Calls /\ owner[target[p]] \in Employees
      /\ sess[p] = "absent"
  <2>1. pc[p] \in Awaiting
    BY DEF FinishCreate, FinishRenew, FinishRevoke, Fail, Awaiting
  <2>2. target[p] \in Calls /\ owner[target[p]] \in Employees
    BY <2>1 DEF Awaiting, Placed, PlacedAt
  <2>3. sess[p] = "absent"
    BY <2>1 DEF Awaiting, Placed, PlacedAt
  <2> QED BY <2>1, <2>2, <2>3
<1>2. CASE FinishCreate(p)
  BY <1>1, <1>2 DEF FinishCreate, TypeOK
<1>3. CASE FinishRenew(p)
  BY <1>1, <1>3 DEF FinishRenew, TypeOK
<1>4. CASE FinishRevoke(p)
  BY <1>1, <1>4 DEF FinishRevoke, TypeOK
<1>5. CASE Fail(p)
  BY <1>1, <1>5 DEF Fail
<1> QED BY <1>2, <1>3, <1>4, <1>5

\* Rows outlive the calls that created them, and coroutines aim at rows.
LEMMA PlacedStep == TypeOK /\ Placed /\ [Next]_vars => Placed'
<1> SUFFICES ASSUME TypeOK, Placed, [Next]_vars, NEW q \in Calls PROVE PlacedAt(q)'
  BY DEF Placed
<1> USE DEF rowvars, extvars, history
<1>0. PlacedAt(q) /\ \A s \in Calls : PlacedAt(s)
  BY DEF Placed
<1>1. ASSUME NEW p \in Calls, NEW e \in Employees, NEW t \in Calls,
             NEW ok \in BOOLEAN, NEW k \in Awaiting, NEW here \in BOOLEAN,
             StartsOn(p, e, t, ok, k, here)
      PROVE  PlacedAt(q)'
  <2>1. PICK S : Expire(S)
    BY <1>1 DEF StartsOn
  <2>2. \A s \in Calls : sess'[s] # "absent" <=> sess[s] # "absent"
    BY <2>1, ExpireFacts
  <2>3. UNCHANGED <<fp, landed>> /\ \A x \in Calls \ {p} : x \in astray' => x \in astray
    BY <1>1 DEF StartsOn, Proceed
  <2>4. /\ pc[p] = "new" /\ (pc'[p] = k \/ pc'[p] = "ended") /\ target'[p] = t
        /\ \A x \in Calls \ {p} : pc'[x] = pc[x] /\ target'[x] = target[x]
        /\ \A x \in Calls \ {p} : owner'[x] = owner[x]
        /\ owner'[t] = e
    <3>1. owner'[t] = e /\ \A x \in Calls \ {p} : owner'[x] = owner[x]
      BY <1>1 DEF StartsOn
    <3>2. /\ pc[p] = "new" /\ (ok => pc'[p] = k) /\ (~ok => pc'[p] = "ended")
          /\ target'[p] = t
          /\ \A x \in Calls \ {p} : pc'[x] = pc[x] /\ target'[x] = target[x]
      BY <1>1, StartMoves
    <3> QED BY <3>1, <3>2
  <2>5. CASE q # p
    <3>1. fp[q] # None => fp[q] \in Calls \ {p}
      BY <1>0, <2>4 DEF PlacedAt, TypeOK
    <3> QED BY <1>0, <2>2, <2>3, <2>4, <2>5, <3>1 DEF PlacedAt
  <2>6. CASE q = p
    <3>1. sess[p] = "absent" /\ sess'[p] = "absent"
      BY <1>0, <2>2, <2>4 DEF PlacedAt
    <3>2. fp[p] # None => fp[p] \in Calls \ {p}
      BY <1>0, <2>4 DEF PlacedAt, TypeOK
    <3>3. pc'[p] = "create" => t = p
      BY <1>1, <2>4 DEF StartsOn
    <3>4. pc'[p] \in {"renew", "revoke"} => sess[t] # "absent"
      BY <1>1, <2>4 DEF StartsOn
    <3>5. pc'[p] # "new"
      BY <2>4 DEF Awaiting
    <3> QED BY <1>0, <2>2, <2>3, <2>4, <2>6, <3>1, <3>2, <3>3, <3>4, <3>5 DEF PlacedAt
  <2> QED BY <2>5, <2>6
<1>2. ASSUME NEW p \in Calls, NEW b \in Bindings,
             \/ \E e \in Employees : StartCreate(p, e, b)
             \/ \E s \in Calls, k \in {"renew", "revoke"} : StartAction(p, k, s, b)
      PROVE  PlacedAt(q)'
  BY <1>1, <1>2, StartFacts
<1>3. ASSUME NEW p \in Calls, Land(p) PROVE PlacedAt(q)'
  <2>1. /\ UNCHANGED <<sess, owner, fp, pc, target, astray>> /\ pc[p] # "new"
        /\ landed' = landed \cup {p}
    BY <1>3 DEF Land, Awaiting
  <2> QED BY <1>0, <2>1 DEF PlacedAt
<1>4. ASSUME NEW p \in Calls,
             FinishCreate(p) \/ FinishRenew(p) \/ FinishRevoke(p) \/ Fail(p)
      PROVE  PlacedAt(q)'
  <2>1. /\ pc[p] \in Awaiting /\ pc'[p] \in {"ended", "failed"}
        /\ (~Fail(p) => pc'[p] = "ended")
        /\ \A x \in Calls \ {p} : pc'[x] = pc[x]
        /\ UNCHANGED <<owner, target, landed, astray>>
    BY <1>4, Finishes, ReturnMoves
  <2>0. Fail(p) => UNCHANGED <<sess, fp>>
    BY DEF Fail
  <2>2. \A s \in Calls : /\ sess[s] # "absent" => sess'[s] # "absent"
                         /\ sess'[s] # "absent" => sess[s] # "absent" \/ s = p
                         /\ fp'[s] = fp[s] \/ fp'[s] = p
    BY <1>4, Finishes
  <2>3. owner[p] \in Employees \/ sess'[p] = "absent"
    <3>1. CASE FinishCreate(p)
      BY <1>0, <3>1 DEF FinishCreate, PlacedAt
    <3>2. CASE ~FinishCreate(p)
      <4>1. sess'[p] # "absent" => sess[p] # "absent"
        BY <1>4, <3>2, Finishes
      <4> QED BY <1>0, <4>1 DEF PlacedAt
    <3> QED BY <3>1, <3>2
  <2>4. fp[q] # None => fp[q] \in Calls /\ fp[q] # p /\ pc'[fp[q]] = "ended"
    BY <1>0, <2>1 DEF PlacedAt, TypeOK, Awaiting
  <2>5. fp'[q] # None => pc'[fp'[q]] = "ended"
    BY <2>0, <2>1, <2>2, <2>4
  <2>6. sess'[q] # "absent" => pc'[q] = "ended" /\ owner'[q] \in Employees
    BY <1>0, <2>0, <2>1, <2>2, <2>3 DEF PlacedAt, Awaiting
  <2> QED BY <1>0, <2>1, <2>2, <2>5, <2>6 DEF PlacedAt, Awaiting, TypeOK
<1>5. ASSUME NEW s \in Calls, Config(s) PROVE PlacedAt(q)'
  <2>1. \A x \in Calls : sess'[x] # "absent" <=> sess[x] # "absent"
    BY <1>5, ExpireFacts DEF Config
  <2> QED BY <1>0, <1>5, <2>1 DEF Config, PlacedAt
<1>6. CASE \/ \E s \in Calls : Elapse(s)
           \/ \E e \in Employees, v \in {"valid", "invalid", "moved"} : ChangeIdentity(e, v)
           \/ RotatePhone
           \/ UNCHANGED vars
  BY <1>0, <1>6 DEF Elapse, ChangeIdentity, RotatePhone, vars, PlacedAt
<1> QED BY <1>2, <1>3, <1>4, <1>5, <1>6 DEF Next

\* A row belongs to a call that has ended: no coroutine is named after it.
LEMMA RowsOfEnded ==
  ASSUME Placed, NEW s \in Calls, sess[s] # "absent"
  PROVE  pc[s] = "ended"
  BY DEF Placed, PlacedAt

\* A coroutine that awaits works on its own session to be, or on an existing one.
LEMMA AimOf ==
  ASSUME TypeOK, Placed, NEW q \in Calls, pc[q] \in Awaiting
  PROVE  /\ target[q] \in Calls /\ owner[target[q]] \in Employees
         /\ target[q] = q \/ pc[target[q]] = "ended"
         /\ \A p \in Calls \ {q} : pc[p] = "new" => target[q] # p
  BY DEF TypeOK, Placed, PlacedAt, Awaiting

\* A coroutine renewing or revoking replaces the credential of another call.
LEMMA ReplacedStep == TypeOK /\ Placed /\ Replaced /\ [Next]_vars => Replaced'
<1> SUFFICES ASSUME TypeOK, Placed, Replaced, [Next]_vars, NEW q \in Calls,
                    pc'[q] \in {"renew", "revoke"}, q \in landed', q \notin astray'
             PROVE  secret' # target'[q]
  BY DEF Replaced
<1> USE DEF rowvars, extvars, history
<1>1. ASSUME pc'[q] = pc[q], target'[q] = target[q], q \notin astray,
             UNCHANGED <<secret, landed>>
      PROVE  secret' # target'[q]
  BY <1>1 DEF Replaced
<1>2. ASSUME NEW p \in Calls, NEW e \in Employees, NEW t \in Calls,
             NEW ok \in BOOLEAN, NEW k \in Awaiting, NEW here \in BOOLEAN,
             StartsOn(p, e, t, ok, k, here)
      PROVE  secret' # target'[q]
  <2>1. pc[p] = "new" /\ \A x \in Calls \ {p} : pc'[x] = pc[x] /\ target'[x] = target[x]
    BY <1>2, StartMoves
  <2>2. UNCHANGED <<secret, landed>> /\ astray \subseteq astray'
    BY <1>2 DEF StartsOn, Proceed
  <2>3. q # p
    BY <2>1, <2>2 DEF Placed, PlacedAt
  <2> QED BY <1>1, <2>1, <2>2, <2>3
<1>3. ASSUME NEW p \in Calls, NEW b \in Bindings,
             \/ \E e \in Employees : StartCreate(p, e, b)
             \/ \E s \in Calls, k \in {"renew", "revoke"} : StartAction(p, k, s, b)
      PROVE  secret' # target'[q]
  BY <1>2, <1>3, StartFacts
<1>4. ASSUME NEW p \in Calls, Land(p)
      PROVE  secret' # target'[q]
  <2>1. /\ UNCHANGED <<pc, target, astray>> /\ pc[p] \in Awaiting \cup {"failed"}
        /\ secret' = IF p \in astray THEN secret ELSE p
        /\ landed' = landed \cup {p}
    BY <1>4 DEF Land
  <2>2. pc[target[q]] = "ended" /\ target[q] \in Calls
    BY <2>1 DEF Placed, PlacedAt
  <2>3. target[q] # p
    BY <2>1, <2>2 DEF Awaiting
  <2>4. CASE p \in astray
    BY <2>1, <2>4 DEF Replaced
  <2>5. CASE p \notin astray
    BY <2>1, <2>3, <2>5
  <2> QED BY <2>4, <2>5
<1>5. ASSUME NEW p \in Calls,
             FinishCreate(p) \/ FinishRenew(p) \/ FinishRevoke(p) \/ Fail(p)
      PROVE  secret' # target'[q]
  <2>1. pc'[p] \in {"ended", "failed"} /\ \A x \in Calls \ {p} : pc'[x] = pc[x]
    BY <1>5, Finishes, ReturnMoves
  <2>2. UNCHANGED <<secret, target, landed, astray>>
    BY <1>5, Finishes
  <2> QED BY <1>1, <2>1, <2>2
<1>6. CASE RotatePhone
  BY <1>6, SipConstants DEF RotatePhone, Placed, PlacedAt
<1>7. CASE \/ \E s \in Calls : Config(s) \/ Elapse(s)
           \/ \E e \in Employees, v \in {"valid", "invalid", "moved"} : ChangeIdentity(e, v)
           \/ UNCHANGED vars
  BY <1>1, <1>7 DEF Config, Elapse, ChangeIdentity, vars
<1> QED BY <1>3, <1>4, <1>5, <1>6, <1>7 DEF Next

\* How one step changes a row: it is created active, renewed while active, revoked
\* while active, or expires; nothing else.
RowStep(s) ==
  \/ sess'[s] = sess[s] /\ fp'[s] = fp[s]
  \/ sess[s] = "active" /\ sess'[s] = "expired" /\ fp'[s] = fp[s]
  \/ /\ sess[s] = "absent" /\ sess'[s] = "active" /\ fp'[s] = s
     /\ FinishCreate(s) /\ Insertable(s)
  \/ \E p \in Calls : /\ s = target[p] /\ sess[s] = "active" /\ sess'[s] = "active"
                      /\ fp'[s] = p /\ FinishRenew(p)
  \/ \E p \in Calls : /\ s = target[p] /\ sess[s] = "active" /\ sess'[s] = "revoked"
                      /\ fp'[s] = fp[s] /\ FinishRevoke(p)

\* Every step changes rows as RowStep says, and none changes the owner of a row.
LEMMA RowSteps ==
  ASSUME TypeOK, Placed, [Next]_vars, NEW s \in Calls
  PROVE  RowStep(s) /\ (sess'[s] # "absent" => owner'[s] = owner[s])
<1> USE DEF rowvars, extvars, history
<1>1. ASSUME NEW p \in Calls, NEW e \in Employees, NEW t \in Calls,
             NEW ok \in BOOLEAN, NEW k \in Awaiting, NEW here \in BOOLEAN,
             StartsOn(p, e, t, ok, k, here)
      PROVE  RowStep(s) /\ (sess'[s] # "absent" => owner'[s] = owner[s])
  <2>1. PICK S : Expire(S)
    BY <1>1 DEF StartsOn
  <2>2. sess'[s] = sess[s] \/ (sess[s] = "active" /\ sess'[s] = "expired")
    BY <2>1, ExpireFacts
  <2>3. UNCHANGED fp /\ pc[p] = "new" /\ \A x \in Calls \ {p} : owner'[x] = owner[x]
    BY <1>1 DEF StartsOn
  <2>4. s = p => sess[s] = "absent"
    BY <2>3, RowsOfEnded
  <2> QED BY <2>2, <2>3, <2>4 DEF RowStep
<1>2. ASSUME NEW p \in Calls, NEW b \in Bindings,
             \/ \E e \in Employees : StartCreate(p, e, b)
             \/ \E x \in Calls, k \in {"renew", "revoke"} : StartAction(p, k, x, b)
      PROVE  RowStep(s) /\ (sess'[s] # "absent" => owner'[s] = owner[s])
  BY <1>1, <1>2, StartFacts
<1>3. ASSUME NEW p \in Calls,
             FinishCreate(p) \/ FinishRenew(p) \/ FinishRevoke(p) \/ Fail(p)
      PROVE  RowStep(s) /\ (sess'[s] # "absent" => owner'[s] = owner[s])
  <2>1. UNCHANGED owner
    BY <1>3, Finishes
  <2>2. RowStep(s)
    BY <1>3, Finishes DEF RowStep
  <2> QED BY <2>1, <2>2
<1>4. ASSUME NEW x \in Calls, Config(x)
      PROVE  RowStep(s) /\ (sess'[s] # "absent" => owner'[s] = owner[s])
  BY <1>4, ExpireFacts DEF Config, RowStep
<1>5. CASE \/ \E p \in Calls : Land(p) \/ Elapse(p)
           \/ \E e \in Employees, v \in {"valid", "invalid", "moved"} : ChangeIdentity(e, v)
           \/ RotatePhone
           \/ UNCHANGED vars
  BY <1>5 DEF Land, Elapse, ChangeIdentity, RotatePhone, vars, RowStep
<1> QED BY <1>2, <1>3, <1>4, <1>5 DEF Next

\* Only a rotation changes the credential of the phone, to that of a call without a row
\* or to one that no call knows.
LEMMA SecretStep ==
  ASSUME TypeOK, Placed, [Next]_vars
  PROVE  /\ \/ secret' \in {secret, None}
            \/ \E q \in Calls : pc[q] \in Awaiting \cup {"failed"} /\ secret' = q
         /\ astray \subseteq astray'
         /\ \A q \in astray : target'[q] = target[q]
<1> USE DEF rowvars, extvars, history
<1> DEFINE Goal == /\ \/ secret' \in {secret, None}
                      \/ \E q \in Calls : pc[q] \in Awaiting \cup {"failed"} /\ secret' = q
                   /\ astray \subseteq astray'
                   /\ \A q \in astray : target'[q] = target[q]
<1>1. ASSUME NEW p \in Calls, Land(p) PROVE Goal
  BY <1>1 DEF Land
<1>2. ASSUME NEW p \in Calls,
             FinishCreate(p) \/ FinishRenew(p) \/ FinishRevoke(p) \/ Fail(p)
      PROVE  Goal
  BY <1>2, Finishes
<1>3. ASSUME NEW p \in Calls, NEW e \in Employees, NEW t \in Calls,
             NEW ok \in BOOLEAN, NEW k \in Awaiting, NEW here \in BOOLEAN,
             StartsOn(p, e, t, ok, k, here)
      PROVE  Goal
  <2>1. UNCHANGED secret /\ astray \subseteq astray' /\ p \notin astray
    BY <1>3 DEF StartsOn, Proceed, Placed, PlacedAt
  <2>2. \A q \in Calls \ {p} : target'[q] = target[q]
    BY <1>3, StartMoves
  <2> QED BY <2>1, <2>2 DEF TypeOK
<1>4. ASSUME NEW p \in Calls, NEW b \in Bindings,
             \/ \E e \in Employees : StartCreate(p, e, b)
             \/ \E x \in Calls, k \in {"renew", "revoke"} : StartAction(p, k, x, b)
      PROVE  Goal
  BY <1>3, <1>4, StartFacts
<1>5. CASE \/ \E s \in Calls : Config(s) \/ Elapse(s)
           \/ \E e \in Employees, v \in {"valid", "invalid", "moved"} : ChangeIdentity(e, v)
           \/ RotatePhone
           \/ UNCHANGED vars
  BY <1>5 DEF Config, Elapse, ChangeIdentity, RotatePhone, vars
<1> QED BY <1>1, <1>2, <1>4, <1>5 DEF Next

\* A row is marked revoked by the call whose rotation replaced its credential, or went
\* astray, and later rotations install those of calls that have no row.
LEMMA RevokedStep ==
  TypeOK /\ Placed /\ Replaced /\ RevokedIsRotated /\ [Next]_vars => RevokedIsRotated'
<1> SUFFICES ASSUME TypeOK, Placed, Replaced, RevokedIsRotated, [Next]_vars,
                    NEW s \in Calls, sess'[s] = "revoked",
                    ~ \E p \in astray' : target'[p] = s
             PROVE  secret' # s
  BY DEF RevokedIsRotated
<1>1. RowStep(s)
  BY RowSteps
<1>2. ~ \E p \in astray : target[p] = s
  BY SecretStep
<1>3. CASE sess[s] = "revoked"
  <2>1. secret # s /\ pc[s] = "ended"
    BY <1>2, <1>3 DEF RevokedIsRotated, Placed, PlacedAt
  <2> QED BY <2>1, SecretStep, SipConstants DEF Awaiting
<1>4. CASE sess[s] # "revoked"
  <2>1. PICK p \in Calls : s = target[p] /\ FinishRevoke(p)
    BY <1>1, <1>4 DEF RowStep
  <2>2. secret # s /\ UNCHANGED secret
    BY <1>2, <2>1 DEF FinishRevoke, Replaced, extvars
  <2> QED BY <2>2
<1> QED BY <1>3, <1>4

\* A row is inserted for an employee without an active one.
LEMMA OneActiveStep == TypeOK /\ Placed /\ OneActive /\ [Next]_vars => OneActive'
<1> SUFFICES ASSUME TypeOK, Placed, OneActive, [Next]_vars, NEW s \in Calls, NEW u \in Calls,
                    sess'[s] = "active", sess'[u] = "active", owner'[s] = owner'[u], s # u
             PROVE  FALSE
  BY DEF OneActive
<1>1. ASSUME NEW x \in Calls, sess'[x] = "active"
      PROVE  sess[x] = "active" \/ (sess[x] = "absent" /\ FinishCreate(x) /\ Insertable(x))
  BY <1>1, RowSteps DEF RowStep
<1>2. owner[s] = owner[u]
  BY RowSteps
<1>3. ASSUME NEW x \in Calls, NEW y \in Calls, x # y, owner[x] = owner[y],
             FinishCreate(x), Insertable(x), sess'[y] = "active"
      PROVE  FALSE
  <2>1. sess[y] # "active"
    BY <1>3 DEF Insertable, Sessions
  <2>2. sess'[y] = sess[y]
    BY <1>3 DEF FinishCreate, TypeOK
  <2> QED BY <1>3, <2>1, <2>2
<1> QED BY <1>1, <1>2, <1>3 DEF OneActive

\* Every action of SipBrowser keeps the types of its variables.
THEOREM SipTypeCorrect == Spec => []TypeOK
<1>1. Init => TypeOK /\ Placed
  BY SipInit
<1>2. TypeOK /\ Placed /\ [Next]_vars => (TypeOK /\ Placed)'
  BY TypeStep, PlacedStep
<1> QED BY <1>1, <1>2, PTL DEF Spec

\* A session that expired or was revoked stays so and receives no credential,
\* whatever rotation was in flight at that moment (the AND state='active' of the
\* UPDATE that a renewal ends with).
THEOREM SessionEndIsFinal == Spec => EndedStaysEnded
<1>1. Init => TypeOK /\ Placed
  BY SipInit
<1>2. TypeOK /\ Placed /\ [Next]_vars => (TypeOK /\ Placed)'
  BY TypeStep, PlacedStep
<1>3. TypeOK /\ Placed /\ [Next]_vars
      => [\A s \in Calls : sess[s] \in {"expired", "revoked"}
                           => sess'[s] = sess[s] /\ fp'[s] = fp[s]]_vars
  BY RowSteps DEF RowStep
<1> QED BY <1>1, <1>2, <1>3, PTL DEF Spec, EndedStaysEnded

\* A session is marked revoked only when the provider no longer accepts the credential
\* it was created with: revoke awaits its rotation before it writes the row.
THEOREM RevocationRotates == Spec => []RevokedIsRotated
<1> DEFINE J == TypeOK /\ Placed /\ Replaced /\ RevokedIsRotated
<1>1. Init => J
  <2>1. Init => RevokedIsRotated
    BY DEF Init, RevokedIsRotated
  <2> QED BY <2>1, SipInit
<1>2. J /\ [Next]_vars => J'
  BY TypeStep, PlacedStep, ReplacedStep, RevokedStep
<1> QED BY <1>1, <1>2, PTL DEF Spec

\* A call that goes on joins those that await a rotation.
LEMMA FlightStart ==
  ASSUME TypeOK, Placed, NEW p \in Calls, NEW e \in Employees, NEW t \in Calls,
         NEW ok \in BOOLEAN, NEW k \in Awaiting, NEW here \in BOOLEAN,
         StartsOn(p, e, t, ok, k, here)
  PROVE  /\ ok => InFlight' = InFlight \cup {p}
         /\ ~ok => InFlight' = InFlight
  BY StartMoves DEF InFlight, Awaiting

\* A call that returns leaves those in flight.
LEMMA FlightFinish ==
  ASSUME TypeOK, Placed, NEW p \in Calls,
         FinishCreate(p) \/ FinishRenew(p) \/ FinishRevoke(p) \/ Fail(p)
  PROVE  InFlight' = InFlight \ {p}
<1>1. pc'[p] \in {"ended", "failed"} /\ \A q \in Calls \ {p} : pc'[q] = pc[q]
  <2>1. PICK c \in BOOLEAN : Return(p, c)
    BY Finishes
  <2> QED BY <2>1, ReturnMoves
<1> QED BY <1>1 DEF InFlight, Awaiting

\* A call has the phone to itself until another one goes on, it returns, or something
\* that no call awaits rotates the phone.
LEMMA AloneStep ==
  TypeOK /\ Placed /\ OneActive /\ AloneInv /\ [Next]_vars => AloneInv'
<1> SUFFICES ASSUME TypeOK, Placed, OneActive, AloneInv, [Next]_vars,
                    NEW q \in Calls, q = alone'
             PROVE  AloneAt(q)'
  BY DEF AloneInv
<1> USE DEF rowvars, extvars, history
<1>0. /\ q = alone => AloneAt(q)
      /\ \A s \in Calls : sess'[s] # "absent" => owner'[s] = owner[s]
      /\ q # None
  BY RowSteps, SipConstants DEF AloneInv
<1>1. ASSUME NEW p \in Calls, NEW e \in Employees, NEW t \in Calls,
             NEW ok \in BOOLEAN, NEW k \in Awaiting, NEW here \in BOOLEAN,
             StartsOn(p, e, t, ok, k, here)
      PROVE  AloneAt(q)'
  <2>1. /\ pc[p] = "new" /\ (ok => pc'[p] = k) /\ (~ok => pc'[p] = "ended") /\ target'[p] = t
        /\ \A x \in Calls \ {p} : pc'[x] = pc[x] /\ target'[x] = target[x]
    BY <1>1, StartMoves
  <2>2. /\ UNCHANGED <<secret, landed>>
        /\ alone' = IF ~ok THEN alone ELSE IF InFlight = {} /\ here THEN p ELSE None
        /\ astray' = IF ok /\ ~here THEN astray \cup {p} ELSE astray
    BY <1>1 DEF StartsOn, Proceed
  <2>3. \A s \in Calls : sess'[s] = "active" => sess[s] = "active" /\ owner'[s] = owner[s]
    <3>1. PICK S : Expire(S)
      BY <1>1 DEF StartsOn
    <3> QED BY <1>0, <3>1, ExpireFacts
  <2>4. CASE ~ok
    <3>1. AloneAt(q) /\ q # p /\ pc[q] \in Awaiting
      BY <1>0, <2>1, <2>2, <2>4 DEF AloneAt, Awaiting
    <3>2. target'[q] = target[q] /\ target[q] # p
      BY <2>1, <3>1, AimOf
    <3>3. owner'[target[q]] = owner[target[q]]
      BY <1>1, <3>1, <3>2, AimOf DEF StartsOn
    <3>4. InFlight' = InFlight
      BY <1>1, <2>4, FlightStart
    <3> QED BY <2>1, <2>2, <2>3, <2>4, <3>1, <3>2, <3>3, <3>4 DEF AloneAt
  <2>5. CASE ok
    <3>1. q = p /\ InFlight = {} /\ here
      BY <1>0, <2>2, <2>5
    <3>2. InFlight' = {p}
      BY <1>1, <2>5, <3>1, FlightStart
    <3>3. p \notin landed' /\ p \notin astray'
      BY <2>1, <2>2, <3>1 DEF Placed, PlacedAt
    <3>4. owner'[t] = e
      BY <1>1 DEF StartsOn
    <3>5. ASSUME NEW s \in Calls, sess'[s] = "active", owner'[s] = e
          PROVE  k # "create" /\ s = t
      <4>1. sess[s] = "active" /\ owner[s] = e /\ s \in Sessions(e)
        BY <2>3, <3>5 DEF Sessions
      <4>2. k # "create"
        BY <1>1, <2>5, <3>5, <4>1 DEF StartsOn
      <4>3. owner[t] = e /\ sess[t] = "active"
        BY <1>1, <2>3, <2>5, <3>4, <4>2 DEF StartsOn
      <4> QED BY <4>1, <4>2, <4>3 DEF OneActive
    <3> QED BY <2>1, <2>5, <3>1, <3>2, <3>3, <3>4, <3>5 DEF AloneAt
  <2> QED BY <2>4, <2>5
<1>2. ASSUME NEW p \in Calls, NEW b \in Bindings,
             \/ \E e \in Employees : StartCreate(p, e, b)
             \/ \E s \in Calls, k \in {"renew", "revoke"} : StartAction(p, k, s, b)
      PROVE  AloneAt(q)'
  BY <1>1, <1>2, StartFacts
<1>3. ASSUME NEW p \in Calls, Land(p) PROVE AloneAt(q)'
  <2>1. /\ UNCHANGED <<sess, owner, pc, target, astray>>
        /\ pc[p] \in Awaiting \cup {"failed"}
        /\ secret' = IF p \in astray THEN secret ELSE p
        /\ landed' = landed \cup {p}
        /\ ~(pc[p] = "failed" /\ p \notin astray) /\ alone' = alone
    BY <1>0, <1>3 DEF Land, Displaced
  <2>2. AloneAt(q) /\ InFlight' = InFlight
    BY <1>0, <2>1 DEF InFlight
  <2>3. CASE pc[p] \in Awaiting
    <3>1. p = q
      BY <2>2, <2>3 DEF AloneAt, InFlight
    <3> QED BY <2>1, <2>2, <3>1 DEF AloneAt
  <2>4. CASE pc[p] = "failed"
    <3>1. p # q /\ p \in astray
      BY <2>1, <2>2, <2>4 DEF AloneAt, Awaiting
    <3> QED BY <2>1, <2>2, <3>1 DEF AloneAt
  <2> QED BY <2>1, <2>3, <2>4
<1>4. ASSUME NEW p \in Calls,
             FinishCreate(p) \/ FinishRenew(p) \/ FinishRevoke(p) \/ Fail(p)
      PROVE  FALSE
  <2>1. pc[p] \in Awaiting /\ alone' = IF alone = p THEN None ELSE alone
    BY <1>4, Finishes DEF Return
  <2>2. AloneAt(q) /\ q = alone
    BY <1>0, <2>1
  <2>3. p = q
    BY <2>1, <2>2 DEF AloneAt, InFlight
  <2> QED BY <1>0, <2>1, <2>2, <2>3
<1>5. ~RotatePhone
  BY <1>0 DEF RotatePhone, Displaced
<1>6. CASE \/ \E s \in Calls : Config(s) \/ Elapse(s)
           \/ \E e \in Employees, v \in {"valid", "invalid", "moved"} : ChangeIdentity(e, v)
           \/ UNCHANGED vars
  <2>1. UNCHANGED <<owner, pc, target, landed, astray, secret, alone>>
    BY <1>6 DEF Config, Elapse, ChangeIdentity, vars
  <2>2. \A s \in Calls : sess'[s] = "active" => sess[s] = "active"
    BY <1>6, ExpireFacts DEF Config, Elapse, ChangeIdentity, vars
  <2> QED BY <1>0, <2>1, <2>2 DEF AloneAt, InFlight
<1> QED BY <1>2, <1>3, <1>4, <1>5, <1>6 DEF Next

\* Sessions and phone go on agreeing when neither the credential nor a row changes, save
\* that rows expire.
LEMMA MatchKept ==
  ASSUME TypeOK, Placed, [Next]_vars, NEW e \in Employees, Match(e),
         UNCHANGED <<secret, fp>>,
         \A s \in Calls : sess'[s] = sess[s] \/ sess'[s] = "expired"
  PROVE  Match(e)'
<1>1. \A s \in Calls : sess'[s] # "absent" => owner'[s] = owner[s]
  BY RowSteps
<1> QED BY <1>1 DEF Match, Sessions

\* A call that learns the outcome of its rotation while it has the phone to itself has
\* written the credential it installed, or has revoked what carried another one; nobody
\* else has the credential.
LEMMA MatchReturned ==
  ASSUME TypeOK, Placed, [Next]_vars, NEW p \in Calls, AloneAt(p), p \in landed,
         FinishCreate(p) \/ FinishRenew(p) \/ FinishRevoke(p)
  PROVE  Match(owner[target[p]])'
<1> DEFINE e == owner[target[p]]
<1>1. secret' = p
  BY Finishes DEF AloneAt, extvars
<1>2. \A s \in Calls : fp[s] # p
  <2>1. pc[p] # "ended" /\ p # None
    BY SipConstants DEF AloneAt, Awaiting
  <2> QED BY <2>1 DEF Placed, PlacedAt
<1>3. UNCHANGED <<owner, target>>
  BY Finishes
<1>4. ASSUME NEW s \in Calls, owner'[s] = e, sess'[s] = "active" PROVE fp'[s] = p
  <2>1. CASE sess'[s] = sess[s] /\ fp'[s] = fp[s]
    <3>1. pc[p] # "create" /\ s = target[p] /\ sess[s] = "active"
      BY <1>3, <1>4, <2>1 DEF AloneAt
    <3>2. FinishRenew(p) \/ FinishRevoke(p)
      BY <3>1 DEF FinishCreate
    <3>3. CASE FinishRenew(p)
      BY <3>1, <3>3 DEF FinishRenew, TypeOK
    <3>4. CASE FinishRevoke(p)
      BY <1>4, <3>1, <3>4 DEF FinishRevoke, TypeOK
    <3> QED BY <3>2, <3>3, <3>4
  <2>2. CASE ~(sess'[s] = sess[s] /\ fp'[s] = fp[s])
    BY <1>4, <2>2, Finishes
  <2> QED BY <2>1, <2>2
<1>5. ASSUME NEW s \in Calls, sess'[s] = "revoked" PROVE fp'[s] # p
  BY <1>2, <1>5, Finishes
<1>6. ASSUME NEW s \in Calls, fp'[s] = p PROVE owner'[s] = e
  <2>1. FinishCreate(p) => target[p] = p
    BY DEF FinishCreate, Placed, PlacedAt
  <2>2. (s = p /\ FinishCreate(p)) \/ s = target[p]
    BY <1>2, <1>6, Finishes
  <2> QED BY <1>3, <2>1, <2>2
<1> QED BY <1>1, <1>3, <1>4, <1>5, <1>6 DEF Match, Sessions

\* A step that leaves no landed rotation in flight, and a last one that is known, leaves
\* rows and phone in agreement.
LEMMA MatchStep ==
  TypeOK /\ Placed /\ AloneInv /\ MatchInv /\ [Next]_vars => MatchInv'
<1> SUFFICES ASSUME TypeOK, Placed, AloneInv, MatchInv, [Next]_vars,
                    NEW e \in Employees, e = sure', (InFlight \cap landed)' = {}
             PROVE  Match(e)'
  BY DEF MatchInv
<1> USE DEF rowvars, extvars, history
<1>0. e # None
  BY SipConstants
<1>1. ASSUME NEW p \in Calls, NEW d \in Employees, NEW t \in Calls,
             NEW ok \in BOOLEAN, NEW k \in Awaiting, NEW here \in BOOLEAN,
             StartsOn(p, d, t, ok, k, here)
      PROVE  Match(e)'
  <2>1. UNCHANGED <<fp, secret, landed, sure>>
    BY <1>1 DEF StartsOn, Proceed
  <2>2. InFlight \subseteq InFlight'
    BY <1>1, FlightStart
  <2>3. Match(e)
    BY <2>1, <2>2 DEF MatchInv
  <2>4. \A s \in Calls : sess'[s] = sess[s] \/ sess'[s] = "expired"
    <3>1. PICK S : Expire(S)
      BY <1>1 DEF StartsOn
    <3> QED BY <3>1, ExpireFacts
  <2> QED BY <2>1, <2>3, <2>4, MatchKept
<1>2. ASSUME NEW p \in Calls, NEW b \in Bindings,
             \/ \E d \in Employees : StartCreate(p, d, b)
             \/ \E s \in Calls, k \in {"renew", "revoke"} : StartAction(p, k, s, b)
      PROVE  Match(e)'
  BY <1>1, <1>2, StartFacts
<1>3. ASSUME NEW p \in Calls, Land(p) PROVE Match(e)'
  <2>1. /\ UNCHANGED <<sess, owner, fp, pc, sure>>
        /\ pc[p] \in Awaiting \cup {"failed"} /\ ~(pc[p] = "failed" /\ p \notin astray)
        /\ secret' = IF p \in astray THEN secret ELSE p
        /\ landed' = landed \cup {p}
    BY <1>0, <1>3 DEF Land, Displaced
  <2>2. InFlight' = InFlight
    BY <2>1 DEF InFlight
  <2>3. p \notin InFlight
    BY <2>1, <2>2
  <2>4. p \in astray
    BY <2>1, <2>3 DEF InFlight
  <2>5. Match(e)
    BY <2>1, <2>2 DEF MatchInv
  <2> QED BY <2>1, <2>4, <2>5, MatchKept
<1>4. ASSUME NEW p \in Calls,
             FinishCreate(p) \/ FinishRenew(p) \/ FinishRevoke(p) \/ Fail(p)
      PROVE  Match(e)'
  <2>1. UNCHANGED <<secret, landed, owner, target>> /\ InFlight' = InFlight \ {p}
    BY <1>4, Finishes, FlightFinish
  <2>2. CASE p \notin landed
    <3>1. Fail(p) /\ UNCHANGED <<sess, fp, sure>>
      BY <1>4, <2>2 DEF Fail, Return, FinishCreate, FinishRenew, FinishRevoke
    <3>2. Match(e)
      BY <2>1, <2>2, <3>1 DEF MatchInv
    <3> QED BY <2>1, <3>1, <3>2, MatchKept
  <2>3. CASE p \in landed
    <3>1. ~Fail(p)
      BY <1>0, <2>3 DEF Fail, Return
    <3>2. Return(p, TRUE)
      BY <1>4, <3>1, Finishes
    <3>3. p = alone /\ e = owner[target[p]]
      BY <1>0, <2>3, <3>2 DEF Return
    <3>4. AloneAt(p)
      BY <3>3 DEF AloneInv
    <3>5. Match(owner[target[p]])'
      BY <1>4, <2>3, <3>1, <3>4, MatchReturned
    <3> QED BY <2>1, <3>3, <3>5 DEF Match, Sessions
  <2> QED BY <2>2, <2>3
<1>5. ~RotatePhone
  BY <1>0 DEF RotatePhone, Displaced
<1>6. CASE \/ \E s \in Calls : Config(s) \/ Elapse(s)
           \/ \E d \in Employees, v \in {"valid", "invalid", "moved"} : ChangeIdentity(d, v)
           \/ UNCHANGED vars
  <2>1. UNCHANGED <<fp, pc, landed, secret, sure>>
    BY <1>6 DEF Config, Elapse, ChangeIdentity, vars
  <2>2. \A s \in Calls : sess'[s] = sess[s] \/ sess'[s] = "expired"
    BY <1>6, ExpireFacts DEF Config, Elapse, ChangeIdentity, vars
  <2>3. Match(e)
    BY <2>1 DEF MatchInv, InFlight
  <2> QED BY <2>1, <2>2, <2>3, MatchKept
<1> QED BY <1>2, <1>3, <1>4, <1>5, <1>6 DEF Next

\* When the last rotation of the phone was alone and answered, rows and phone agree on
\* its employee, and no other employee's session works (self.endpoint is shared): create,
\* renew and revoke change row and phone both or neither, and one that runs alone repairs
\* what others left.  The same holds while rotations are in flight that have not landed.
THEOREM CredentialsAgree == Spec => [](MatchInv /\ CredentialsMatch)
<1> DEFINE J == TypeOK /\ Placed /\ OneActive /\ AloneInv /\ MatchInv
<1>1. Init => J
  BY SipInit
<1>2. J /\ [Next]_vars => J'
  BY TypeStep, PlacedStep, OneActiveStep, AloneStep, MatchStep
<1>3. J => MatchInv /\ CredentialsMatch
  <2> SUFFICES ASSUME J, sure # None, InFlight = {} PROVE Match(sure)
    BY DEF Match, CredentialsMatch
  <2>1. sure \in Employees
    BY DEF TypeOK
  <2> QED BY <2>1 DEF MatchInv
<1> QED BY <1>1, <1>2, <1>3, PTL DEF Spec

\* An employee has one active session at most: the unique index refuses the insert of
\* a second one, also when both creations saw none before their rotations.
THEOREM OneActiveSession == Spec => []OneActive
<1> DEFINE J == TypeOK /\ Placed /\ OneActive
<1>1. Init => J
  BY SipInit
<1>2. J /\ [Next]_vars => J'
  BY TypeStep, PlacedStep, OneActiveStep
<1> QED BY <1>1, <1>2, PTL DEF Spec
=============================================================================
