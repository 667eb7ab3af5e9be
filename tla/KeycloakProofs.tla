--------------------------- MODULE KeycloakProofs ---------------------------
(***************************************************************************)
(* Machine-checked proofs about Keycloak, for any commands, employees and  *)
(* usernames, any number of attempts and of writes applied late.           *)
(*                                                                         *)
(* The argument: a user never changes its employee, so every write that is *)
(* in flight or late still meets a user of the command's own employee, and *)
(* every idempotency key found on a user is one of that employee.          *)
(***************************************************************************)
EXTENDS Keycloak, FiniteSetTheorems, TLAPS

\* A user was created by, and last updated by, a command of its own employee.
KeyOwner == \A n \in Names : user[n] \in User => EmpOf[user[n].key] = user[n].emp

\* What is known of a write from the moment its command decides on it until the
\* realm has applied it.
WriteOK(w) ==
  /\ w \in [cmd: Commands, stage: Writes, name: Names, key: Commands]
  /\ EmpOf[w.key] = EmpOf[w.cmd]
  /\ w.stage = "post" => OpOf[w.cmd] = "create_disabled"
  /\ w.stage = "put" => OpOf[w.cmd] \notin {"create_disabled", "verify"}
  /\ w.stage # "post" =>
       user[w.name] \in User /\ user[w.name].emp = EmpOf[w.cmd]

Writing ==
  /\ \A c \in Commands : pc[c] \in Writes => WriteOK(Pending(c))
  /\ \A w \in late : WriteOK(w)

\* What a command has read: only a creation asks for a name, only the others
\* carry a representation of a user.
Reading ==
  \A c \in Commands :
    /\ pc[c] \notin Writes \cup {"snapshot"} => seen[c] = None
    /\ pc[c] = "name" => OpOf[c] = "create_disabled"
    /\ pc[c] = "snapshot" => OpOf[c] = "verify"

\* No step removes a user or gives it to another employee.
Kept ==
  \A n \in Names : user[n] \in User => user'[n] \in User /\ user'[n].emp = user[n].emp

IInv == TypeOK /\ KeyOwner /\ Writing /\ Reading /\ OwnUser /\ LifecycleTellsAccess

-----------------------------------------------------------------------------

\* A user of the realm is not mistaken for a free name.
LEMMA UserIsThere ==
  /\ Absent \notin User
  /\ \A e \in Employees : Absent.emp # e
<1>1. ASSUME Absent \in User PROVE FALSE
  <2>1. Absent.emp \in Employees
    BY <1>1 DEF User
  <2> QED BY <2>1, KeycloakConstants DEF Absent
<1> QED BY <1>1, KeycloakConstants DEF Absent

\* What a PUT of the adapter preserves and sets, whoever sent it.
LEMMA MergedUser ==
  ASSUME NEW c \in Commands, OpOf[c] \notin {"create_disabled", "verify"},
         NEW u \in User, NEW k \in Commands,
         u.life = "active" => u.enabled,
         u.life \in {"suspended", "terminated"} => ~u.enabled
  PROVE  /\ Merged(c, u, k) \in User
         /\ Merged(c, u, k).emp = u.emp
         /\ Merged(c, u, k).key \in {c, k, u.key}
         /\ Merged(c, u, k).life = "active" => Merged(c, u, k).enabled
         /\ Merged(c, u, k).life \in {"suspended", "terminated"}
              => ~Merged(c, u, k).enabled
<1> DEFINE v == Merged(c, u, k)
           l == IF OpOf[c] = "suspend" THEN "suspended" ELSE "terminated"
<1>0. "activation_pending" \in Lives /\ "active" \in Lives /\ l \in Lives
  BY DEF Lives
<1>1. CASE OpOf[c] = "update"
  <2>1. v = [u EXCEPT !.key = c, !.life = "activation_pending"]
    BY <1>1 DEF Merged, Disabling
  <2>2. v \in User
    BY <1>0, <2>1, Zenon DEF User
  <2>3. v.emp = u.emp /\ v.key = c /\ v.life = "activation_pending"
    BY <2>1 DEF User
  <2> QED BY <2>2, <2>3
<1>2. CASE OpOf[c] = "activate"
  <2>1. v = [u EXCEPT !.enabled = TRUE, !.actions = TRUE, !.key = k,
                      !.life = "activation_pending"]
    BY <1>2 DEF Merged, Disabling
  <2>2. v \in User
    BY <1>0, <2>1, Zenon DEF User
  <2>3. v.emp = u.emp /\ v.key = k /\ v.life = "activation_pending"
    BY <2>1 DEF User
  <2> QED BY <2>2, <2>3
<1>3. CASE OpOf[c] = "reactivate"
  <2>1. v = [u EXCEPT !.enabled = TRUE, !.key = k, !.life = "active"]
    BY <1>3 DEF Merged, Disabling
  <2>2. v \in User
    BY <1>0, <2>1, Zenon DEF User
  <2>3. v.emp = u.emp /\ v.key = k /\ v.life = "active" /\ v.enabled = TRUE
    BY <2>1 DEF User
  <2> QED BY <2>2, <2>3
<1>4. CASE OpOf[c] \in Disabling
  <2>1. v = [u EXCEPT !.enabled = FALSE, !.key = k, !.life = l]
    BY <1>4 DEF Merged, Disabling
  <2>2. v \in User
    BY <1>0, <2>1, Zenon DEF User
  <2>3. v.emp = u.emp /\ v.key = k /\ v.life = l /\ v.enabled = FALSE
    BY <2>1 DEF User
  <2> QED BY <2>2, <2>3
<1>5. CASE OpOf[c] = "rotate_credentials"
  <2>1. v = [u EXCEPT !.actions = TRUE]
    BY <1>5 DEF Merged, Disabling
  <2>2. /\ v \in User /\ v.emp = u.emp /\ v.key = u.key
        /\ v.life = u.life /\ v.enabled = u.enabled
    BY <2>1 DEF User
  <2> QED BY <2>2
<1> QED
  BY <1>1, <1>2, <1>3, <1>4, <1>5, KeycloakConstants DEF Operations, Disabling

\* A write the adapter decided on keeps the realm in order whenever it is
\* applied, and never moves a user to another employee.
LEMMA AppliedWrite ==
  ASSUME TypeOK, KeyOwner, LifecycleTellsAccess, NEW w, WriteOK(w),
         user' = Applied(w)
  PROVE  /\ user' \in [Names -> User \cup {Absent}]
         /\ KeyOwner' /\ LifecycleTellsAccess'
         /\ Kept
         /\ w.stage = "post" /\ user[w.name] = Absent =>
              user'[w.name] \in User /\ user'[w.name].emp = EmpOf[w.cmd]
<1> DEFINE n == w.name
           u == user[n]
           v == user'[n]
<1>1. n \in Names /\ w.cmd \in Commands /\ w.key \in Commands /\ w.stage \in Writes
  BY DEF WriteOK
<1>2. \/ user' = user /\ (w.stage = "post" => u # Absent)
      \/ /\ user' = [user EXCEPT ![n] = v]
         /\ v \in User /\ EmpOf[v.key] = v.emp
         /\ u \in User => v.emp = u.emp
         /\ w.stage = "post" => v.emp = EmpOf[w.cmd]
         /\ v.life = "active" => v.enabled
         /\ v.life \in {"suspended", "terminated"} => ~v.enabled
  <2>1. CASE w.stage = "post" /\ u # Absent
    <3>1. user' = user
      BY <2>1 DEF Applied
    <3> QED BY <2>1, <3>1
  <2>2. CASE w.stage = "post" /\ u = Absent
    <3>1. user' = [user EXCEPT ![n] = Created(w.cmd)]
      BY <2>2 DEF Applied
    <3>2. v = Created(w.cmd)
      BY <1>1, <3>1 DEF TypeOK
    <3>3. /\ v \in User /\ v.key = w.cmd /\ v.emp = EmpOf[w.cmd]
          /\ v.life = "activation_pending"
      BY <1>1, <3>2, KeycloakConstants DEF Created, User, Lives
    <3> QED BY <1>1, <2>2, <3>1, <3>2, <3>3, UserIsThere
  <2>3. CASE w.stage # "post"
    <3>1. u \in User /\ u.emp = EmpOf[w.cmd]
      BY <2>3 DEF WriteOK
    <3>2. /\ EmpOf[u.key] = u.emp
          /\ u.life = "active" => u.enabled
          /\ u.life \in {"suspended", "terminated"} => ~u.enabled
      BY <1>1, <3>1, UserIsThere DEF KeyOwner, LifecycleTellsAccess
    <3>3. CASE w.stage = "put"
      <4>1. user' = [user EXCEPT ![n] = Merged(w.cmd, u, w.key)]
        BY <3>3 DEF Applied
      <4>2. v = Merged(w.cmd, u, w.key)
        BY <1>1, <4>1 DEF TypeOK
      <4>3. /\ v \in User /\ v.emp = u.emp /\ v.key \in {w.cmd, w.key, u.key}
            /\ v.life = "active" => v.enabled
            /\ v.life \in {"suspended", "terminated"} => ~v.enabled
        BY <1>1, <3>1, <3>2, <3>3, <4>2, MergedUser DEF WriteOK
      <4>4. EmpOf[v.key] = v.emp
        BY <3>1, <3>2, <4>3 DEF WriteOK
      <4> QED BY <3>3, <4>1, <4>2, <4>3, <4>4
    <3>4. CASE w.stage = "entitle"
      <4>1. user' = [user EXCEPT ![n] = [u EXCEPT !.entitled = TRUE]]
        BY <3>4 DEF Applied
      <4>2. v = [u EXCEPT !.entitled = TRUE]
        BY <1>1, <4>1 DEF TypeOK
      <4>3. /\ v \in User /\ v.emp = u.emp /\ v.key = u.key
            /\ v.life = u.life /\ v.enabled = u.enabled
        BY <3>1, <4>2 DEF User
      <4> QED BY <3>2, <3>4, <4>1, <4>2, <4>3
    <3>5. CASE w.stage = "logout"
      <4>1. user' = [user EXCEPT ![n] = [u EXCEPT !.session = FALSE]]
        BY <3>5 DEF Applied
      <4>2. v = [u EXCEPT !.session = FALSE]
        BY <1>1, <4>1 DEF TypeOK
      <4>3. /\ v \in User /\ v.emp = u.emp /\ v.key = u.key
            /\ v.life = u.life /\ v.enabled = u.enabled
        BY <3>1, <4>2 DEF User
      <4> QED BY <3>2, <3>5, <4>1, <4>2, <4>3
    <3>6. CASE w.stage = "email"
      BY <3>6 DEF Applied
    <3> QED BY <1>1, <2>3, <3>3, <3>4, <3>5, <3>6 DEF Writes
  <2> QED BY <2>1, <2>2, <2>3
<1>3. ASSUME user' = user, w.stage = "post" => u # Absent
      PROVE  /\ user' \in [Names -> User \cup {Absent}]
             /\ KeyOwner' /\ LifecycleTellsAccess'
             /\ Kept
             /\ ~(w.stage = "post" /\ user[w.name] = Absent)
  BY <1>3 DEF TypeOK, KeyOwner, LifecycleTellsAccess, Kept
<1>4. ASSUME user' = [user EXCEPT ![n] = v], v \in User, EmpOf[v.key] = v.emp,
             u \in User => v.emp = u.emp,
             w.stage = "post" => v.emp = EmpOf[w.cmd],
             v.life = "active" => v.enabled,
             v.life \in {"suspended", "terminated"} => ~v.enabled
      PROVE  /\ user' \in [Names -> User \cup {Absent}]
             /\ KeyOwner' /\ LifecycleTellsAccess'
             /\ Kept
             /\ w.stage = "post" => user'[w.name] \in User
                                    /\ user'[w.name].emp = EmpOf[w.cmd]
  <2>1. \A m \in Names : m # n => user'[m] = user[m]
    BY <1>4 DEF TypeOK
  <2>2. user' \in [Names -> User \cup {Absent}]
    BY <1>4 DEF TypeOK
  <2>3. KeyOwner'
    BY <1>4, <2>1 DEF KeyOwner
  <2>4. LifecycleTellsAccess'
    BY <1>4, <2>1 DEF LifecycleTellsAccess
  <2>5. Kept
    BY <1>4, <2>1 DEF Kept
  <2> QED BY <1>1, <1>4, <2>2, <2>3, <2>4, <2>5 DEF TypeOK
<1> QED BY <1>2, <1>3, <1>4

\* A realm that does not change keeps what is known of its users.
LEMMA SameRealm ==
  ASSUME TypeOK, KeyOwner, LifecycleTellsAccess, user' = user
  PROVE  /\ user' \in [Names -> User \cup {Absent}]
         /\ KeyOwner' /\ LifecycleTellsAccess' /\ Kept
  BY DEF TypeOK, KeyOwner, LifecycleTellsAccess, Kept

\* A write stays well-founded while users come and change.
LEMMA WriteFrame ==
  ASSUME NEW w, WriteOK(w), Kept
  PROVE  WriteOK(w)'
  BY DEF WriteOK, Kept

\* A creation that succeeded keeps its user.
LEMMA OwnFrame ==
  ASSUME TypeOK, Kept, NEW c \in Commands, user[NameOf[c]].emp = EmpOf[c]
  PROVE  user[NameOf[c]] \in User /\ user'[NameOf[c]].emp = EmpOf[c]
<1>1. NameOf[c] \in Names /\ EmpOf[c] \in Employees
  BY KeycloakConstants
<1>2. user[NameOf[c]] # Absent
  BY <1>1, UserIsThere
<1> QED BY <1>1, <1>2 DEF TypeOK, Kept

Labels == {"todo", "retry", "ok", "failed"} \cup Reads \cup Writes

\* The write that command c, having read rep, makes next: it will meet a user of
\* the command's employee after this step.
NameAt(c, rep) == IF OpOf[c] = "create_disabled" THEN NameOf[c] ELSE rep.name
KeyAt(c, rep)  == IF OpOf[c] = "create_disabled" THEN c ELSE rep.key
NextWriteOK(c, l, rep) ==
  /\ NameAt(c, rep) \in Names /\ KeyAt(c, rep) \in Commands
  /\ EmpOf[KeyAt(c, rep)] = EmpOf[c]
  /\ l = "post" => OpOf[c] = "create_disabled"
  /\ l = "put" => OpOf[c] \notin {"create_disabled", "verify"}
  /\ l # "post" => /\ user'[NameAt(c, rep)] \in User
                   /\ user'[NameAt(c, rep)].emp = EmpOf[c]

\* What the step of one command has to establish for the invariant to hold: only
\* its own label and what it has read change, and its next write is well-founded.
LEMMA ProceedStep ==
  ASSUME IInv, NEW c \in Commands, NEW l \in Labels,
         NEW rep \in Representation \cup {None}, Proceed(c, l, rep),
         user' \in [Names -> User \cup {Absent}], KeyOwner', LifecycleTellsAccess', Kept,
         \A w \in late' : w \in late \/ WriteOK(w)',
         lates' \in 0..MaxLate, att' \in [Commands -> Nat],
         last' \in [Employees -> Commands \cup {None}],
         l \in Writes => NextWriteOK(c, l, rep),
         l \in Writes \cup {"snapshot"} => (rep = None <=> OpOf[c] = "create_disabled"),
         l \in {"name", "search"} => rep = None,
         l = "name" => OpOf[c] = "create_disabled",
         l = "snapshot" => OpOf[c] = "verify",
         l = "ok" /\ OpOf[c] = "create_disabled" => user'[NameOf[c]].emp = EmpOf[c]
  PROVE  IInv'
<1>1. /\ pc' = [pc EXCEPT ![c] = l]
      /\ seen' = [seen EXCEPT ![c] = IF l \in Reads \cup Writes THEN rep ELSE None]
  BY DEF Proceed
<1>2. /\ pc'[c] = l /\ \A d \in Commands \ {c} : pc'[d] = pc[d]
      /\ seen'[c] = IF l \in Reads \cup Writes THEN rep ELSE None
      /\ \A d \in Commands \ {c} : seen'[d] = seen[d]
  BY <1>1 DEF IInv, TypeOK
<1>3. TypeOK'
  <2>1. pc' \in [Commands -> Labels] /\ seen' \in [Commands -> Representation \cup {None}]
    BY <1>1 DEF IInv, TypeOK, Labels
  <2>2. \A w \in late' : w.stage \in Writes /\ w.cmd \in Commands
    BY DEF IInv, TypeOK, WriteOK
  <2>3. verified' \subseteq Employees
    <3>1. \/ verified' = verified \/ verified' = verified \ {EmpOf[c]}
          \/ verified' = verified \cup {EmpOf[c]}
      BY DEF Proceed, Provisions
    <3> QED BY <3>1, KeycloakConstants DEF IInv, TypeOK
  <2>4. \A d \in Commands : pc'[d] \in Writes \cup {"snapshot"} =>
          (seen'[d] = None <=> OpOf[d] = "create_disabled")
    BY <1>2 DEF IInv, TypeOK, Reads
  <2> QED BY <2>1, <2>2, <2>3, <2>4 DEF TypeOK, Labels
<1>4. Writing'
  <2>1. \A w \in late' : WriteOK(w)'
    BY WriteFrame DEF IInv, Writing
  <2>2. ASSUME NEW d \in Commands, pc'[d] \in Writes
        PROVE  WriteOK(Pending(d))'
    <3>1. CASE d = c
      <4> DEFINE x == [cmd |-> c, stage |-> l, name |-> NameAt(c, rep),
                       key |-> KeyAt(c, rep)]
      <4>1. Pending(d)' = x
        BY <1>2, <2>2, <3>1 DEF Pending, NameAt, KeyAt
      <4>2. /\ x.cmd = c /\ x.stage = l /\ x.name = NameAt(c, rep)
            /\ x.key = KeyAt(c, rep)
            /\ x \in [cmd: Commands, stage: Writes, name: Names, key: Commands]
        BY <1>2, <2>2, <3>1 DEF NextWriteOK
      <4> HIDE DEF x
      <4>3. NextWriteOK(c, l, rep)
        BY <1>2, <2>2, <3>1
      <4> QED BY <4>1, <4>2, <4>3 DEF WriteOK, NextWriteOK
    <3>2. CASE d # c
      <4>1. Pending(d)' = Pending(d) /\ WriteOK(Pending(d))
        BY <1>2, <2>2, <3>2 DEF Pending, IInv, Writing
      <4>2. \A w : w = Pending(d) => WriteOK(w)'
        BY <4>1, WriteFrame
      <4> QED BY <4>1, <4>2
    <3> QED BY <3>1, <3>2
  <2> QED BY <2>1, <2>2 DEF Writing
<1>5. Reading'
  BY <1>2 DEF IInv, Reading, Reads, Labels
<1>6. OwnUser'
  <2>1. ASSUME NEW d \in Commands, OpOf[d] = "create_disabled", pc'[d] = "ok"
        PROVE  user'[NameOf[d]].emp = EmpOf[d]
    <3>1. CASE d = c
      BY <1>2, <2>1, <3>1
    <3>2. CASE d # c
      BY <1>2, <2>1, <3>2, OwnFrame DEF IInv, OwnUser
    <3> QED BY <3>1, <3>2
  <2> QED BY <2>1 DEF OwnUser
<1> QED BY <1>3, <1>4, <1>5, <1>6 DEF IInv

\* What the realm does by itself disturbs no command.
LEMMA RealmStep ==
  ASSUME IInv, user' \in [Names -> User \cup {Absent}], KeyOwner',
         LifecycleTellsAccess', Kept, late' \subseteq late,
         UNCHANGED <<lates, pc, att, seen, verified, last>>
  PROVE  IInv'
<1>1. TypeOK'
  BY DEF IInv, TypeOK
<1>2. Writing'
  <2>1. \A w \in late' : WriteOK(w)'
    BY WriteFrame DEF IInv, Writing
  <2>2. ASSUME NEW d \in Commands, pc'[d] \in Writes
        PROVE  WriteOK(Pending(d))'
    <3>1. Pending(d)' = Pending(d) /\ WriteOK(Pending(d))
      BY <2>2 DEF Pending, IInv, Writing
    <3>2. \A w : w = Pending(d) => WriteOK(w)'
      BY <3>1, WriteFrame
    <3> QED BY <3>1, <3>2
  <2> QED BY <2>1, <2>2 DEF Writing
<1>3. Reading'
  BY DEF IInv, Reading
<1>4. OwnUser'
  BY OwnFrame DEF IInv, OwnUser
<1> QED BY <1>1, <1>2, <1>3, <1>4 DEF IInv

\* Nothing is in the realm, in flight or late at the start.
LEMMA KeycloakInit == Init => IInv
<1> SUFFICES ASSUME Init PROVE IInv
  OBVIOUS
<1>1. TypeOK
  BY KeycloakConstants DEF Init, TypeOK, Reads, Writes
<1>2. \A n \in Names : user[n] \notin User /\ user[n] = Absent
  BY UserIsThere DEF Init
<1>3. KeyOwner /\ LifecycleTellsAccess
  BY <1>2 DEF KeyOwner, LifecycleTellsAccess
<1>4. Writing /\ Reading /\ OwnUser
  BY DEF Init, Writing, Reading, OwnUser, Reads, Writes
<1> QED BY <1>1, <1>3, <1>4 DEF IInv

\* The commands and the realm take no step that breaks the invariant.
LEMMA KeycloakStep == IInv /\ [Next]_vars => IInv'
<1> SUFFICES ASSUME IInv, [Next]_vars PROVE IInv'
  OBVIOUS
<1> USE DEF realm
<1>0. /\ TypeOK /\ KeyOwner /\ LifecycleTellsAccess
      /\ \A w \in late' : w \in late \/ w \notin late
  BY DEF IInv
<1>1. ASSUME NEW c \in Commands, Start(c) PROVE IInv'
  <2>1. seen[c] = None /\ seen[c] \in Representation \cup {None}
    BY <1>1 DEF Start, IInv, Reading, TypeOK, Writes
  <2>2. /\ FirstRequest(OpOf[c]) \in {"name", "search"}
        /\ FirstRequest(OpOf[c]) = "name" => OpOf[c] = "create_disabled"
    BY DEF FirstRequest
  <2>3. last' \in [Employees -> Commands \cup {None}]
    BY <1>1, KeycloakConstants DEF Start, IInv, TypeOK
  <2>4. att' \in [Commands -> Nat]
    BY <1>1 DEF Start, IInv, TypeOK
  <2>5. Proceed(c, FirstRequest(OpOf[c]), seen[c]) /\ UNCHANGED <<user, late, lates>>
    BY <1>1 DEF Start, Goto
  <2>6. FirstRequest(OpOf[c]) \in Labels /\ FirstRequest(OpOf[c]) \notin Writes \cup {"snapshot", "ok"}
    BY <2>2 DEF Labels, Reads, Writes
  <2>7. lates' \in 0..MaxLate
    BY <2>5 DEF IInv, TypeOK
  <2> QED BY <1>0, <2>1, <2>2, <2>3, <2>4, <2>5, <2>6, <2>7, SameRealm, ProceedStep
<1>2. ASSUME NEW c \in Commands, NEW l \in Labels \ (Writes \cup {"snapshot", "name"}),
             Proceed(c, l, seen[c]), UNCHANGED <<user, late, lates, att, last>>,
             l = "search" => seen[c] = None,
             l = "ok" /\ OpOf[c] = "create_disabled" => user[NameOf[c]].emp = EmpOf[c]
      PROVE  IInv'
  <2>1. /\ seen[c] \in Representation \cup {None}
        /\ lates' \in 0..MaxLate /\ att' \in [Commands -> Nat]
        /\ last' \in [Employees -> Commands \cup {None}]
    BY <1>2 DEF IInv, TypeOK
  <2> QED BY <1>0, <1>2, <2>1, SameRealm, ProceedStep
<1>3. ASSUME NEW c \in Commands, FindName(c) PROVE IInv'
  <2>1. seen[c] = None /\ NameOf[c] \in Names
    BY <1>3, KeycloakConstants DEF FindName, IInv, Reading, Writes
  <2>2. user[NameOf[c]] # Absent /\ user[NameOf[c]].key = c
        => user[NameOf[c]].emp = EmpOf[c]
    BY <1>0, <2>1 DEF TypeOK, KeyOwner
  <2>3. PICK l \in {"search", "ok", "failed"} :
          /\ Goto(c, l)
          /\ l = "ok" => user[NameOf[c]] # Absent /\ user[NameOf[c]].key = c
    BY <1>3 DEF FindName
  <2>4. l \in Labels \ (Writes \cup {"snapshot", "name"})
    BY DEF Labels, Reads, Writes
  <2> QED BY <1>2, <1>3, <2>1, <2>2, <2>3, <2>4 DEF FindName, Goto
<1>4. ASSUME NEW c \in Commands, FindIdentity(c) PROVE IInv'
  <2>1. /\ seen[c] = None /\ seen[c] \in Representation \cup {None}
        /\ OpOf[c] = "create_disabled"
        /\ lates' \in 0..MaxLate /\ att' \in [Commands -> Nat]
        /\ last' \in [Employees -> Commands \cup {None}]
        /\ UNCHANGED <<user, late>>
    BY <1>4 DEF FindIdentity, IInv, TypeOK, Reading, Writes
  <2>2. CASE Goto(c, "failed")
    <3>1. "failed" \in Labels \ (Writes \cup {"snapshot", "name"})
      BY DEF Labels, Reads, Writes
    <3> QED BY <1>2, <1>4, <2>2, <3>1 DEF FindIdentity, Goto
  <2>3. CASE Goto(c, "post")
    <3>1. "post" \in Labels /\ "post" \in Writes
      BY DEF Labels, Writes
    <3>2. NextWriteOK(c, "post", seen[c])
      BY <2>1, KeycloakConstants DEF NextWriteOK, NameAt, KeyAt
    <3> QED BY <1>0, <2>1, <2>3, <3>1, <3>2, SameRealm, ProceedStep DEF Goto
  <2> QED BY <1>4, <2>2, <2>3 DEF FindIdentity
<1>5. ASSUME NEW c \in Commands, FindUser(c) PROVE IInv'
  <2>1. /\ seen[c] = None /\ OpOf[c] # "create_disabled" /\ OpOf[c] \in Operations
        /\ lates' \in 0..MaxLate /\ att' \in [Commands -> Nat]
        /\ last' \in [Employees -> Commands \cup {None}]
        /\ UNCHANGED <<user, late>>
    BY <1>5, KeycloakConstants DEF FindUser, IInv, TypeOK, Reading, Writes
  <2>2. CASE Goto(c, "failed")
    <3>1. "failed" \in Labels \ (Writes \cup {"snapshot", "name"})
      BY DEF Labels, Reads, Writes
    <3> QED BY <1>2, <1>5, <2>2, <3>1 DEF FindUser, Goto
  <2>3. ASSUME NEW n \in Found(EmpOf[c]), NEW l \in AfterSearch(OpOf[c]),
               Proceed(c, l, [name |-> n, key |-> user[n].key,
                              actions |-> user[n].actions])
        PROVE  IInv'
    <3> DEFINE rep == [name |-> n, key |-> user[n].key, actions |-> user[n].actions]
    <3>1. n \in Names /\ user[n].emp = EmpOf[c] /\ EmpOf[c] \in Employees
      BY KeycloakConstants DEF Found
    <3>2. user[n] \in User
      BY <1>0, <3>1, UserIsThere DEF TypeOK
    <3>3. user[n].key \in Commands /\ user[n].actions \in BOOLEAN
          /\ EmpOf[user[n].key] = EmpOf[c]
      BY <1>0, <3>1, <3>2 DEF User, KeyOwner
    <3>4. rep \in Representation /\ rep # None
      BY <3>1, <3>3, KeycloakConstants DEF Representation
    <3>5. /\ l \in {"snapshot", "put", "entitle"}
          /\ l = "snapshot" => OpOf[c] = "verify"
          /\ l = "put" => OpOf[c] # "verify"
      BY DEF AfterSearch
    <3>6. l \in Labels /\ l \notin {"name", "search", "ok"}
          /\ (l \in Writes => l \in {"put", "entitle"})
      BY <3>5 DEF Labels, Reads, Writes
    <3>7. ASSUME l \in Writes PROVE NextWriteOK(c, l, rep)
      BY <2>1, <3>1, <3>2, <3>3, <3>5, <3>6, <3>7 DEF NextWriteOK, NameAt, KeyAt
    <3> HIDE DEF rep
    <3>8. Proceed(c, l, rep)
      BY <2>3 DEF rep
    <3> QED BY <1>0, <2>1, <3>4, <3>5, <3>6, <3>7, <3>8, SameRealm, ProceedStep
  <2> QED BY <1>5, <2>2, <2>3 DEF FindUser
<1>6. ASSUME NEW c \in Commands, Snapshot(c) PROVE IInv'
  <2>1. OpOf[c] = "verify"
    BY <1>6 DEF Snapshot, IInv, Reading
  <2>2. PICK l \in {"ok", "failed"} : Goto(c, l)
    BY <1>6 DEF Snapshot
  <2>3. l \in Labels \ (Writes \cup {"snapshot", "name"})
    BY DEF Labels, Reads, Writes
  <2> QED BY <1>2, <1>6, <2>1, <2>2, <2>3 DEF Snapshot, Goto
<1>7. ASSUME NEW c \in Commands, Refuse(c) PROVE IInv'
  <2>1. "failed" \in Labels \ (Writes \cup {"snapshot", "name"})
    BY DEF Labels, Reads, Writes
  <2> QED BY <1>2, <1>7, <2>1 DEF Refuse, Goto
<1>8. ASSUME NEW c \in Commands, pc[c] \in Writes
      PROVE  /\ WriteOK(Pending(c))
             /\ seen[c] \in Representation \cup {None}
             /\ (seen[c] = None <=> OpOf[c] = "create_disabled")
             /\ Pending(c).cmd = c /\ Pending(c).stage = pc[c]
             /\ Pending(c).name = NameAt(c, seen[c])
             /\ Pending(c).key = KeyAt(c, seen[c])
  BY <1>8 DEF IInv, Writing, TypeOK, Pending, NameAt, KeyAt
<1>9. ASSUME NEW c \in Commands, Write(c) PROVE IInv'
  <2> DEFINE w == Pending(c)
             l == AfterWrite(c)
  <2>1. /\ pc[c] \in Writes /\ user' = Applied(w) /\ Proceed(c, l, seen[c])
        /\ UNCHANGED <<late, lates, att, last>>
        /\ lates' \in 0..MaxLate /\ att' \in [Commands -> Nat]
        /\ last' \in [Employees -> Commands \cup {None}]
    BY <1>9 DEF Write, Goto, IInv, TypeOK
  <2>2. /\ w.cmd = c /\ w.stage = pc[c]
        /\ w.name = NameAt(c, seen[c]) /\ w.key = KeyAt(c, seen[c])
    BY <1>8, <2>1
  <2>3. WriteOK(w)
    BY <1>8, <2>1
  <2>4. /\ user' \in [Names -> User \cup {Absent}]
        /\ KeyOwner' /\ LifecycleTellsAccess' /\ Kept
    BY <1>0, <2>1, <2>3, AppliedWrite
  <2>5. user'[w.name] \in User /\ user'[w.name].emp = EmpOf[c]
    <3>1. CASE w.stage = "post"
      <4>1. OpOf[c] = "create_disabled" /\ user[w.name] = Absent
        BY <1>9, <2>2, <2>3, <3>1 DEF Write, WriteOK, NameAt
      <4> QED BY <1>0, <2>1, <2>2, <2>3, <3>1, <4>1, AppliedWrite
    <3>2. CASE w.stage # "post"
      <4>1. /\ w.name \in Names /\ user[w.name] \in User
            /\ user[w.name].emp = EmpOf[c]
        BY <2>2, <2>3, <3>2 DEF WriteOK
      <4> QED BY <2>4, <4>1 DEF Kept
    <3> QED BY <3>1, <3>2
  <2>6. l \in {"ok", "entitle", "email", "logout", "failed"}
    <3>1. CASE pc[c] = "put"
      <4>1. OpOf[c] \notin {"create_disabled", "verify"} /\ OpOf[c] \in Operations
        BY <2>2, <2>3, <3>1, KeycloakConstants DEF WriteOK
      <4>2. AfterPut(c) \in {"ok", "entitle", "email", "logout", "failed"}
        <5>1. AfterEnable(LinkOf[c]) \in {"ok", "email", "failed"}
          BY KeycloakConstants DEF AfterEnable
        <5>2. CASE OpOf[c] = "activate"
          BY <5>1, <5>2 DEF AfterPut, Disabling
        <5>3. CASE OpOf[c] # "activate"
          BY <4>1, <5>3 DEF AfterPut, Operations, Disabling
        <5> QED BY <5>2, <5>3
      <4> QED BY <3>1, <4>2 DEF AfterWrite
    <3>2. CASE pc[c] # "put"
      BY <2>1, <3>2 DEF AfterWrite, Writes
    <3> QED BY <3>1, <3>2
  <2>7. l \in Labels /\ l \notin Reads \cup {"post", "put"}
    BY <2>6 DEF Labels, Reads, Writes
  <2>8. l \in Writes => NextWriteOK(c, l, seen[c])
    BY <2>2, <2>3, <2>5, <2>7 DEF WriteOK, NextWriteOK
  <2>9. OpOf[c] = "create_disabled" => w.name = NameOf[c]
    BY <2>2 DEF NameAt
  <2> HIDE DEF w, l
  <2> QED
    BY <1>8, <2>1, <2>4, <2>5, <2>7, <2>8, <2>9, ProceedStep DEF Reads
<1>10. ASSUME NEW c \in Commands, GiveUp(c) PROVE IInv'
  <2>1. PICK l \in {"retry", "failed"} : Proceed(c, l, seen[c])
    BY <1>10 DEF GiveUp, Goto, GivenUp
  <2>2. /\ att' \in [Commands -> Nat] /\ last' \in [Employees -> Commands \cup {None}]
        /\ seen[c] \in Representation \cup {None}
    BY <1>10 DEF GiveUp, IInv, TypeOK
  <2>3. l \in Labels /\ l \notin Reads \cup Writes \cup {"ok"}
    BY DEF Labels, Reads, Writes
  <2>4. /\ user' \in [Names -> User \cup {Absent}]
        /\ KeyOwner' /\ LifecycleTellsAccess' /\ Kept
        /\ \A w \in late' : w \in late \/ WriteOK(w)'
        /\ lates' \in 0..MaxLate
    <3>1. CASE UNCHANGED realm
      BY <1>0, <3>1, SameRealm DEF IInv, TypeOK
    <3>2. CASE /\ pc[c] \in Writes /\ user' = Applied(Pending(c))
               /\ UNCHANGED <<late, lates>>
      BY <1>0, <1>8, <3>2, AppliedWrite DEF IInv, TypeOK
    <3>3. CASE /\ pc[c] \in Writes /\ lates < MaxLate
               /\ late' = late \cup {Pending(c)} /\ lates' = lates + 1
               /\ UNCHANGED user
      <4>1. Kept /\ user' \in [Names -> User \cup {Absent}]
            /\ KeyOwner' /\ LifecycleTellsAccess'
        BY <1>0, <3>3, SameRealm
      <4>2. \A w : w = Pending(c) => WriteOK(w)'
        BY <1>8, <3>3, <4>1, WriteFrame
      <4>3. lates' \in 0..MaxLate
        BY <3>3, KeycloakConstants DEF IInv, TypeOK
      <4> QED BY <3>3, <4>1, <4>2, <4>3
    <3> QED BY <1>10, <3>1, <3>2, <3>3 DEF GiveUp
  <2> QED BY <2>1, <2>2, <2>3, <2>4, ProceedStep DEF Reads
<1>11. ASSUME NEW w \in late, ApplyLate(w) PROVE IInv'
  <2>1. WriteOK(w)
    BY <1>11 DEF IInv, Writing
  <2> QED BY <1>0, <1>11, <2>1, AppliedWrite, RealmStep DEF ApplyLate
<1>12. ASSUME NEW n \in Names, Login(n) PROVE IInv'
  <2> DEFINE v == user'[n]
  <2>1. user[n] \in User /\ user' = [user EXCEPT ![n] = v]
        /\ v = [user[n] EXCEPT !.actions = FALSE, !.session = TRUE]
    BY <1>12 DEF Login, IInv, TypeOK
  <2>2. v \in User
    BY <2>1, Zenon DEF User
  <2>3. /\ v.emp = user[n].emp /\ v.key = user[n].key
        /\ v.life = user[n].life /\ v.enabled = user[n].enabled
    BY <2>1 DEF User
  <2>4. \A m \in Names : m # n => user'[m] = user[m]
    BY <2>1 DEF IInv, TypeOK
  <2>5. user' \in [Names -> User \cup {Absent}] /\ Kept
    BY <2>1, <2>2, <2>3, <2>4 DEF IInv, TypeOK, Kept
  <2>6. KeyOwner'
    <3>1. EmpOf[v.key] = v.emp
      BY <2>1, <2>3 DEF IInv, KeyOwner
    <3> QED BY <2>4, <3>1 DEF IInv, KeyOwner
  <2>7. LifecycleTellsAccess'
    <3>1. /\ v.life = "active" => v.enabled
          /\ v.life \in {"suspended", "terminated"} => ~v.enabled
      BY <2>1, <2>3, UserIsThere DEF IInv, LifecycleTellsAccess
    <3> HIDE DEF v
    <3> QED BY <2>4, <3>1 DEF IInv, LifecycleTellsAccess, v
  <2> QED BY <1>12, <2>5, <2>6, <2>7, RealmStep DEF Login
<1>13. CASE UNCHANGED vars
  BY <1>0, <1>13, SameRealm, RealmStep DEF vars
<1> QED
  BY <1>1, <1>3, <1>4, <1>5, <1>6, <1>7, <1>9, <1>10, <1>11, <1>12, <1>13 DEF Next

\* The inductive invariant holds in every reachable state of adapter and realm.
THEOREM KeycloakInvariance == Spec => []IInv
  BY KeycloakInit, KeycloakStep, PTL DEF Spec

\* Types of the realm, of the commands and of the writes that are still to come.
THEOREM KeycloakTyped == Spec => []TypeOK
<1>1. IInv => TypeOK
  BY DEF IInv
<1> QED BY <1>1, KeycloakInvariance, PTL

\* lifecycle_state never claims more or less than the account gives (update,
\* activate, _set_enabled), whatever is retried, lost or applied late, and
\* however often.
THEOREM LifecycleIsTrue == Spec => []LifecycleTellsAccess
<1>1. IInv => LifecycleTellsAccess
  BY DEF IInv
<1> QED BY <1>1, KeycloakInvariance, PTL

\* create_disabled never reports success on the account of somebody else,
\* whatever names clash and whoever rewrites idempotency keys meanwhile.
THEOREM CreatedIsOwn == Spec => []OwnUser
<1>1. IInv => OwnUser
  BY DEF IInv
<1> QED BY <1>1, KeycloakInvariance, PTL

-----------------------------------------------------------------------------
(* One account per employee, and nobody in a suspended one.  Both need that *)
(* the commands of an employee run one at a time (Alone); writes applied    *)
(* late escape the argument, hence lates = 0.                               *)

Alone ==
  \A c, d \in Commands : InFlight(c) /\ InFlight(d) /\ EmpOf[c] = EmpOf[d] => c = d

\* A POST is sent when the employee has no account, and that is still so.
Single ==
  lates = 0 =>
    /\ late = {}
    /\ \A m, n \in Names : user[m].emp \in Employees /\ user[m].emp = user[n].emp => m = n
    /\ \A c \in Commands : pc[c] = "post" => \A n \in Names : user[n].emp # EmpOf[c]

\* A command in flight that sets access is the last one to do so; a disabling one
\* consists of a PUT and a logout.
LastInv ==
  /\ \A e \in Employees : last[e] # None => EmpOf[last[e]] = e
  /\ \A c \in Commands : InFlight(c) /\ OpOf[c] \in Enabling \cup Disabling
                         => last[EmpOf[c]] = c
  /\ \A c \in Commands : OpOf[c] \in Disabling /\ pc[c] \in Writes => pc[c] \in {"put", "logout"}

\* What a disabling command has achieved at each of its stages.
OutInv ==
  lates = 0 =>
    \A n \in Names, c \in Commands :
      user[n].emp = EmpOf[c] /\ last[EmpOf[c]] = c /\ OpOf[c] \in Disabling
      => /\ pc[c] \in {"logout", "ok"} => ~user[n].enabled
         /\ pc[c] = "ok" => ~user[n].session

AInv == IInv /\ Alone /\ Single /\ LastInv /\ OutInv

\* A command moves on to l, and the realm stays as it is.
MovesOn(c, l) ==
  /\ user' = user /\ (lates' = 0 => lates = 0 /\ late' = late)
  /\ l \in Writes => l \in {"post"} \cup AfterSearch(OpOf[c])
  /\ l = "post" => OpOf[c] = "create_disabled" /\ Found(EmpOf[c]) = {}
  /\ l = "ok" => OpOf[c] \notin Disabling

\* A command moves on to l, and a write of it is applied.
Applies(c, l) ==
  /\ pc[c] \in Writes /\ WriteOK(Pending(c)) /\ user' = Applied(Pending(c))
  /\ UNCHANGED <<late, lates>>
  /\ l = AfterWrite(c) \/ l \in {"retry", "failed"}

\* Every step of a command that has started is of one of the two kinds.
LEMMA StepOfCommand ==
  ASSUME IInv, NEW c \in Commands,
         \/ FindName(c) \/ FindIdentity(c) \/ FindUser(c) \/ Snapshot(c)
         \/ Write(c) \/ Refuse(c) \/ GiveUp(c)
  PROVE  \E l : /\ InFlight(c) /\ pc' = [pc EXCEPT ![c] = l] /\ UNCHANGED last
                /\ MovesOn(c, l) \/ Applies(c, l)
<1> USE DEF realm, Goto, Proceed
<1>1. CASE FindName(c)
  <2>1. OpOf[c] = "create_disabled"
    BY <1>1 DEF FindName, IInv, Reading
  <2>2. PICK l \in {"search", "ok", "failed"} : pc' = [pc EXCEPT ![c] = l]
    BY <1>1 DEF FindName
  <2>3. InFlight(c) /\ UNCHANGED <<user, late, lates, last>>
    BY <1>1 DEF FindName, InFlight, Reads
  <2>4. MovesOn(c, l)
    BY <2>1, <2>2, <2>3 DEF MovesOn, Writes, Disabling
  <2> QED BY <2>2, <2>3, <2>4
<1>2. CASE FindIdentity(c)
  <2>1. OpOf[c] = "create_disabled"
    BY <1>2 DEF FindIdentity
  <2>2. PICK l \in {"post", "failed"} : /\ pc' = [pc EXCEPT ![c] = l]
                                        /\ l = "post" => Found(EmpOf[c]) = {}
    BY <1>2 DEF FindIdentity
  <2>3. InFlight(c) /\ UNCHANGED <<user, late, lates, last>>
    BY <1>2 DEF FindIdentity, InFlight, Reads
  <2>4. MovesOn(c, l)
    BY <2>1, <2>2, <2>3 DEF MovesOn, Writes
  <2> QED BY <2>2, <2>3, <2>4
<1>3. CASE FindUser(c)
  <2>1. PICK l \in {"failed"} \cup AfterSearch(OpOf[c]) : pc' = [pc EXCEPT ![c] = l]
    BY <1>3 DEF FindUser
  <2>2. l # "post" /\ l # "ok"
    BY DEF AfterSearch
  <2>3. InFlight(c) /\ UNCHANGED last /\ user' = user /\ UNCHANGED <<late, lates>>
    BY <1>3 DEF FindUser, InFlight, Reads
  <2> QED BY <2>1, <2>2, <2>3 DEF MovesOn, Writes
<1>4. CASE Snapshot(c)
  <2>1. OpOf[c] = "verify"
    BY <1>4 DEF Snapshot, IInv, Reading
  <2>2. PICK l \in {"ok", "failed"} : pc' = [pc EXCEPT ![c] = l]
    BY <1>4 DEF Snapshot
  <2>3. InFlight(c) /\ UNCHANGED <<user, late, lates, last>>
    BY <1>4 DEF Snapshot, InFlight, Reads
  <2>4. MovesOn(c, l)
    BY <2>1, <2>2, <2>3 DEF MovesOn, Writes, Disabling
  <2> QED BY <2>2, <2>3, <2>4
<1>5. CASE Write(c)
  <2>1. Applies(c, AfterWrite(c))
    BY <1>5 DEF Write, Applies, IInv, Writing
  <2> QED BY <1>5, <2>1 DEF Write, InFlight
<1>6. CASE Refuse(c)
  <2>1. MovesOn(c, "failed")
    BY <1>6 DEF Refuse, MovesOn, Writes
  <2> QED BY <1>6, <2>1 DEF Refuse
<1>7. CASE GiveUp(c)
  <2>1. PICK l \in {"retry", "failed"} : pc' = [pc EXCEPT ![c] = l]
    BY <1>7 DEF GiveUp, GivenUp
  <2>2. InFlight(c) /\ UNCHANGED last
    BY <1>7 DEF GiveUp
  <2>3. CASE UNCHANGED realm
    BY <2>1, <2>2, <2>3 DEF MovesOn, Writes
  <2>4. CASE pc[c] \in Writes /\ user' = Applied(Pending(c)) /\ UNCHANGED <<late, lates>>
    BY <2>1, <2>2, <2>4 DEF Applies, IInv, Writing
  <2>5. CASE lates' = lates + 1 /\ UNCHANGED user
    <3>1. lates' # 0
      BY <2>5, KeycloakConstants DEF IInv, TypeOK
    <3>2. MovesOn(c, l)
      BY <2>1, <2>5, <3>1 DEF MovesOn, Writes
    <3> QED BY <2>1, <2>2, <3>2
  <2> QED BY <1>7, <2>3, <2>4, <2>5 DEF GiveUp
<1> QED BY <1>1, <1>2, <1>3, <1>4, <1>5, <1>6, <1>7

\* What a PUT does to the access that a user has.
LEMMA MergedAccess ==
  ASSUME NEW c \in Commands, OpOf[c] \notin {"create_disabled", "verify"},
         NEW u \in User, NEW k
  PROVE  /\ Merged(c, u, k).emp = u.emp /\ Merged(c, u, k).session = u.session
         /\ OpOf[c] \in Disabling => ~Merged(c, u, k).enabled
         /\ OpOf[c] \notin Enabling => (Merged(c, u, k).enabled => u.enabled)
<1>1. CASE OpOf[c] \in Disabling
  BY <1>1 DEF Merged, User, Disabling
<1>2. CASE OpOf[c] \in {"update", "activate", "reactivate", "rotate_credentials"}
  BY <1>2 DEF Merged, User, Disabling, Enabling
<1> QED BY <1>1, <1>2, KeycloakConstants DEF Operations, Disabling

\* What a write does to a user: it creates the one it names, disabled, or changes it
\* without moving it to another employee.
LEMMA WriteEffect ==
  ASSUME TypeOK, NEW w, WriteOK(w), user' = Applied(w), NEW n \in Names
  PROVE  \/ /\ n # w.name \/ w.stage \in {"post", "email"}
            /\ user'[n] = user[n]
         \/ /\ n = w.name /\ w.stage = "post" /\ user[n] = Absent
            /\ user'[n].emp = EmpOf[w.cmd] /\ ~user'[n].enabled /\ ~user'[n].session
         \/ /\ n = w.name /\ w.stage = "put" /\ user[n].emp = EmpOf[w.cmd]
            /\ user'[n].emp = user[n].emp /\ user'[n].session = user[n].session
            /\ OpOf[w.cmd] \in Disabling => ~user'[n].enabled
            /\ OpOf[w.cmd] \notin Enabling => (user'[n].enabled => user[n].enabled)
         \/ /\ n = w.name /\ w.stage \in {"entitle", "logout"}
            /\ user[n].emp = EmpOf[w.cmd]
            /\ user'[n].emp = user[n].emp /\ user'[n].enabled = user[n].enabled
            /\ user'[n].session = IF w.stage = "logout" THEN FALSE ELSE user[n].session
<1>1. w.name \in Names /\ w.cmd \in Commands /\ w.stage \in Writes
  BY DEF WriteOK
<1>2. CASE w.stage = "post"
  BY <1>1, <1>2 DEF Applied, Created, TypeOK
<1>3. CASE w.stage = "put"
  <2>1. /\ user[w.name] \in User /\ user[w.name].emp = EmpOf[w.cmd]
        /\ OpOf[w.cmd] \notin {"create_disabled", "verify"}
    BY <1>3 DEF WriteOK
  <2>2. user' = [user EXCEPT ![w.name] = Merged(w.cmd, user[w.name], w.key)]
    BY <1>3 DEF Applied
  <2>3. n # w.name => user'[n] = user[n]
    BY <2>2 DEF TypeOK
  <2>4. n = w.name => user'[n] = Merged(w.cmd, user[w.name], w.key)
    BY <2>2 DEF TypeOK
  <2> QED BY <1>1, <1>3, <2>1, <2>3, <2>4, MergedAccess
<1>4. CASE w.stage \in {"entitle", "logout"}
  <2>1. user[w.name] \in User /\ user[w.name].emp = EmpOf[w.cmd]
    BY <1>4 DEF WriteOK
  <2>2. n # w.name => user'[n] = user[n]
    BY <1>4 DEF Applied, TypeOK
  <2>3. CASE n = w.name /\ w.stage = "entitle"
    <3>1. user'[n] = [user[n] EXCEPT !.entitled = TRUE]
      BY <1>1, <2>3 DEF Applied, TypeOK
    <3> QED BY <2>1, <2>3, <3>1 DEF User
  <2>4. CASE n = w.name /\ w.stage = "logout"
    <3>1. user'[n] = [user[n] EXCEPT !.session = FALSE]
      BY <1>1, <2>4 DEF Applied, TypeOK
    <3> QED BY <2>1, <2>4, <3>1 DEF User
  <2> QED BY <1>4, <2>2, <2>3, <2>4
<1>5. CASE w.stage = "email"
  BY <1>5 DEF Applied
<1> QED BY <1>1, <1>2, <1>3, <1>4, <1>5 DEF Writes

\* A command starts with a read, when no other of its employee is in flight.
LEMMA StartEffect ==
  ASSUME IInv, NEW c \in Commands, Start(c)
  PROVE  /\ \E l \in {"name", "search"} : pc' = [pc EXCEPT ![c] = l]
         /\ Idle(EmpOf[c]) /\ UNCHANGED <<user, late, lates>>
         /\ last' = IF OpOf[c] \in Enabling \cup Disabling
                    THEN [last EXCEPT ![EmpOf[c]] = c] ELSE last
  BY DEF Start, Goto, Proceed, FirstRequest, realm

\* Where a write leads.
LEMMA AfterWriteLabels ==
  ASSUME NEW c \in Commands, pc[c] \in Writes, WriteOK(Pending(c))
  PROVE  /\ AfterWrite(c) # "post"
         /\ OpOf[c] \in Disabling /\ pc[c] = "put" => AfterWrite(c) = "logout"
         /\ OpOf[c] \in Disabling /\ pc[c] = "logout" => AfterWrite(c) = "ok"
<1>1. CASE pc[c] = "put"
  <2>1. OpOf[c] \notin {"create_disabled", "verify"} /\ OpOf[c] \in Operations
    BY <1>1, KeycloakConstants DEF WriteOK, Pending
  <2>2. AfterEnable(LinkOf[c]) # "post"
    BY KeycloakConstants DEF AfterEnable
  <2>3. CASE OpOf[c] = "activate"
    BY <1>1, <2>2, <2>3 DEF AfterWrite, AfterPut, Disabling
  <2>4. CASE OpOf[c] # "activate"
    BY <1>1, <2>1, <2>4 DEF AfterWrite, AfterPut, Operations, Disabling
  <2> QED BY <2>3, <2>4
<1>2. CASE pc[c] # "put"
  BY <1>2 DEF AfterWrite, Writes
<1> QED BY <1>1, <1>2

\* The engine starts a command only while the employee is idle.
LEMMA AloneStep ==
  ASSUME TypeOK, Alone, NEW c \in Commands, NEW l, pc' = [pc EXCEPT ![c] = l],
         InFlight(c) \/ Idle(EmpOf[c])
  PROVE  Alone'
<1>1. \A d \in Commands \ {c} : InFlight(d)' = InFlight(d)
  BY DEF InFlight, TypeOK
<1>2. ASSUME NEW d \in Commands \ {c}, InFlight(d), EmpOf[c] = EmpOf[d] PROVE FALSE
  BY <1>2 DEF Alone, Idle
<1> QED BY <1>1, <1>2 DEF Alone

\* A step of a command in flight keeps Single, LastInv and OutInv.
LEMMA AccessMoves ==
  ASSUME AInv, NEW c \in Commands, NEW l, InFlight(c), pc' = [pc EXCEPT ![c] = l],
         UNCHANGED last, MovesOn(c, l)
  PROVE  Single' /\ LastInv' /\ OutInv'
<1>1. /\ pc'[c] = l /\ \A d \in Commands \ {c} : pc'[d] = pc[d]
      /\ user' = user /\ (lates' = 0 => lates = 0 /\ late' = late)
      /\ l = "post" => \A n \in Names : user[n].emp # EmpOf[c]
  BY DEF MovesOn, AInv, IInv, TypeOK, Found
<1>2. OpOf[c] \in Disabling => l # "ok" /\ (l \in Writes => l = "put")
  BY DEF MovesOn, AfterSearch, Disabling
<1>3. Single'
  BY <1>1 DEF AInv, Single
<1>4. LastInv'
  BY <1>1, <1>2 DEF AInv, LastInv, InFlight
<1>5. OutInv'
  BY <1>1, <1>2 DEF AInv, OutInv, Writes
<1> QED BY <1>3, <1>4, <1>5

\* A write of a command in flight keeps Single, LastInv and OutInv.
LEMMA AccessApplies ==
  ASSUME AInv, NEW c \in Commands, NEW l, InFlight(c), pc' = [pc EXCEPT ![c] = l],
         UNCHANGED last, Applies(c, l)
  PROVE  Single' /\ LastInv' /\ OutInv'
<1> DEFINE w == Pending(c)
<1>1. /\ pc'[c] = l /\ \A d \in Commands \ {c} : pc'[d] = pc[d]
      /\ UNCHANGED <<late, lates, last>> /\ TypeOK
      /\ WriteOK(w) /\ user' = Applied(w) /\ w.stage = pc[c] /\ w.cmd = c
      /\ w.name \in Names /\ pc[c] \in Writes
  BY DEF Applies, AInv, IInv, TypeOK, Pending, WriteOK
<1>2. /\ l # "post"
      /\ OpOf[c] \in Disabling /\ pc[c] = "put" => l \in {"logout", "retry", "failed"}
      /\ OpOf[c] \in Disabling /\ pc[c] = "logout" => l \in {"ok", "retry", "failed"}
  BY AfterWriteLabels DEF Applies
<1>3. w.stage # "post" => user[w.name].emp = EmpOf[c]
  BY <1>1 DEF WriteOK
<1> HIDE DEF w
<1>a. \A n \in Names :
         \/ user'[n] = user[n]
         \/ n = w.name /\ w.stage = "post" /\ user'[n].emp = EmpOf[w.cmd]
         \/ /\ n = w.name /\ w.stage # "post"
            /\ user[n].emp = EmpOf[w.cmd] /\ user'[n].emp = user[n].emp
  <2> TAKE n \in Names
  <2> QED BY <1>1, WriteEffect
<1>4. \A n \in Names :
         \/ user'[n].emp = user[n].emp
         \/ n = w.name /\ pc[c] = "post" /\ user'[n].emp = EmpOf[c]
  BY <1>1, <1>a
<1>5. \A n \in Names : user'[n].emp # EmpOf[c] \/ n # w.name => user'[n] = user[n]
  BY <1>1, <1>a
<1>6. Single'
  <2> SUFFICES ASSUME lates' = 0
               PROVE  /\ \A m, n \in Names :
                           user'[m].emp \in Employees /\ user'[m].emp = user'[n].emp => m = n
                      /\ \A d \in Commands : pc'[d] = "post"
                           => \A n \in Names : user'[n].emp # EmpOf[d]
    BY <1>1 DEF AInv, Single
  <2>1. CASE pc[c] = "post"
    <3>1. \A n \in Names : user[n].emp # EmpOf[c]
      BY <1>1, <2>1 DEF AInv, Single
    <3>2. \A m, n \in Names :
            user'[m].emp \in Employees /\ user'[m].emp = user'[n].emp => m = n
      BY <1>1, <1>4, <3>1 DEF AInv, Single
    <3>3. \A d \in Commands : pc'[d] = "post" => EmpOf[d] # EmpOf[c] /\ pc[d] = "post"
      BY <1>1, <1>2, <2>1 DEF AInv, Alone, InFlight, Writes
    <3> QED BY <1>1, <1>4, <3>2, <3>3 DEF AInv, Single
  <2>2. CASE pc[c] # "post"
    <3>1. \A n \in Names : user'[n].emp = user[n].emp
      BY <1>4, <2>2
    <3>2. \A d \in Commands : pc'[d] = "post" => pc[d] = "post"
      BY <1>1, <1>2
    <3>3. /\ \A m, n \in Names : user[m].emp \in Employees /\ user[m].emp = user[n].emp
                                => m = n
          /\ \A d \in Commands : pc[d] = "post" => \A n \in Names : user[n].emp # EmpOf[d]
      BY <1>1 DEF AInv, Single
    <3>4. \A m, n \in Names :
            user'[m].emp \in Employees /\ user'[m].emp = user'[n].emp => m = n
      BY <3>1, <3>3
    <3>5. \A d \in Commands : pc'[d] = "post"
            => \A n \in Names : user'[n].emp # EmpOf[d]
      <4> TAKE d \in Commands
      <4> HAVE pc'[d] = "post"
      <4> TAKE n \in Names
      <4> QED BY <3>1, <3>2, <3>3
    <3> QED BY <3>4, <3>5
  <2> QED BY <2>1, <2>2
<1>7. LastInv'
  <2>1. \A d \in Commands : InFlight(d)' => InFlight(d)
    BY <1>1 DEF InFlight
  <2>2. OpOf[c] \in Disabling /\ l \in Writes => l \in {"put", "logout"}
    BY <1>1, <1>2 DEF AInv, LastInv, Writes
  <2>3. \A d \in Commands : OpOf[d] \in Disabling /\ pc'[d] \in Writes
                            => pc'[d] \in {"put", "logout"}
    BY <1>1, <2>2 DEF AInv, LastInv
  <2> QED BY <1>1, <2>1, <2>3 DEF AInv, LastInv
<1>8. OutInv'
  <2> SUFFICES ASSUME lates' = 0, NEW n \in Names, NEW d \in Commands,
                      user'[n].emp = EmpOf[d], last'[EmpOf[d]] = d, OpOf[d] \in Disabling
               PROVE  /\ pc'[d] \in {"logout", "ok"} => ~user'[n].enabled
                      /\ pc'[d] = "ok" => ~user'[n].session
    BY DEF OutInv
  <2>1. CASE d = c
    <3>1. pc[c] \in {"put", "logout"}
      BY <1>1, <2>1 DEF AInv, LastInv
    <3>2. n = w.name
      <4>1. user[n].emp = EmpOf[c] /\ user[w.name].emp = EmpOf[c] /\ EmpOf[c] \in Employees
        BY <1>1, <1>3, <1>4, <2>1, <3>1, KeycloakConstants
      <4> QED BY <1>1, <4>1 DEF AInv, Single
    <3>3. CASE pc[c] = "put"
      <4>1. ~user'[n].enabled
        BY <1>1, <2>1, <3>2, <3>3, WriteEffect
      <4>2. pc'[d] # "ok"
        BY <1>1, <1>2, <2>1, <3>3
      <4> QED BY <4>1, <4>2
    <3>4. CASE pc[c] = "logout"
      <4>1. user'[n].enabled = user[n].enabled /\ user'[n].session = FALSE
        BY <1>1, <2>1, <3>2, <3>4, WriteEffect
      <4>2. ~user[n].enabled
        BY <1>1, <1>3, <2>1, <3>2, <3>4 DEF AInv, OutInv
      <4> QED BY <4>1, <4>2
    <3> QED BY <3>1, <3>3, <3>4
  <2>2. CASE d # c
    <3>1. pc'[d] = pc[d]
      BY <1>1, <2>2
    <3>2. CASE EmpOf[d] # EmpOf[c]
      <4>1. user'[n] = user[n]
        BY <1>5, <3>2
      <4> QED BY <1>1, <3>1, <4>1 DEF AInv, OutInv
    <3>3. CASE EmpOf[d] = EmpOf[c]
      <4>1. ~InFlight(d) /\ OpOf[c] \notin Enabling
        BY <1>1, <2>2, <3>3 DEF AInv, Alone, LastInv
      <4>2. pc[d] # "logout"
        BY <4>1 DEF InFlight, Writes
      <4>3. \/ /\ user[n].emp = EmpOf[d] /\ (user'[n].enabled => user[n].enabled)
               /\ user'[n].session = user[n].session \/ user'[n].session = FALSE
            \/ ~user'[n].enabled /\ ~user'[n].session
        BY <1>1, <3>3, <4>1, WriteEffect
      <4> QED BY <1>1, <3>1, <4>2, <4>3 DEF AInv, OutInv
    <3> QED BY <3>2, <3>3
  <2> QED BY <2>1, <2>2
<1> QED BY <1>6, <1>7, <1>8

\* A command that starts keeps Single, LastInv and OutInv.
LEMMA AccessStarts ==
  ASSUME AInv, NEW c \in Commands, Start(c)
  PROVE  Single' /\ LastInv' /\ OutInv'
<1>1. PICK l \in {"name", "search"} : pc' = [pc EXCEPT ![c] = l]
  BY StartEffect DEF AInv
<1>2. /\ pc'[c] = l /\ \A d \in Commands \ {c} : pc'[d] = pc[d]
      /\ Idle(EmpOf[c]) /\ UNCHANGED <<user, late, lates>>
      /\ last' = IF OpOf[c] \in Enabling \cup Disabling
                 THEN [last EXCEPT ![EmpOf[c]] = c] ELSE last
  BY <1>1, StartEffect DEF AInv, IInv, TypeOK
<1>3. l \notin Writes \cup {"ok"}
  BY DEF Writes
<1>4. Single'
  BY <1>2, <1>3 DEF AInv, Single, Writes
<1>5. /\ EmpOf[c] \in Employees
      /\ OpOf[c] \in Enabling \cup Disabling => last'[EmpOf[c]] = c
      /\ \A e \in Employees : last'[e] = last[e] \/ (e = EmpOf[c] /\ last'[e] = c)
  BY <1>2, KeycloakConstants DEF AInv, IInv, TypeOK
<1>6. LastInv'
  <2>1. \A e \in Employees : last'[e] # None => EmpOf[last'[e]] = e
    BY <1>5 DEF AInv, LastInv
  <2>2. ASSUME NEW d \in Commands, InFlight(d)', OpOf[d] \in Enabling \cup Disabling
        PROVE  last'[EmpOf[d]] = d
    <3>1. CASE d = c
      BY <1>5, <2>2, <3>1
    <3>2. CASE d # c
      <4>1. InFlight(d) /\ EmpOf[d] # EmpOf[c] /\ EmpOf[d] \in Employees
        BY <1>2, <2>2, <3>2, KeycloakConstants DEF InFlight, Idle
      <4> QED BY <1>5, <2>2, <4>1 DEF AInv, LastInv
    <3> QED BY <3>1, <3>2
  <2>3. \A d \in Commands : OpOf[d] \in Disabling /\ pc'[d] \in Writes
                            => pc'[d] \in {"put", "logout"}
    BY <1>2, <1>3 DEF AInv, LastInv
  <2> QED BY <2>1, <2>2, <2>3 DEF LastInv
<1>7. OutInv'
  <2> SUFFICES ASSUME lates' = 0, NEW n \in Names, NEW d \in Commands,
                      user'[n].emp = EmpOf[d], last'[EmpOf[d]] = d, OpOf[d] \in Disabling
               PROVE  /\ pc'[d] \in {"logout", "ok"} => ~user'[n].enabled
                      /\ pc'[d] = "ok" => ~user'[n].session
    BY DEF OutInv
  <2>1. CASE d = c
    BY <1>2, <1>3, <2>1 DEF Writes
  <2>2. CASE d # c
    <3>1. last[EmpOf[d]] = d
      BY <1>5, <2>2, KeycloakConstants
    <3> QED BY <1>2, <2>2, <3>1 DEF AInv, OutInv
  <2> QED BY <2>1, <2>2
<1> QED BY <1>4, <1>6, <1>7

\* The commands and the realm take no step that breaks AInv.
LEMMA AccessStep == AInv /\ [Next]_vars => AInv'
<1> SUFFICES ASSUME AInv, [Next]_vars PROVE AInv'
  OBVIOUS
<1>0. IInv' /\ TypeOK
  BY KeycloakStep DEF AInv, IInv
<1>1. ASSUME NEW c \in Commands,
             \/ FindName(c) \/ FindIdentity(c) \/ FindUser(c) \/ Snapshot(c)
             \/ Write(c) \/ Refuse(c) \/ GiveUp(c)
      PROVE  AInv'
  <2>1. PICK l : /\ InFlight(c) /\ pc' = [pc EXCEPT ![c] = l] /\ UNCHANGED last
                 /\ MovesOn(c, l) \/ Applies(c, l)
    BY <1>1, StepOfCommand DEF AInv
  <2>2. Alone'
    BY <1>0, <2>1, AloneStep DEF AInv
  <2>3. Single' /\ LastInv' /\ OutInv'
    BY <2>1, AccessMoves, AccessApplies
  <2> QED BY <1>0, <2>2, <2>3 DEF AInv
<1>2. ASSUME NEW c \in Commands, Start(c) PROVE AInv'
  <2>1. Alone'
    BY <1>0, <1>2, StartEffect, AloneStep DEF AInv
  <2> QED BY <1>0, <1>2, <2>1, AccessStarts DEF AInv
<1>3. ASSUME NEW w \in late, ApplyLate(w) PROVE AInv'
  <2>1. lates' # 0 /\ UNCHANGED <<pc, last>>
    BY <1>3 DEF ApplyLate, AInv, Single
  <2> QED BY <1>0, <2>1 DEF AInv, Alone, InFlight, Single, LastInv, OutInv
<1>4. ASSUME NEW n \in Names, Login(n) PROVE AInv'
  <2>1. /\ user[n].enabled /\ user[n] \in User /\ UNCHANGED <<late, lates, pc, last>>
        /\ user' = [user EXCEPT ![n].actions = FALSE, ![n].session = TRUE]
    BY <1>0, <1>4 DEF Login, TypeOK
  <2>2. /\ \A m \in Names : m # n => user'[m] = user[m]
        /\ user'[n].emp = user[n].emp
    BY <1>0, <2>1 DEF TypeOK, User
  <2>3. Alone' /\ LastInv'
    BY <2>1 DEF AInv, Alone, InFlight, LastInv
  <2>4. \A m \in Names : user'[m].emp = user[m].emp
    BY <2>2
  <2>5. Single'
    BY <2>1, <2>4 DEF AInv, Single
  <2>6. OutInv'
    <3> SUFFICES ASSUME lates' = 0, NEW m \in Names, NEW d \in Commands,
                        user'[m].emp = EmpOf[d], last'[EmpOf[d]] = d, OpOf[d] \in Disabling
                 PROVE  /\ pc'[d] \in {"logout", "ok"} => ~user'[m].enabled
                        /\ pc'[d] = "ok" => ~user'[m].session
      BY DEF OutInv
    <3>1. /\ pc[d] \in {"logout", "ok"} => ~user[m].enabled
          /\ pc[d] = "ok" => ~user[m].session
      BY <2>1, <2>4 DEF AInv, OutInv
    <3>2. CASE m = n
      BY <2>1, <3>1, <3>2
    <3>3. CASE m # n
      BY <2>1, <2>2, <3>1, <3>3
    <3> QED BY <3>2, <3>3
  <2> QED BY <1>0, <2>3, <2>5, <2>6 DEF AInv
<1>5. CASE UNCHANGED vars
  BY <1>0, <1>5 DEF vars, realm, AInv, Alone, InFlight, Single, LastInv, OutInv
<1> QED BY <1>1, <1>2, <1>3, <1>4, <1>5 DEF Next

\* Nobody has an account, and no command has run, at the start.
LEMMA AccessInit == Init => AInv
<1> SUFFICES ASSUME Init PROVE AInv
  OBVIOUS
<1>1. \A n \in Names : user[n].emp \notin Employees
  BY KeycloakConstants DEF Init, Absent
<1>2. Alone /\ LastInv
  BY DEF Init, Alone, InFlight, LastInv, Reads, Writes
<1>3. Single /\ OutInv
  BY <1>1, KeycloakConstants DEF Init, Single, OutInv
<1> QED BY <1>2, <1>3, KeycloakInit DEF AInv

\* create_disabled posts only for an employee without an account, and no other command
\* of the employee runs meanwhile: nobody gets a second account, as long as no write is
\* applied after it was given up.
THEOREM OneAccount == Spec => []OneUserPerEmployee
<1>1. AInv => OneUserPerEmployee
  <2> SUFFICES ASSUME AInv, lates = 0, NEW e \in Employees
               PROVE  Cardinality(Found(e)) <= 1
    BY DEF OneUserPerEmployee
  <2>1. \A m, n \in Found(e) : m = n
    BY DEF Found, AInv, Single
  <2>2. CASE Found(e) = {}
    BY <2>2, FS_EmptySet
  <2>3. ASSUME NEW n \in Found(e) PROVE Cardinality(Found(e)) = 1
    <3>1. Found(e) = {n}
      BY <2>1, <2>3
    <3> QED BY <3>1, FS_Singleton
  <2> QED BY <2>2, <2>3
<1> QED BY <1>1, AccessInit, AccessStep, PTL DEF Spec

\* A suspension or termination that has succeeded leaves the account disabled and
\* logged out until a later command sets the employee's access: _set_enabled disables
\* before it ends the sessions, so a login in between is ended too.
THEOREM SuspensionHolds == Spec => []SuspendedIsOut
<1>1. AInv => SuspendedIsOut
  BY DEF AInv, IInv, TypeOK, LastInv, OutInv, SuspendedIsOut
<1> QED BY <1>1, AccessInit, AccessStep, PTL DEF Spec
=============================================================================
