--------------------------- MODULE LifecycleProofs ---------------------------
(***************************************************************************)
(* Machine-checked proofs about Lifecycle, for any number of calls,        *)
(* systems and identities.                                                 *)
(*                                                                         *)
(* A completed identity comes from the log, where a completed command may  *)
(* itself have put it: by induction every completed identity, in the log   *)
(* or in a stored command, was named by the caller of a command that       *)
(* succeeded in the same system after its create_disabled (Named), and the *)
(* log only grows.                                                         *)
(***************************************************************************)
EXTENDS Lifecycle, SequenceTheorems, WellFoundedInduction, TLAPS

\* Provided, of any log l.
Named(l, y, id) ==
  \E i \in 1..Len(l) :
    /\ l[i].sys = y /\ l[i].id = id /\ l[i].src = "caller"
    /\ \E j \in 1..i : l[j].sys = y /\ l[j].op = "create_disabled"

\* A call that waits for the lock is in the queue.
Queued == \A p \in Calls : pc[p] = "wait" => \E i \in 1..Len(queue) : queue[i] = p

\* A call has a stored command from its submission on.
Stored == \A p \in Calls : pc[p] # "new" => cmd[p] \in Commands

\* Where the completed identities in the log and in stored commands come from.
Origins ==
  /\ \A i \in 1..Len(log) : log[i].src = "bound" /\ log[i].id # None
                             => Named(log, log[i].sys, log[i].id)
  /\ \A p \in Calls : pc[p] # "new" /\ cmd[p].src = "bound" /\ cmd[p].id # None
                      => Named(log, cmd[p].sys, cmd[p].id)

LInv == TypeOK /\ Queued /\ Stored /\ Origins

\* Less-than is well founded on the naturals.
LEMMA NatOrder == IsWellFoundedOn({s \in Nat \X Nat : s[1] < s[2]}, Nat)
  BY NatLessThanWellFounded DEF OpToRel

\* A nonempty set of naturals has a least element.
LEMMA LeastNatural ==
  ASSUME NEW T \in SUBSET Nat, T # {}
  PROVE  \E m \in T : \A k \in T : m <= k
<1>1. PICK m \in T : \A k \in T : ~(<<k, m>> \in {s \in Nat \X Nat : s[1] < s[2]})
  <2> DEFINE R == {s \in Nat \X Nat : s[1] < s[2]}
  <2>1. IsWellFoundedOn(R, Nat)
    BY NatOrder
  <2> HIDE DEF R
  <2>2. \E m \in T : \A k \in T : ~(<<k, m>> \in R)
    BY <2>1, WFMin
  <2> QED BY <2>2 DEF R
<1>2. ASSUME NEW k \in T PROVE m <= k
  <2>1. ~(<<k, m>> \in {s \in Nat \X Nat : s[1] < s[2]}) /\ m \in Nat /\ k \in Nat
    BY <1>1
  <2>2. ~(k < m)
    BY <2>1
  <2> QED BY <2>1, <2>2
<1> QED BY <1>2

\* A nonempty set of positions up to n has a last element.
LEMMA LastPosition ==
  ASSUME NEW n \in Nat, NEW T \in SUBSET (1..n), T # {}
  PROVE  \E m \in T : \A k \in T : k <= m
<1> DEFINE U == {n - i : i \in T}
<1>1. U \in SUBSET Nat /\ U # {}
  <2>1. \A i \in T : n - i \in Nat
    OBVIOUS
  <2> QED BY <2>1
<1>2. PICK d \in U : \A k \in U : d <= k
  BY <1>1, LeastNatural
<1>3. PICK m \in T : d = n - m
  BY <1>2
<1>4. ASSUME NEW k \in T PROVE k <= m
  <2>1. n - m <= n - k
    BY <1>2, <1>3
  <2> QED BY <2>1
<1> QED BY <1>4

\* The identity of the merged payload, when there is one, was named in the system.
LEMMA BoundIsNamed ==
  ASSUME TypeOK, Origins, NEW y \in Systems
  PROVE  /\ Bound(y) \in Ids \cup {None}
         /\ Bound(y) # None => Named(log, y, Bound(y))
<1>1. CASE Naming(y) = {}
  BY <1>1 DEF Bound
<1>2. CASE Naming(y) # {}
  <2> DEFINE i == CHOOSE i \in Naming(y) : \A j \in Naming(y) : j <= i
  <2>1. Naming(y) \in SUBSET (1..Len(log)) /\ Len(log) \in Nat
    BY DEF Naming, TypeOK
  <2>2. i \in Naming(y)
    BY <1>2, <2>1, LastPosition
  <2>3. /\ i \in 1..Len(log) /\ log[i].sys = y /\ log[i].id # None /\ Bound(y) = log[i].id
        /\ \E j \in 1..i : log[j].sys = y /\ log[j].op = "create_disabled"
    BY <1>2, <2>2 DEF Bound, Naming
  <2> HIDE DEF i
  <2>4. log[i] \in Commands
    BY <2>3, ElementOfSeq DEF TypeOK
  <2>5. log[i].src \in {"caller", "bound"} /\ log[i].id \in Ids \cup {None}
    BY <2>4 DEF Commands
  <2>6. Named(log, y, Bound(y))
    <3>1. CASE log[i].src = "caller"
      BY <2>3, <3>1 DEF Named
    <3>2. CASE log[i].src = "bound"
      BY <2>3, <3>2 DEF Origins
    <3> QED BY <2>5, <3>1, <3>2
  <2> QED BY <2>3, <2>5, <2>6
<1> QED BY <1>1, <1>2

\* A call that is submitted waits with its command, behind the others.
LEMMA SubmitStep ==
  ASSUME LInv, NEW p \in Calls, NEW c \in Commands, Submit(p, c),
         c.src = "bound" /\ c.id # None => Named(log, c.sys, c.id)
  PROVE  LInv'
<1>1. TypeOK'
  BY DEF LInv, Submit, TypeOK
<1>2. Queued'
  <2>1. queue' = Append(queue, p) /\ queue \in Seq(Calls)
    BY DEF LInv, Submit, TypeOK
  <2>2. Len(queue) + 1 \in 1..Len(queue') /\ queue'[Len(queue) + 1] = p
    BY <2>1
  <2>3. \A i \in 1..Len(queue) : i \in 1..Len(queue') /\ queue'[i] = queue[i]
    BY <2>1
  <2>4. \A q \in Calls \ {p} : pc'[q] = pc[q]
    BY DEF LInv, Submit, TypeOK
  <2> QED BY <2>2, <2>3, <2>4 DEF LInv, Queued
<1>3. Stored'
  BY DEF LInv, Submit, TypeOK, Stored
<1>4. Origins'
  BY DEF LInv, Submit, TypeOK, Origins, Named
<1> QED BY <1>1, <1>2, <1>3, <1>4 DEF LInv

\* The log grows at its end: what was named stays named.
LEMMA NamedStays ==
  ASSUME NEW l \in Seq(Commands), NEW c \in Commands, NEW y, NEW id, Named(l, y, id)
  PROVE  Named(Append(l, c), y, id)
<1>1. PICK i \in 1..Len(l) :
         /\ l[i].sys = y /\ l[i].id = id /\ l[i].src = "caller"
         /\ \E j \in 1..i : l[j].sys = y /\ l[j].op = "create_disabled"
  BY DEF Named
<1>2. i \in 1..Len(Append(l, c)) /\ \A j \in 1..i : Append(l, c)[j] = l[j]
  OBVIOUS
<1>3. i \in 1..i
  OBVIOUS
<1> QED BY <1>1, <1>2, <1>3 DEF Named

\* Every step keeps LInv.
LEMMA LifecycleStep == LInv /\ [Next]_vars => LInv'
<1> SUFFICES ASSUME LInv, [Next]_vars PROVE LInv'
  OBVIOUS
<1>1. ASSUME NEW p \in Calls, NEW y \in Systems, NEW own \in Ids \cup {None},
             NEW op \in {"create_disabled", "later"}, SubmitNamed(p, y, op, own)
      PROVE  LInv'
  <2> DEFINE c == [sys |-> y, op |-> op, id |-> own, src |-> "caller"]
  <2>1. c \in Commands /\ c.src # "bound"
    BY DEF Commands
  <2> QED BY <1>1, <2>1, SubmitStep DEF SubmitNamed
<1>2. ASSUME NEW p \in Calls, NEW y \in Systems, NEW own \in Ids \cup {None},
             SubmitLifecycle(p, y, own)
      PROVE  LInv'
  <2>1. CASE own = None
    <3> DEFINE c == [sys |-> y, op |-> "later", id |-> Bound(y), src |-> "bound"]
    <3>1. c \in Commands
      BY BoundIsNamed DEF LInv, Commands
    <3>2. c.id # None => Named(log, c.sys, c.id)
      BY BoundIsNamed DEF LInv
    <3> QED BY <1>2, <2>1, <3>1, <3>2, SubmitStep DEF SubmitLifecycle
  <2>2. CASE own # None
    BY <1>1, <1>2, <2>2 DEF SubmitLifecycle
  <2> QED BY <2>1, <2>2
<1>3. ASSUME NEW p \in Calls, Execute(p) PROVE LInv'
  <2>1. queue # <<>> /\ queue \in Seq(Calls)
    BY <1>3 DEF LInv, Queued, Execute, TypeOK
  <2>2. TypeOK'
    BY <1>3, <2>1 DEF LInv, TypeOK, Execute
  <2>3. Queued'
    <3>1. SUFFICES ASSUME NEW q \in Calls, pc'[q] = "wait"
                   PROVE  \E i \in 1..Len(queue') : queue'[i] = q
      BY DEF Queued
    <3>2. q # p /\ pc[q] = "wait"
      BY <1>3, <3>1 DEF Execute, LInv, TypeOK
    <3>3. PICK i \in 1..Len(queue) : queue[i] = q
      BY <3>2 DEF LInv, Queued
    <3>4. queue[1] = p /\ queue' = Tail(queue)
      BY <1>3, <2>1 DEF Execute
    <3>5. i - 1 \in 1..Len(queue') /\ queue'[i - 1] = q
      BY <2>1, <3>2, <3>3, <3>4
    <3> QED BY <3>5
  <2>4. /\ UNCHANGED <<log, cmd>>
        /\ \A q \in Calls : pc'[q] # "new" => pc[q] # "new"
    BY <1>3 DEF LInv, TypeOK, Execute
  <2>5. Stored'
    BY <2>4 DEF LInv, Stored
  <2>6. Origins'
    BY <2>4 DEF LInv, Origins, Named
  <2> QED BY <2>2, <2>3, <2>5, <2>6 DEF LInv
<1>4. ASSUME NEW p \in Calls, Succeed(p) PROVE LInv'
  <2>1. cmd[p] \in Commands /\ log' = Append(log, cmd[p]) /\ log \in Seq(Commands)
    BY <1>4 DEF LInv, Stored, Succeed, TypeOK
  <2>2. TypeOK'
    BY <1>4, <2>1 DEF LInv, TypeOK, Succeed
  <2>3. Queued' /\ Stored'
    BY <1>4 DEF LInv, TypeOK, Succeed, Queued, Stored
  <2>4. \A y, id : Named(log, y, id) => Named(log', y, id)
    BY <2>1, NamedStays
  <2>5. \A i \in 1..Len(log') : log'[i].src = "bound" /\ log'[i].id # None
                               => Named(log', log'[i].sys, log'[i].id)
    <3> SUFFICES ASSUME NEW i \in 1..Len(log'), log'[i].src = "bound", log'[i].id # None
                 PROVE  Named(log', log'[i].sys, log'[i].id)
      OBVIOUS
    <3>1. CASE i \in 1..Len(log)
      <4>1. log'[i] = log[i]
        BY <2>1, <3>1
      <4> QED BY <2>4, <3>1, <4>1 DEF LInv, Origins
    <3>2. CASE i \notin 1..Len(log)
      <4>1. log'[i] = cmd[p]
        BY <2>1, <3>2
      <4> QED BY <1>4, <2>4, <4>1 DEF LInv, Origins, Succeed
    <3> QED BY <3>1, <3>2
  <2>6. \A q \in Calls : pc'[q] # "new" /\ cmd'[q].src = "bound" /\ cmd'[q].id # None
                         => Named(log', cmd'[q].sys, cmd'[q].id)
    BY <1>4, <2>4 DEF LInv, Origins, Succeed, TypeOK
  <2>7. Origins'
    BY <2>5, <2>6 DEF Origins
  <2> QED BY <2>2, <2>3, <2>7 DEF LInv
<1>5. ASSUME NEW p \in Calls, NEW retry \in BOOLEAN, Fail(p, retry) PROVE LInv'
  <2>1. TypeOK' /\ Stored'
    BY <1>5 DEF LInv, TypeOK, Fail, Stored
  <2>2. Queued'
    BY <1>5 DEF LInv, TypeOK, Fail, Queued
  <2>3. /\ UNCHANGED <<log, cmd>>
        /\ \A q \in Calls : pc'[q] # "new" => pc[q] # "new"
    BY <1>5 DEF LInv, TypeOK, Fail
  <2>4. Origins'
    BY <2>3 DEF LInv, Origins, Named
  <2> QED BY <2>1, <2>2, <2>4 DEF LInv
<1>6. ASSUME NEW p \in Calls, Requeue(p) PROVE LInv'
  <2>1. TypeOK' /\ Stored'
    BY <1>6 DEF LInv, TypeOK, Requeue, Stored
  <2>2. Queued'
    BY <1>6 DEF LInv, TypeOK, Requeue, Queued
  <2>3. /\ UNCHANGED <<log, cmd>>
        /\ \A q \in Calls : pc'[q] # "new" => pc[q] # "new"
    BY <1>6 DEF LInv, TypeOK, Requeue
  <2>4. Origins'
    BY <2>3 DEF LInv, Origins, Named
  <2> QED BY <2>1, <2>2, <2>4 DEF LInv
<1>7. CASE UNCHANGED vars
  BY <1>7 DEF vars, LInv, TypeOK, Queued, Stored, Origins, Named
<1> QED BY <1>1, <1>2, <1>3, <1>4, <1>5, <1>6, <1>7 DEF Next

\* The first command finds an empty log and an empty queue.
LEMMA LifecycleInit == Init => LInv
  BY DEF Init, LInv, TypeOK, Queued, Stored, Origins

\* Where the identities of commands come from, in every reachable state.
THEOREM LifecycleInvariance == Spec => []LInv
  BY LifecycleInit, LifecycleStep, PTL DEF Spec

\* Every action of Lifecycle keeps the types of its variables: a call that gets the
\* lock takes itself out of the queue.
THEOREM LifecycleTyped == Spec => []TypeOK
<1>1. LInv => TypeOK
  BY DEF LInv
<1> QED BY <1>1, LifecycleInvariance, PTL

\* Whatever identity engine.lifecycle completes, a caller provided for the employee in
\* that system, through any chain of commands that copied it and however old the stored
\* payload is.
THEOREM IdentityIsOwn == Spec => []OwnIdentity
<1>1. LInv => OwnIdentity
  BY DEF LInv, Origins, OwnIdentity, Named, Provided
<1> QED BY <1>1, LifecycleInvariance, PTL
=============================================================================
