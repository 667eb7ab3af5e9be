------------------------ MODULE CallbackOutboxProofs ------------------------
(***************************************************************************)
(* Machine-checked proofs about CallbackOutbox, for any number of callers, *)
(* tries, crashes and rows per snapshot.                                   *)
(*                                                                         *)
(* The bound on tries needs what the posts to come may still add: a caller *)
(* posts once, and a snapshot holds an event once (Budget).  That the      *)
(* worker posts an event of its snapshot (OldestIsThere) needs that the    *)
(* order by created_at is total, which holds since an event is inserted    *)
(* once (Table). What the outbox keeps (Kept) is the safety half of what   *)
(* Drains promises.                                                        *)
(***************************************************************************)
EXTENDS CallbackOutbox, FiniteSetTheorems, SequenceTheorems, WellFoundedInduction, TLAPS

\* The places of the coroutines: the worker posts while its snapshot is not empty.
Places ==
  /\ \A c \in Callers : pc[c] \in {"new", "post", "ended"}
  /\ pc[Worker] \in {"rest", "loop", "post"}
  /\ pc[Worker] = "post" => batch # {}
  /\ pc[Worker] = "rest" => batch = {}

\* An event is inserted once, by its caller; only inserted events are posted.
Table ==
  /\ \A i, j \in 1..Len(log) : log[i] = log[j] => i = j
  /\ \A i \in 1..Len(log) : pc[log[i]] # "new"
  /\ \A c \in Callers : pc[c] = "new" => tries[c] = 0 /\ row[c] = "absent"
  /\ \A c \in Callers : pc[c] = "post" => row[c] # "absent"
  /\ \A c \in Callers : row[c] # "absent" => \E i \in 1..Len(log) : log[i] = c
  /\ \A c \in batch : row[c] # "absent"

\* The tries of an event, those of the posts that are under way or to come included.
Posts(c) == tries[c] + (IF pc[c] = "post" THEN 1 ELSE 0) + (IF c \in batch THEN 1 ELSE 0)

Budget == \A c \in Callers : Posts(c) <= MaxTries + 1

OInv == TypeOK /\ Places /\ Table /\ Budget

\* A nonempty set of positions has a first one.
LEMMA FirstPosition ==
  ASSUME NEW T \in SUBSET Nat, T # {}
  PROVE  \E m \in T : \A k \in T : m <= k
<1> DEFINE R == {s \in Nat \X Nat : s[1] < s[2]}
<1>1. IsWellFoundedOn(R, Nat)
  BY NatLessThanWellFounded DEF OpToRel
<1>2. \E m \in T : \A k \in T : ~(<<k, m>> \in R)
  <2> HIDE DEF R
  <2> QED BY <1>1, WFMin
<1>3. PICK m \in T : \A k \in T : ~(<<k, m>> \in R)
  BY <1>2
<1>4. ASSUME NEW k \in T PROVE m <= k
  <2>1. ~(<<k, m>> \in R) /\ m \in Nat /\ k \in Nat
    BY <1>3
  <2>2. ~(k < m)
    BY <2>1
  <2> QED BY <2>1, <2>2
<1> QED BY <1>4

\* The worker posts an event of its snapshot.
LEMMA OldestIsThere ==
  ASSUME TypeOK, Table, batch # {}
  PROVE  Oldest(batch) \in batch
<1> DEFINE T == {i \in 1..Len(log) : log[i] \in batch}
<1>1. T \in SUBSET Nat /\ T # {}
  <2>1. PICK c \in batch : c \in Callers /\ row[c] # "absent"
    BY DEF TypeOK, Table
  <2>2. \E i \in 1..Len(log) : log[i] = c
    BY <2>1 DEF Table
  <2> QED BY <2>2
<1>2. PICK m \in T : \A k \in T : m <= k
  BY <1>1, FirstPosition
<1>3. ASSUME NEW o \in batch, Older(o, log[m]) PROVE FALSE
  <2>1. PICK i \in 1..Len(log), j \in 1..Len(log) : i < j /\ log[i] = o /\ log[j] = log[m]
    BY <1>3 DEF Older
  <2>2. j = m
    BY <2>1 DEF Table
  <2> QED BY <1>2, <2>1, <2>2 DEF TypeOK
<1>4. \E ev \in batch : \A o \in batch : ~Older(o, ev)
  BY <1>3
<1> QED BY <1>4 DEF Oldest

\* A post in flight is about an event that was inserted.
LEMMA EventIsPosted ==
  ASSUME TypeOK, Places, Table, NEW p \in Procs, pc[p] = "post"
  PROVE  /\ EventOf(p) \in Callers
         /\ p = Worker => EventOf(p) \in batch
         /\ p # Worker => p \in Callers /\ EventOf(p) = p
<1>1. CASE p = Worker
  BY <1>1, OldestIsThere DEF EventOf, Places, TypeOK
<1>2. CASE p # Worker
  BY <1>2 DEF EventOf, Procs
<1> QED BY <1>1, <1>2

\* Nothing is stored, posted or processed at the start.
LEMMA OutboxInit == Init => OInv
  BY OutboxConstants DEF Init, OInv, TypeOK, Places, Table, Budget, Posts, Procs

\* An insert, and the caller's first post.
LEMMA EnqueueStep ==
  ASSUME OInv, NEW c \in Callers, Enqueue(c)
  PROVE  OInv'
<1> USE OutboxConstants DEF OInv, Enqueue
<1>1. TypeOK'
  BY DEF TypeOK, Procs
<1>2. Places'
  BY DEF TypeOK, Places, Procs
<1>3. /\ log' = Append(log, c) /\ log \in Seq(Callers) /\ Len(log') = Len(log) + 1
      /\ log'[Len(log) + 1] = c
      /\ \A i \in 1..Len(log) : log'[i] = log[i] /\ log[i] \in Callers
  BY DEF TypeOK
<1>4. /\ pc[c] = "new" /\ pc'[c] = "post" /\ \A x \in Callers \ {c} : pc'[x] = pc[x]
      /\ row[c] = "absent" /\ row'[c] = "pending"
      /\ \A x \in Callers \ {c} : row'[x] = row[x]
  BY DEF TypeOK, Table, Procs
<1>5. Table'
  <2>1. \A i \in 1..Len(log) : log[i] # c
    BY <1>4 DEF Table
  <2>2. \A i, j \in 1..Len(log') : log'[i] = log'[j] => i = j
    BY <1>3, <2>1 DEF Table
  <2>3. \A i \in 1..Len(log') : pc'[log'[i]] # "new"
    BY <1>3, <1>4 DEF Table
  <2>4. \A x \in Callers : pc'[x] = "new" => tries'[x] = 0 /\ row'[x] = "absent"
    BY <1>4 DEF Table
  <2>5. \A x \in Callers : row'[x] # "absent" => \E i \in 1..Len(log') : log'[i] = x
    <3> SUFFICES ASSUME NEW x \in Callers, row'[x] # "absent"
                 PROVE  \E i \in 1..Len(log') : log'[i] = x
      OBVIOUS
    <3>1. CASE x = c
      BY <1>3, <3>1
    <3>2. CASE x # c
      <4>1. PICK i \in 1..Len(log) : log[i] = x
        BY <1>4, <3>2 DEF Table
      <4>2. i \in 1..Len(log') /\ log'[i] = x
        BY <1>3, <4>1
      <4> QED BY <4>2
    <3> QED BY <3>1, <3>2
  <2>6. /\ \A x \in batch' : row'[x] # "absent"
        /\ \A x \in Callers : pc'[x] = "post" => row'[x] # "absent"
    BY <1>4 DEF Table, TypeOK
  <2> QED BY <2>2, <2>3, <2>4, <2>5, <2>6 DEF Table
<1>6. Budget'
  <2>1. c \notin batch /\ tries[c] = 0
    BY <1>4 DEF Table
  <2> QED BY <1>4, <2>1 DEF Budget, Posts, TypeOK
<1> QED BY <1>1, <1>2, <1>5, <1>6

\* An answer, or the lack of one, uses up one of the posts that Posts counts.
LEMMA AnswerStep ==
  ASSUME OInv, NEW p \in Procs, NEW ok \in BOOLEAN, Answer(p, ok)
  PROVE  OInv'
<1> DEFINE ev == EventOf(p)
<1>1. /\ ev \in Callers /\ (p = Worker => ev \in batch)
      /\ p # Worker => p \in Callers /\ ev = p
  BY EventIsPosted DEF Answer, OInv
<1>2. /\ pc[p] = "post" /\ (p # Worker => pc[Worker] # "loop")
      /\ pc' = [pc EXCEPT ![p] = IF p = Worker THEN "loop" ELSE "ended"]
      /\ batch' = IF p = Worker THEN batch \ {ev} ELSE batch
      /\ UNCHANGED <<log, crashes>>
  BY DEF Answer
<1>3. /\ row' = [row EXCEPT ![ev] = row'[ev]] /\ tries' = [tries EXCEPT ![ev] = @ + 1]
      /\ row'[ev] \in {"pending", "delivered", "failed"}
      /\ later' \subseteq later \cup {ev}
  <2> HIDE DEF ev
  <2>1. MarkCallback(ev, ok)
    BY DEF Answer, ev
  <2> QED BY <1>1, <2>1 DEF MarkCallback, OInv, TypeOK
<1> HIDE DEF ev
<1> USE OutboxConstants DEF OInv
<1>4. TypeOK'
  <2>1. row' \in [Callers -> {"absent", "pending", "delivered", "failed"}]
    BY <1>1, <1>3 DEF TypeOK
  <2>2. tries' \in [Callers -> Nat]
    BY <1>1, <1>3 DEF TypeOK
  <2>3. pc' \in [Procs -> {"new", "post", "rest", "loop", "ended"}]
    BY <1>2 DEF TypeOK
  <2> QED BY <1>1, <1>2, <1>3, <2>1, <2>2, <2>3 DEF TypeOK
<1>5. /\ \A x \in Callers : x # p => pc'[x] = pc[x]
      /\ pc'[p] = IF p = Worker THEN "loop" ELSE "ended"
      /\ p # Worker => pc'[Worker] = pc[Worker]
  BY <1>2 DEF TypeOK, Procs
<1>6. Places'
  BY <1>1, <1>2, <1>5 DEF Places
<1>7. /\ \A x \in Callers \ {ev} : row'[x] = row[x] /\ tries'[x] = tries[x]
      /\ row[ev] # "absent" /\ tries'[ev] = tries[ev] + 1
  <2>1. row[ev] # "absent"
    <3>1. CASE p = Worker
      BY <1>1, <3>1 DEF Table
    <3>2. CASE p # Worker
      BY <1>1, <1>2, <3>2 DEF Table
    <3> QED BY <3>1, <3>2
  <2> QED BY <1>1, <1>3, <2>1 DEF TypeOK
<1>8. Table'
  <2>1. \A x \in Callers : pc'[x] \in {"new", "post"} => pc'[x] = pc[x] /\ x # p
    BY <1>5
  <2>2. \A x \in Callers : row'[x] # "absent" <=> row[x] # "absent"
    BY <1>3, <1>7
  <2>3. p \in Callers => pc[p] # "new"
    BY <1>2
  <2>4. \A i \in 1..Len(log') : pc'[log'[i]] # "new"
    <3> TAKE i \in 1..Len(log')
    <3>1. log'[i] = log[i] /\ log[i] \in Callers /\ pc[log[i]] # "new"
      BY <1>2 DEF Table, TypeOK
    <3> QED BY <2>1, <3>1
  <2>5. \A x \in Callers : pc'[x] = "new" => tries'[x] = 0 /\ row'[x] = "absent"
    BY <1>7, <2>1 DEF Table
  <2>6. \A x \in batch' : row'[x] # "absent"
    BY <1>2, <2>2 DEF Table, TypeOK
  <2> QED BY <1>2, <2>1, <2>2, <2>4, <2>5, <2>6 DEF Table
<1>9. Budget'
  BY <1>1, <1>2, <1>5, <1>7 DEF Budget, Posts, TypeOK
<1> QED BY <1>4, <1>6, <1>8, <1>9

\* A snapshot takes up only events that were not tried MaxTries times.
LEMMA DispatchStep ==
  ASSUME OInv, DispatchDue
  PROVE  OInv'
<1> USE OutboxConstants DEF OInv, DispatchDue
<1>1. /\ batch' \subseteq Callers
      /\ \A c \in batch' : row[c] = "pending" /\ tries[c] < MaxTries
  BY DEF DueCallbacks
<1>2. TypeOK' /\ Places'
  BY <1>1 DEF TypeOK, Places, Procs
<1>3. Table'
  BY <1>1 DEF Table, TypeOK, Procs
<1>4. Budget'
  BY <1>1 DEF Budget, Posts, TypeOK, Places, Procs
<1> QED BY <1>2, <1>3, <1>4

\* Every step keeps OInv.
LEMMA OutboxStep == OInv /\ [Next]_vars => OInv'
<1> SUFFICES ASSUME OInv, [Next]_vars PROVE OInv'
  OBVIOUS
<1>1. ASSUME NEW c \in Callers, Elapse(c) PROVE OInv'
  BY <1>1 DEF Elapse, OInv, TypeOK, Places, Table, Budget, Posts
<1>2. CASE DispatchNext
  BY <1>2, OutboxConstants
     DEF DispatchNext, OInv, TypeOK, Places, Table, Budget, Posts, Procs
<1>3. CASE Crash
  <2> USE OutboxConstants DEF OInv, Crash
  <2>1. TypeOK' /\ Places'
    BY <1>3 DEF TypeOK, Places, Procs
  <2>2. \A c \in Callers : pc'[c] = IF pc[c] = "new" THEN "new" ELSE "ended"
    BY <1>3 DEF Procs
  <2>3. Table'
    <3>1. UNCHANGED <<log, row, tries>> /\ batch' = {}
      BY <1>3
    <3>2. \A i \in 1..Len(log) : log[i] \in Callers
      BY DEF TypeOK
    <3>3. \A c \in Callers : /\ pc'[c] = "new" => pc[c] = "new"
                            /\ pc'[c] # "post"
      BY <2>2
    <3> QED BY <3>1, <3>2, <3>3 DEF Table
  <2>4. Budget'
    <3> SUFFICES ASSUME NEW c \in Callers PROVE Posts(c)' <= MaxTries + 1
      BY DEF Budget
    <3>1. tries'[c] = tries[c] /\ tries[c] \in Nat /\ c \notin batch' /\ pc'[c] # "post"
      BY <1>3, <2>2 DEF TypeOK
    <3>2. Posts(c) <= MaxTries + 1
      BY DEF Budget
    <3> QED BY <3>1, <3>2 DEF Posts
  <2> QED BY <2>1, <2>3, <2>4
<1>4. CASE UNCHANGED vars
  BY <1>4 DEF vars, OInv, TypeOK, Places, Table, Budget, Posts
<1> QED BY <1>1, <1>2, <1>3, <1>4, EnqueueStep, AnswerStep, DispatchStep
        DEF Next, PostAnswered, WorkerLoop

\* The outbox invariant, in every reachable state.
THEOREM OutboxInvariance == Spec => []OInv
  BY OutboxInit, OutboxStep, PTL DEF Spec

\* Every action of CallbackOutbox keeps the types of its variables: the worker posts
\* events of its snapshot only.
THEOREM OutboxTyped == Spec => []TypeOK
<1>1. OInv => TypeOK
  BY DEF OInv
<1> QED BY <1>1, OutboxInvariance, PTL

\* attempt_count never exceeds MaxTries + 1: due_callbacks reads it before the caller's
\* own post has been counted, once at most.
THEOREM TriesAreBounded == Spec => []PostBudget
<1>1. OInv => PostBudget
  <2>1. OInv => \A c \in Callers : tries[c] <= Posts(c) /\ Posts(c) \in Nat
    BY DEF OInv, TypeOK, Posts
  <2> QED BY <2>1, OutboxConstants DEF OInv, TypeOK, Budget, PostBudget
<1> QED BY <1>1, OutboxInvariance, PTL

-----------------------------------------------------------------------------
(* No event is lost: the safety half of Drains. *)

\* The events that due_callbacks chooses from.
Waiting ==
  {ev \in Callers : row[ev] = "pending" /\ tries[ev] < MaxTries /\ ev \notin later}

\* An event is in the table from the first await on; it is given up after MaxTries
\* tries and not before.
Kept ==
  \A c \in Callers : /\ pc[c] # "new" => row[c] # "absent"
                     /\ row[c] = "pending" => tries[c] < MaxTries
                     /\ row[c] = "failed" => tries[c] >= MaxTries

\* mark_callback gives an event up when it counts the last of its tries.
LEMMA KeptStep == OInv /\ Kept /\ [Next]_vars => Kept'
<1> SUFFICES ASSUME OInv, Kept, [Next]_vars, NEW c \in Callers
             PROVE  /\ pc'[c] # "new" => row'[c] # "absent"
                    /\ row'[c] = "pending" => tries'[c] < MaxTries
                    /\ row'[c] = "failed" => tries'[c] >= MaxTries
  BY DEF Kept
<1> USE OutboxConstants DEF OInv
<1>1. ASSUME NEW o \in Callers, Enqueue(o) PROVE Kept'
  <2>1. pc[o] = "new" /\ tries[o] = 0 /\ o # Worker
    BY <1>1 DEF Enqueue, Table
  <2>2. \A x \in Callers \ {o} : pc'[x] = pc[x] /\ row'[x] = row[x] /\ tries'[x] = tries[x]
    BY <1>1 DEF Enqueue, TypeOK
  <2>3. row'[o] = "pending" /\ tries'[o] = 0
    BY <1>1, <2>1 DEF Enqueue, TypeOK
  <2> QED BY <2>2, <2>3 DEF Kept
<1>2. ASSUME NEW p \in Procs, NEW ok \in BOOLEAN, Answer(p, ok) PROVE Kept'
  <2> DEFINE ev == EventOf(p)
  <2>1. pc[p] = "post" /\ ev \in Callers /\ row[ev] # "absent"
    <3>1. /\ pc[p] = "post" /\ ev \in Callers
          /\ p = Worker => ev \in batch
          /\ p # Worker => p \in Callers /\ ev = p
      BY <1>2, EventIsPosted DEF Answer
    <3> QED BY <3>1 DEF Table
  <2> HIDE DEF ev
  <2>2. MarkCallback(ev, ok)
    BY <1>2 DEF Answer, ev
  <2>3. \A x \in Callers : pc'[x] # "new" => pc[x] # "new"
    <3>1. pc' = [pc EXCEPT ![p] = IF p = Worker THEN "loop" ELSE "ended"]
      BY <1>2 DEF Answer
    <3> QED BY <2>1, <3>1 DEF TypeOK, Procs
  <2>4. \A x \in Callers \ {ev} : row'[x] = row[x] /\ tries'[x] = tries[x]
    BY <2>2 DEF MarkCallback, TypeOK
  <2>5. /\ tries'[ev] = tries[ev] + 1 /\ tries[ev] \in Nat
        /\ row'[ev] = "pending" => tries[ev] + 1 < MaxTries
        /\ row'[ev] = "failed" => tries[ev] + 1 >= MaxTries
        /\ row'[ev] \in {"pending", "delivered", "failed"}
    BY <2>1, <2>2 DEF MarkCallback, TypeOK
  <2> QED BY <2>3, <2>4, <2>5 DEF Kept
<1>3. CASE \/ \E o \in Callers : Elapse(o)
           \/ DispatchDue \/ DispatchNext
  <2>1. UNCHANGED <<row, tries>> /\ pc'[c] = pc[c]
    BY <1>3 DEF Elapse, DispatchDue, DispatchNext, TypeOK, Procs
  <2> QED BY <2>1 DEF Kept
<1>4. CASE Crash
  BY <1>4 DEF Crash, Kept, Procs
<1>5. CASE UNCHANGED vars
  BY <1>5 DEF vars, Kept
<1> QED BY <1>1, <1>2, <1>3, <1>4, <1>5 DEF Next, PostAnswered, WorkerLoop, Kept

\* The snapshot of due_callbacks holds each due event, or an older one.
LEMMA SnapshotServes ==
  ASSUME OInv, NEW c \in Waiting
  PROVE  \E d \in DueCallbacks : d = c \/ Older(d, c)
<1> DEFINE T == {i \in 1..Len(log) : log[i] \in Waiting}
<1> USE DEF OInv
<1>1. PICK k \in 1..Len(log) : log[k] = c
  BY DEF Table, Waiting
<1>2. T \in SUBSET Nat /\ k \in T
  BY <1>1
<1>3. PICK m \in T : \A i \in T : m <= i
  BY <1>2, FirstPosition
<1> DEFINE d == log[m]
<1>4. {o \in Waiting : Older(o, d)} = {}
  <2> SUFFICES ASSUME NEW o \in Waiting, Older(o, d) PROVE FALSE
    OBVIOUS
  <2>1. PICK i \in 1..Len(log), j \in 1..Len(log) : i < j /\ log[i] = o /\ log[j] = d
    BY DEF Older
  <2>2. j = m /\ i \in T
    BY <2>1 DEF Table
  <2> QED BY <1>3, <2>1, <2>2 DEF TypeOK
<1>5. d \in Waiting /\ Cardinality({o \in Waiting : Older(o, d)}) < Limit
  <2>1. d \in Waiting
    OBVIOUS
  <2>2. Cardinality({o \in Waiting : Older(o, d)}) = 0
    BY <1>4, FS_EmptySet, Zenon
  <2> QED BY <2>1, <2>2, OutboxConstants
<1>6. d \in DueCallbacks
  BY <1>5 DEF DueCallbacks, Waiting
<1>7. d = c \/ Older(d, c)
  <2>1. m <= k /\ m \in 1..Len(log) /\ Len(log) \in Nat
    BY <1>2, <1>3 DEF TypeOK
  <2>2. m = k \/ m < k
    BY <2>1
  <2> QED BY <1>1, <2>1, <2>2 DEF Older
<1> QED BY <1>6, <1>7

\* The outbox of callbacks.py keeps every event it was given: its row is there when the
\* first post is awaited, only an event that was tried MaxTries times is given up, and
\* one that is neither delivered nor given up is due later or has a snapshot that
\* serves it, or an older event, first. Crashes and racing answers change nothing.
THEOREM NothingIsLost == Spec => []NoEventLost
<1>1. Init => Kept
  BY OutboxConstants DEF Init, Kept, Procs
<1>2. OInv /\ Kept /\ [Next]_vars => Kept'
  BY KeptStep
<1>3. OInv /\ Kept => NoEventLost
  BY SnapshotServes DEF Kept, NoEventLost, Waiting
<1> QED BY <1>1, <1>2, <1>3, OutboxInvariance, PTL DEF Spec
=============================================================================
