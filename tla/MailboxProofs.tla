---------------------------- MODULE MailboxProofs ----------------------------
(***************************************************************************)
(* Machine-checked proofs about Mailbox, for any calls, addresses and      *)
(* idempotency keys.                                                       *)
(*                                                                         *)
(* The argument: whatever a provision has brought about stays so, because  *)
(* the provider keeps the identity of a mailbox, its licence and aliases,  *)
(* and nobody else's call takes them away; hence what a coroutine found    *)
(* out before it awaited still holds when it saves.                        *)
(***************************************************************************)
EXTENDS Mailbox, TLAPS

\* What a coroutine knows while it awaits the provider.
ProgressOf(p) ==
  LET b == box[addr[p]]
      l == pc[p]
      now == p \in landed IN
  /\ now => Awaiting(p)
  /\ l \notin Actions => read[p] = None
  /\ l \in Stages => key[p] \in Keys /\ addr[p] = AddressOf[key[p]]
  /\ l \in {"license", "alias", "activation"} \/ (l = "create" /\ now)
       => b \in Box /\ b.id = key[p]
  /\ l \in {"alias", "activation"} \/ (l = "license" /\ now) => b.licensed
  /\ l = "activation" \/ (l = "alias" /\ now) => b.aliased
  /\ l = "activation" /\ now => b.sent
  /\ l \in Actions => /\ rec[addr[p]] # None
                      /\ read[p].id = rec[addr[p]].id
                      /\ read[p].activated => "active" \in was[addr[p]]
  /\ l \in Actions /\ now => StateAfter(l) \in was[addr[p]]

Progress == \A p \in Calls : ProgressOf(p)

\* Every mailbox of the provider was created disabled.
Born == \A a \in Addresses : box[a] \in Box => "disabled" \in was[a]

IInv == TypeOK /\ Progress /\ Born /\ SavedIsComplete /\ ReplaysOwnRecord
        /\ RecordedHappened

\* No step takes back an identity, a licence, an alias, a message, a record or a
\* part of the history.
Grows ==
  \A a \in Addresses :
    /\ box[a] \in Box => /\ box'[a] \in Box /\ box'[a].id = box[a].id
                         /\ box[a].licensed => box'[a].licensed
                         /\ box[a].aliased => box'[a].aliased
                         /\ box[a].sent => box'[a].sent
    /\ rec[a] # None => rec'[a] # None /\ rec'[a].id = rec[a].id
    /\ was[a] \subseteq was'[a]

-----------------------------------------------------------------------------

\* A mailbox is not mistaken for a free address.
LEMMA NoBoxIsNone == NoBox \notin Box /\ \A k \in Keys : NoBox.id # k
<1>1. ASSUME NoBox \in Box PROVE FALSE
  <2>1. NoBox.id \in Keys
    BY <1>1 DEF Box
  <2> QED BY <2>1, MailboxConstants DEF NoBox
<1> QED BY <1>1, MailboxConstants DEF NoBox

\* A step in which a coroutine takes no part leaves what it knows true.
LEMMA OtherCall ==
  ASSUME TypeOK, NEW p \in Calls, ProgressOf(p), Grows,
         pc'[p] = pc[p], key'[p] = key[p], addr'[p] = addr[p], read'[p] = read[p],
         p \in landed' <=> p \in landed
  PROVE  ProgressOf(p)'
<1>1. Awaiting(p) => addr[p] \in Addresses
  BY DEF TypeOK
<1>2. Awaiting(p)' <=> Awaiting(p)
  BY DEF Awaiting
<1>3. CASE Awaiting(p)
  BY <1>1, <1>2, <1>3 DEF ProgressOf, Grows
<1>4. CASE ~Awaiting(p)
  BY <1>2, <1>4 DEF ProgressOf, Awaiting, Stages
<1> QED BY <1>3, <1>4

\* Nothing exists at the start.
LEMMA MailboxInit == Init => IInv
<1> SUFFICES ASSUME Init PROVE IInv
  OBVIOUS
<1>1. TypeOK
  BY DEF Init, TypeOK, Awaiting, Actions, Stages
<1>2. Progress
  BY DEF Init, Progress, ProgressOf, Actions, Stages
<1>3. Born
  BY NoBoxIsNone DEF Init, Born
<1>4. SavedIsComplete /\ ReplaysOwnRecord /\ RecordedHappened
  BY DEF Init, SavedIsComplete, ReplaysOwnRecord, RecordedHappened
<1> QED BY <1>1, <1>2, <1>3, <1>4 DEF IInv

\* A call that starts, or ends without a save, changes no record and no mailbox.
LEMMA CallStep ==
  ASSUME IInv, NEW p \in Calls, UNCHANGED <<db, box, was>>,
         \A q \in Calls \ {p} :
           /\ pc'[q] = pc[q] /\ key'[q] = key[q] /\ addr'[q] = addr[q]
           /\ read'[q] = read[q] /\ (q \in landed' <=> q \in landed),
         TypeOK', ProgressOf(p)'
  PROVE  IInv'
<1> USE DEF db
<1>1. Grows
  BY DEF Grows
<1>2. Progress'
  BY <1>1, OtherCall DEF IInv, Progress
<1>3. Born' /\ SavedIsComplete' /\ ReplaysOwnRecord' /\ RecordedHappened'
  BY DEF IInv, Born, SavedIsComplete, ReplaysOwnRecord, RecordedHappened
<1> QED BY <1>2, <1>3 DEF IInv

\* The start of a provision, replayed or not.
LEMMA ProvisionStep ==
  ASSUME IInv, NEW p \in Calls, NEW k \in Keys, StartProvision(p, k)
  PROVE  IInv'
<1>1. /\ TypeOK /\ ProgressOf(p) /\ AddressOf[k] \in Addresses
      /\ pc[p] = "new" /\ UNCHANGED <<db, box, read, landed, was>>
      /\ key' = [key EXCEPT ![p] = k]
      /\ \/ /\ pc' = [pc EXCEPT ![p] = "ended"] /\ UNCHANGED <<addr, mixed>>
         \/ /\ pc' = [pc EXCEPT ![p] = "check"]
            /\ addr' = [addr EXCEPT ![p] = AddressOf[k]]
            /\ mixed' \in {mixed, mixed \cup {AddressOf[k]}}
  BY MailboxConstants DEF StartProvision, Begin, IInv, Progress
<1>2. read[p] = None /\ p \notin landed
  BY <1>1 DEF ProgressOf, Awaiting, Actions, Stages
<1>3. /\ \A q \in Calls \ {p} :
           /\ pc'[q] = pc[q] /\ key'[q] = key[q] /\ addr'[q] = addr[q]
           /\ read'[q] = read[q] /\ (q \in landed' <=> q \in landed)
      /\ key'[p] = k /\ read'[p] = None /\ p \notin landed'
      /\ \/ pc'[p] = "ended"
         \/ pc'[p] = "check" /\ addr'[p] = AddressOf[k]
  BY <1>1, <1>2 DEF TypeOK
<1>4. TypeOK'
  <2>1. /\ pc' \in [Calls -> {"new", "ended"} \cup Actions \cup Stages]
        /\ key' \in [Calls -> Keys \cup {None}]
        /\ addr' \in [Calls -> Addresses \cup {None}]
        /\ mixed' \subseteq Addresses
    BY <1>1 DEF TypeOK, Stages
  <2>2. \A q \in Calls : Awaiting(q)' =>
          addr'[q] \in Addresses /\ (pc'[q] \in Actions <=> read'[q] # None)
    BY <1>1, <1>3 DEF TypeOK, Awaiting, Actions, Stages
  <2> QED BY <1>1, <2>1, <2>2 DEF TypeOK, db
<1>5. ProgressOf(p)'
  BY <1>3 DEF ProgressOf, Awaiting, Actions, Stages
<1> QED BY <1>1, <1>3, <1>4, <1>5, CallStep

\* The start of an operation on an existing record.
LEMMA ActionStep ==
  ASSUME IInv, NEW p \in Calls, NEW a \in Addresses, NEW op \in Actions,
         StartAction(p, a, op)
  PROVE  IInv'
<1>1. /\ TypeOK /\ ProgressOf(p) /\ rec[a] # None /\ rec[a] \in Record
      /\ pc[p] = "new" /\ UNCHANGED <<db, box, key, landed, was>>
      /\ pc' = [pc EXCEPT ![p] = op] /\ addr' = [addr EXCEPT ![p] = a]
      /\ read' = [read EXCEPT ![p] = rec[a]]
      /\ mixed' \in {mixed, mixed \cup {a}}
  BY DEF StartAction, Begin, IInv, Progress, TypeOK
<1>2. p \notin landed
  BY <1>1 DEF ProgressOf, Awaiting, Actions, Stages
<1>3. /\ \A q \in Calls \ {p} :
           /\ pc'[q] = pc[q] /\ key'[q] = key[q] /\ addr'[q] = addr[q]
           /\ read'[q] = read[q] /\ (q \in landed' <=> q \in landed)
      /\ pc'[p] = op /\ addr'[p] = a /\ read'[p] = rec[a] /\ p \notin landed'
      /\ rec' = rec /\ was' = was
  BY <1>1, <1>2 DEF TypeOK, db
<1>4. TypeOK'
  <2>1. /\ pc' \in [Calls -> {"new", "ended"} \cup Actions \cup Stages]
        /\ addr' \in [Calls -> Addresses \cup {None}]
        /\ read' \in [Calls -> Record \cup {None}]
        /\ mixed' \subseteq Addresses
    BY <1>1 DEF TypeOK
  <2>2. \A q \in Calls : Awaiting(q)' =>
          addr'[q] \in Addresses /\ (pc'[q] \in Actions <=> read'[q] # None)
    BY <1>1, <1>3 DEF TypeOK, Awaiting
  <2> QED BY <1>1, <2>1, <2>2 DEF TypeOK, db
<1>5. ProgressOf(p)'
  <2>1. rec[a].activated => "active" \in was[a]
    BY <1>1 DEF IInv, RecordedHappened
  <2>2. op \notin Stages
    BY DEF Actions, Stages
  <2> QED BY <1>1, <1>3, <2>1, <2>2 DEF ProgressOf, Stages
<1> QED BY <1>1, <1>3, <1>4, <1>5, CallStep

\* A call that raises.
LEMMA RaiseStep ==
  ASSUME IInv, NEW p \in Calls, Raise(p)
  PROVE  IInv'
<1>1. /\ TypeOK /\ Awaiting(p) /\ UNCHANGED <<db, box, key, addr, was>>
      /\ pc' = [pc EXCEPT ![p] = "ended"] /\ read' = [read EXCEPT ![p] = None]
      /\ landed' = landed \ {p} /\ mixed' \in {mixed, mixed \cup {addr[p]}}
      /\ addr[p] \in Addresses
  BY DEF Raise, IInv, TypeOK
<1>2. /\ \A q \in Calls \ {p} :
           /\ pc'[q] = pc[q] /\ key'[q] = key[q] /\ addr'[q] = addr[q]
           /\ read'[q] = read[q] /\ (q \in landed' <=> q \in landed)
      /\ pc'[p] = "ended" /\ read'[p] = None /\ p \notin landed'
  BY <1>1 DEF TypeOK
<1>3. TypeOK'
  <2>1. /\ pc' \in [Calls -> {"new", "ended"} \cup Actions \cup Stages]
        /\ read' \in [Calls -> Record \cup {None}]
        /\ mixed' \subseteq Addresses /\ landed' \subseteq Calls
    BY <1>1 DEF TypeOK
  <2>2. \A q \in Calls : Awaiting(q)' =>
          addr'[q] \in Addresses /\ (pc'[q] \in Actions <=> read'[q] # None)
    BY <1>1, <1>2 DEF TypeOK, Awaiting, Actions, Stages
  <2> QED BY <1>1, <2>1, <2>2 DEF TypeOK, db
<1>4. ProgressOf(p)'
  BY <1>2 DEF ProgressOf, Actions, Stages
<1> QED BY <1>1, <1>2, <1>3, <1>4, CallStep

\* What a provider call makes of the mailbox it finds.
LEMMA ChangedBox ==
  ASSUME IInv, NEW p \in Calls, Awaiting(p), Accepts(p, box[addr[p]]),
         NEW v, v = Changed(p, box[addr[p]])
  PROVE  /\ v \in Box \cup {NoBox}
         /\ box[addr[p]] \in Box =>
              /\ v \in Box /\ v.id = box[addr[p]].id
              /\ box[addr[p]].licensed => v.licensed
              /\ box[addr[p]].aliased => v.aliased
              /\ box[addr[p]].sent => v.sent
         /\ box[addr[p]] \notin Box /\ v \in Box => v.state = "disabled"
         /\ pc[p] = "create" => v \in Box /\ v.id = key[p]
         /\ pc[p] = "license" => v.licensed
         /\ pc[p] = "alias" => v.aliased
         /\ pc[p] = "activation" => v.sent
         /\ pc[p] \in Actions => v \in Box /\ v.state = StateAfter(pc[p])
<1> DEFINE b == box[addr[p]]
<1>1. /\ TypeOK /\ ProgressOf(p) /\ addr[p] \in Addresses /\ b \in Box \cup {NoBox}
      /\ pc[p] \in Actions \cup Stages
  BY DEF IInv, TypeOK, Progress, Awaiting
<1>2. pc[p] \in Actions => pc[p] \notin Stages
  BY DEF Actions, Stages
<1>3. CASE pc[p] \in {"check", "reserve"}
  <2>1. v = b
    BY <1>3 DEF Changed, Actions
  <2> QED BY <1>1, <1>3, <2>1 DEF Actions
<1>4. CASE pc[p] = "create"
  <2>1. key[p] \in Keys
    BY <1>1, <1>4 DEF ProgressOf, Stages
  <2>2. CASE b = NoBox
    <3>1. v = [id |-> key[p], state |-> "disabled", licensed |-> FALSE,
               aliased |-> FALSE, sent |-> FALSE]
      BY <1>4, <2>2 DEF Changed, Actions
    <3>2. v \in Box /\ v.id = key[p] /\ v.state = "disabled"
      BY <2>1, <3>1 DEF Box
    <3> QED BY <1>4, <2>2, <3>2, NoBoxIsNone DEF Actions
  <2>3. CASE b # NoBox
    <3>1. v = b /\ b.id \in {None, key[p]}
      BY <1>4, <2>3 DEF Changed, Actions, Accepts
    <3>2. b \in Box /\ b.id # None
      BY <1>1, <2>3, MailboxConstants DEF Box
    <3> QED BY <1>4, <3>1, <3>2 DEF Actions
  <2> QED BY <2>2, <2>3
<1>5. CASE pc[p] = "license"
  <2>1. b \in Box /\ v = [b EXCEPT !.licensed = TRUE]
    BY <1>1, <1>5 DEF Changed, Actions, ProgressOf
  <2>2. v \in Box
    BY <2>1, Zenon DEF Box
  <2>3. /\ v.id = b.id /\ v.licensed = TRUE /\ v.aliased = b.aliased
        /\ v.sent = b.sent
    BY <2>1 DEF Box
  <2> QED BY <1>5, <2>1, <2>2, <2>3 DEF Actions
<1>6. CASE pc[p] = "alias"
  <2>1. b \in Box /\ v = [b EXCEPT !.aliased = TRUE]
    BY <1>1, <1>6 DEF Changed, Actions, ProgressOf
  <2>2. v \in Box
    BY <2>1, Zenon DEF Box
  <2>3. /\ v.id = b.id /\ v.licensed = b.licensed /\ v.aliased = TRUE
        /\ v.sent = b.sent
    BY <2>1 DEF Box
  <2> QED BY <1>6, <2>1, <2>2, <2>3 DEF Actions
<1>7. CASE pc[p] = "activation"
  <2>1. b \in Box /\ v = [b EXCEPT !.sent = TRUE]
    BY <1>1, <1>7 DEF Changed, ProgressOf, Actions
  <2>2. v \in Box
    BY <2>1, Zenon DEF Box
  <2>3. /\ v.id = b.id /\ v.licensed = b.licensed /\ v.aliased = b.aliased
        /\ v.sent = TRUE
    BY <2>1 DEF Box
  <2> QED BY <1>7, <2>1, <2>2, <2>3 DEF Actions
<1>8. CASE pc[p] \in Actions
  <2>1. b \in Box
    <3>1. rec[addr[p]] # None /\ rec[addr[p]] \in Record
      BY <1>1, <1>8 DEF ProgressOf, TypeOK
    <3>2. b.id \in Keys
      BY <1>1, <3>1 DEF IInv, SavedIsComplete, Record
    <3> QED BY <1>1, <3>2, NoBoxIsNone
  <2>2. v = [b EXCEPT !.state = StateAfter(pc[p])]
    BY <1>8 DEF Changed, Actions
  <2>3. StateAfter(pc[p]) \in States
    BY <1>8 DEF StateAfter, States, Actions
  <2>4. v \in Box
    <3> DEFINE x == StateAfter(pc[p])
    <3>1. x \in States \cup {"disabled"} /\ v = [b EXCEPT !.state = x]
      BY <2>2, <2>3
    <3> HIDE DEF x
    <3> QED BY <2>1, <3>1, Zenon DEF Box
  <2>5. /\ v.id = b.id /\ v.licensed = b.licensed /\ v.aliased = b.aliased
        /\ v.sent = b.sent /\ v.state = StateAfter(pc[p])
    BY <2>1, <2>2 DEF Box
  <2> QED BY <1>8, <2>1, <2>4, <2>5 DEF Actions
<1> QED BY <1>1, <1>3, <1>4, <1>5, <1>6, <1>7, <1>8 DEF Stages

\* A provider call takes effect.
LEMMA LandStep ==
  ASSUME IInv, NEW p \in Calls, Land(p)
  PROVE  IInv'
<1> DEFINE a == addr[p]
           b == box[a]
           v == box'[a]
<1>1. /\ TypeOK /\ ProgressOf(p) /\ Awaiting(p) /\ p \notin landed
      /\ a \in Addresses /\ Accepts(p, b)
      /\ UNCHANGED <<rec, done, pc, key, addr, read, mixed>>
      /\ landed' = landed \cup {p}
  BY DEF Land, IInv, TypeOK, Progress, db
<1>2. /\ box' = [box EXCEPT ![a] = Changed(p, b)]
      /\ was' = [was EXCEPT ![a] = (was[a] \cup {v.state}) \ {"absent"}]
  BY DEF Land
<1>3. v = Changed(p, b) /\ \A x \in Addresses \ {a} : box'[x] = box[x]
  BY <1>1, <1>2 DEF TypeOK
<1>4. /\ v \in Box \cup {NoBox}
      /\ b \in Box => /\ v \in Box /\ v.id = b.id
                      /\ b.licensed => v.licensed
                      /\ b.aliased => v.aliased
                      /\ b.sent => v.sent
      /\ b \notin Box /\ v \in Box => v.state = "disabled"
      /\ pc[p] = "create" => v \in Box /\ v.id = key[p]
      /\ pc[p] = "license" => v.licensed
      /\ pc[p] = "alias" => v.aliased
      /\ pc[p] = "activation" => v.sent
      /\ pc[p] \in Actions => v \in Box /\ v.state = StateAfter(pc[p])
  BY <1>1, <1>3, ChangedBox
<1>5. /\ v.state \in States \cup {"disabled", "absent"}
      /\ v \in Box => v.state # "absent"
  BY <1>4 DEF Box, NoBox, States
<1>6. /\ was' \in [Addresses -> SUBSET (States \cup {"disabled"})]
      /\ was[a] \subseteq was'[a] /\ (v \in Box => v.state \in was'[a])
      /\ \A x \in Addresses \ {a} : was'[x] = was[x]
  <2>1. was[a] \in SUBSET (States \cup {"disabled"}) /\ "absent" \notin was[a]
    BY <1>1 DEF TypeOK, States
  <2>2. was'[a] = (was[a] \cup {v.state}) \ {"absent"}
    BY <1>1, <1>2 DEF TypeOK
  <2>3. was'[a] \in SUBSET (States \cup {"disabled"})
    BY <1>5, <2>1, <2>2
  <2>4. was' = [was EXCEPT ![a] = was'[a]] /\ \A x \in Addresses \ {a} : was'[x] = was[x]
    BY <1>1, <1>2 DEF TypeOK
  <2> QED BY <1>1, <1>5, <2>1, <2>2, <2>3, <2>4 DEF TypeOK
<1>7. Grows
  BY <1>1, <1>3, <1>4, <1>6 DEF Grows
<1>8. TypeOK'
  <2>1. box' \in [Addresses -> Box \cup {NoBox}]
    BY <1>1, <1>2, <1>3, <1>4 DEF TypeOK
  <2>2. \A q \in Calls : Awaiting(q)' =>
          addr'[q] \in Addresses /\ (pc'[q] \in Actions <=> read'[q] # None)
    BY <1>1 DEF TypeOK, Awaiting
  <2> QED BY <1>1, <1>6, <2>1, <2>2 DEF TypeOK
<1>9. ProgressOf(p)'
  <2>1. pc[p] \in {"license", "alias", "activation"} => b \in Box /\ b.id = key[p]
    BY <1>1 DEF ProgressOf
  <2>2. /\ pc[p] \in {"alias", "activation"} => b.licensed
        /\ pc[p] = "activation" => b.aliased
    BY <1>1 DEF ProgressOf
  <2>3. pc[p] \in Actions => StateAfter(pc[p]) \in was'[a]
    BY <1>4, <1>6
  <2>4. Awaiting(p)'
    BY <1>1 DEF Awaiting
  <2>5. pc[p] \in Actions => /\ rec[a] # None /\ read[p].id = rec[a].id
                             /\ read[p].activated => "active" \in was'[a]
    BY <1>1, <1>6 DEF ProgressOf
  <2>6. /\ pc[p] \notin Actions => read[p] = None
        /\ pc[p] \in Stages => key[p] \in Keys /\ addr[p] = AddressOf[key[p]]
    BY <1>1 DEF ProgressOf
  <2>7. pc' = pc /\ key' = key /\ addr' = addr /\ read' = read /\ rec' = rec
    BY <1>1
  <2> HIDE DEF v, b
  <2> QED
    BY <1>4, <2>1, <2>2, <2>3, <2>4, <2>5, <2>6, <2>7 DEF ProgressOf, v, b, a
<1>10. Progress'
  <2>1. ASSUME NEW q \in Calls \ {p} PROVE ProgressOf(q)'
    BY <1>1, <1>7, <2>1, OtherCall DEF IInv, Progress
  <2> QED BY <1>9, <2>1 DEF Progress
<1>11. Born'
  BY <1>1, <1>3, <1>4, <1>6 DEF IInv, Born
<1>12. SavedIsComplete'
  <2>1. \A x \in Addresses : rec[x] # None => box[x] \in Box
    <3>1. ASSUME NEW x \in Addresses, rec[x] # None PROVE box[x].id \in Keys
      BY <1>1, <3>1 DEF IInv, SavedIsComplete, TypeOK, Record
    <3> QED BY <1>1, <3>1, NoBoxIsNone DEF TypeOK
  <2> QED BY <1>1, <1>7, <2>1 DEF IInv, SavedIsComplete, Grows
<1>13. ReplaysOwnRecord' /\ RecordedHappened'
  BY <1>1, <1>7 DEF IInv, ReplaysOwnRecord, RecordedHappened, Grows
<1> QED BY <1>8, <1>10, <1>11, <1>12, <1>13 DEF IInv

\* A mailbox whose record was saved exists.
LEMMA RecordHasBox ==
  ASSUME IInv, NEW a \in Addresses, rec[a] # None
  PROVE  box[a] \in Box /\ rec[a] \in Record /\ box[a].id = rec[a].id
<1>1. rec[a] \in Record /\ box[a].id = rec[a].id
  BY DEF IInv, TypeOK, SavedIsComplete
<1>2. box[a].id \in Keys
  BY <1>1 DEF Record
<1> QED BY <1>1, <1>2, NoBoxIsNone DEF IInv, TypeOK

\* A provision is answered: it goes on, or saves its record and its request.
LEMMA AdvanceStep ==
  ASSUME IInv, NEW p \in Calls, Advance(p)
  PROVE  IInv'
<1> DEFINE a == addr[p]
           r == [id |-> box[a].id, activated |-> FALSE, state |-> "awaiting_activation"]
<1>1. /\ TypeOK /\ ProgressOf(p) /\ pc[p] \in Stages /\ p \in landed /\ a \in Addresses
      /\ pc' = [pc EXCEPT ![p] = After(pc[p])] /\ landed' = landed \ {p}
      /\ UNCHANGED <<box, key, addr, read, was, mixed>>
  BY DEF Advance, IInv, Progress, TypeOK, Awaiting
<1>2. /\ read[p] = None /\ key[p] \in Keys /\ a = AddressOf[key[p]]
  BY <1>1 DEF ProgressOf, Stages, Actions
<1>3. /\ \A q \in Calls \ {p} :
           /\ pc'[q] = pc[q] /\ key'[q] = key[q] /\ addr'[q] = addr[q]
           /\ read'[q] = read[q] /\ (q \in landed' <=> q \in landed)
      /\ pc'[p] = After(pc[p]) /\ p \notin landed' /\ read'[p] = None
  BY <1>1, <1>2 DEF TypeOK
<1>4. After(pc[p]) \in Stages \cup {"ended"} /\ After(pc[p]) \notin Actions
  BY <1>1 DEF After, Stages, Actions
<1>5. ProgressOf(p)'
  <2>1. /\ After(pc[p]) = "license" => pc[p] = "create"
        /\ After(pc[p]) = "alias" => pc[p] = "license"
        /\ After(pc[p]) = "activation" => pc[p] = "alias"
    BY <1>1 DEF After, Stages
  <2>2. /\ pc[p] \in {"create", "license", "alias"} => box[a] \in Box /\ box[a].id = key[p]
        /\ pc[p] \in {"license", "alias"} => box[a].licensed
        /\ pc[p] = "alias" => box[a].aliased
    BY <1>1 DEF ProgressOf
  <2> QED BY <1>1, <1>2, <1>3, <1>4, <2>1, <2>2 DEF ProgressOf
<1>6. ASSUME UNCHANGED db PROVE IInv'
  <2>1. TypeOK'
    <3>1. pc' \in [Calls -> {"new", "ended"} \cup Actions \cup Stages]
          /\ landed' \subseteq Calls
      BY <1>1, <1>4 DEF TypeOK
    <3>2. \A q \in Calls : Awaiting(q)' =>
            addr'[q] \in Addresses /\ (pc'[q] \in Actions <=> read'[q] # None)
      BY <1>1, <1>3, <1>4 DEF TypeOK, Awaiting
    <3> QED BY <1>1, <1>6, <3>1, <3>2 DEF TypeOK, db
  <2> QED BY <1>1, <1>3, <1>5, <1>6, <2>1, CallStep
<1>7. ASSUME pc[p] = "activation", rec' = [rec EXCEPT ![a] = r],
             done' = done \cup {key[p]}
      PROVE  IInv'
  <2>1. /\ box[a] \in Box /\ box[a].id = key[p]
        /\ box[a].licensed /\ box[a].aliased /\ box[a].sent
    BY <1>1, <1>7 DEF ProgressOf
  <2>2. /\ rec'[a] = r /\ r \in Record /\ r # None
        /\ \A x \in Addresses \ {a} : rec'[x] = rec[x]
    <3>1. r \in Record
      BY <1>2, <2>1 DEF Record
    <3>2. r # None
      BY <3>1, MailboxConstants
    <3> HIDE DEF r
    <3> QED BY <1>1, <1>7, <3>1, <3>2 DEF TypeOK
  <2>3. r.id = key[p] /\ r.activated = FALSE /\ r.state = "awaiting_activation"
    BY <2>1
  <2> HIDE DEF r
  <2>4. rec[a] # None => rec[a].id = key[p]
    BY <1>1, <2>1, RecordHasBox
  <2>5. Grows
    BY <1>1, <2>2, <2>3, <2>4 DEF Grows
  <2>6. TypeOK'
    <3>1. pc' \in [Calls -> {"new", "ended"} \cup Actions \cup Stages]
          /\ landed' \subseteq Calls
      BY <1>1, <1>4 DEF TypeOK
    <3>2. \A q \in Calls : Awaiting(q)' =>
            addr'[q] \in Addresses /\ (pc'[q] \in Actions <=> read'[q] # None)
      BY <1>1, <1>3, <1>4 DEF TypeOK, Awaiting
    <3>3. rec' \in [Addresses -> Record \cup {None}] /\ done' \subseteq Keys
      BY <1>1, <1>2, <1>7, <2>2 DEF TypeOK
    <3> QED BY <1>1, <3>1, <3>2, <3>3 DEF TypeOK
  <2>7. Progress'
    <3>1. ASSUME NEW q \in Calls \ {p} PROVE ProgressOf(q)'
      BY <1>1, <1>3, <2>5, <3>1, OtherCall DEF IInv, Progress
    <3> QED BY <1>5, <3>1 DEF Progress
  <2>8. Born'
    BY <1>1 DEF IInv, Born
  <2>9. SavedIsComplete'
    BY <1>1, <2>1, <2>2, <2>3 DEF IInv, SavedIsComplete
  <2>10. ReplaysOwnRecord'
    <3>1. ASSUME NEW k \in done' PROVE rec'[AddressOf[k]] # None /\ rec'[AddressOf[k]].id = k
      <4>1. CASE k \in done
        <5>1. AddressOf[k] \in Addresses
          BY <1>1, <4>1, MailboxConstants DEF TypeOK
        <5> QED BY <2>5, <4>1, <5>1 DEF IInv, ReplaysOwnRecord, Grows
      <4>2. CASE k = key[p]
        BY <1>2, <2>2, <2>3, <4>2
      <4> QED BY <1>7, <3>1, <4>1, <4>2
    <3> QED BY <3>1 DEF ReplaysOwnRecord
  <2>11. RecordedHappened'
    <3>1. "disabled" \in was[a]
      BY <1>1, <2>1 DEF IInv, Born
    <3> QED BY <1>1, <2>2, <2>3, <3>1 DEF IInv, RecordedHappened
  <2> QED BY <2>6, <2>7, <2>8, <2>9, <2>10, <2>11 DEF IInv
<1> QED BY <1>6, <1>7 DEF Advance

\* _replace keeps the identity of a record.
LEMMA ReplacedRecord ==
  ASSUME NEW r \in Record, NEW op \in Actions
  PROVE  /\ Replaced(r, op) \in Record
         /\ Replaced(r, op).id = r.id /\ Replaced(r, op).state = StateAfter(op)
         /\ Replaced(r, op).activated => r.activated \/ op = "activate"
<1> DEFINE x == StateAfter(op)
           y == r.activated \/ op = "activate"
           v == Replaced(r, op)
<1>1. v = [r EXCEPT !.state = x, !.activated = y]
  BY DEF Replaced
<1>2. x \in States \cup {"awaiting_activation"} /\ y \in BOOLEAN
  BY DEF StateAfter, States, Actions
<1> HIDE DEF x, y, v
<1>3. v \in Record
  BY <1>1, <1>2, Zenon DEF Record
<1>4. v.id = r.id /\ v.state = x /\ v.activated = y
  BY <1>1 DEF Record
<1> QED BY <1>3, <1>4 DEF x, y, v

\* An operation is answered and saves the record it read, with its new state.
LEMMA ReplaceStep ==
  ASSUME IInv, NEW p \in Calls, Replace(p)
  PROVE  IInv'
<1> DEFINE a == addr[p]
           r == Replaced(read[p], pc[p])
<1>1. /\ TypeOK /\ ProgressOf(p) /\ pc[p] \in Actions /\ p \in landed /\ a \in Addresses
      /\ read[p] \in Record
      /\ rec' = [rec EXCEPT ![a] = r]
      /\ pc' = [pc EXCEPT ![p] = "ended"] /\ read' = [read EXCEPT ![p] = None]
      /\ landed' = landed \ {p}
      /\ UNCHANGED <<done, box, key, addr, was, mixed>>
  BY DEF Replace, IInv, Progress, TypeOK, Awaiting
<1>2. /\ \A q \in Calls \ {p} :
           /\ pc'[q] = pc[q] /\ key'[q] = key[q] /\ addr'[q] = addr[q]
           /\ read'[q] = read[q] /\ (q \in landed' <=> q \in landed)
      /\ pc'[p] = "ended" /\ p \notin landed' /\ read'[p] = None
      /\ rec'[a] = r /\ \A x \in Addresses \ {a} : rec'[x] = rec[x]
  BY <1>1 DEF TypeOK
<1>3. /\ rec[a] # None /\ read[p].id = rec[a].id
      /\ read[p].activated => "active" \in was[a]
      /\ StateAfter(pc[p]) \in was[a]
  BY <1>1 DEF ProgressOf
<1>4. StateAfter(pc[p]) \in States /\ (pc[p] = "activate" => StateAfter(pc[p]) = "active")
  BY <1>1 DEF StateAfter, States, Actions
<1>5. /\ r \in Record /\ r.id = rec[a].id /\ r.state = StateAfter(pc[p])
      /\ r.activated => read[p].activated \/ pc[p] = "activate"
  BY <1>1, <1>3, ReplacedRecord
<1> HIDE DEF r
<1>6. r # None
  BY <1>5, MailboxConstants
<1>7. Grows
  BY <1>1, <1>2, <1>5, <1>6 DEF Grows
<1>8. TypeOK'
  <2>1. /\ pc' \in [Calls -> {"new", "ended"} \cup Actions \cup Stages]
        /\ read' \in [Calls -> Record \cup {None}] /\ landed' \subseteq Calls
        /\ rec' \in [Addresses -> Record \cup {None}]
    BY <1>1, <1>5 DEF TypeOK
  <2>2. \A q \in Calls : Awaiting(q)' =>
          addr'[q] \in Addresses /\ (pc'[q] \in Actions <=> read'[q] # None)
    BY <1>1, <1>2 DEF TypeOK, Awaiting, Actions, Stages
  <2> QED BY <1>1, <2>1, <2>2 DEF TypeOK
<1>9. Progress'
  <2>1. ASSUME NEW q \in Calls \ {p} PROVE ProgressOf(q)'
    BY <1>1, <1>2, <1>7, <2>1, OtherCall DEF IInv, Progress
  <2>2. ProgressOf(p)'
    BY <1>2 DEF ProgressOf, Actions, Stages
  <2> QED BY <2>1, <2>2 DEF Progress
<1>10. Born'
  BY <1>1 DEF IInv, Born
<1>11. SavedIsComplete'
  BY <1>1, <1>2, <1>3, <1>5 DEF IInv, SavedIsComplete
<1>12. ReplaysOwnRecord'
  <2>1. \A k \in done : AddressOf[k] \in Addresses
    BY <1>1, MailboxConstants DEF TypeOK
  <2> QED BY <1>1, <1>7, <2>1 DEF IInv, ReplaysOwnRecord, Grows
<1>13. RecordedHappened'
  <2>1. r.state # "awaiting_activation" /\ r.state \in was[a]
    BY <1>3, <1>4, <1>5 DEF States
  <2>2. r.activated => "active" \in was[a]
    BY <1>3, <1>4, <1>5
  <2> QED BY <1>1, <1>2, <2>1, <2>2 DEF IInv, RecordedHappened
<1> QED BY <1>8, <1>9, <1>10, <1>11, <1>12, <1>13 DEF IInv

\* Every step keeps the inductive invariant.
LEMMA MailboxStep == IInv /\ [Next]_vars => IInv'
<1> SUFFICES ASSUME IInv, [Next]_vars PROVE IInv'
  OBVIOUS
<1>1. CASE UNCHANGED vars
  <2>1. Grows
    BY <1>1 DEF vars, db, Grows
  <2>2. TypeOK'
    <3>1. \A q \in Calls : Awaiting(q)' = Awaiting(q)
      BY <1>1 DEF vars, Awaiting
    <3> QED BY <1>1, <3>1 DEF vars, db, IInv, TypeOK
  <2>3. Progress'
    BY <1>1, <2>1, OtherCall DEF vars, IInv, Progress
  <2>4. Born' /\ SavedIsComplete' /\ ReplaysOwnRecord' /\ RecordedHappened'
    BY <1>1 DEF vars, db, IInv, Born, SavedIsComplete, ReplaysOwnRecord,
       RecordedHappened
  <2> QED BY <2>2, <2>3, <2>4 DEF IInv
<1> QED
  BY <1>1, ProvisionStep, ActionStep, LandStep, AdvanceStep, ReplaceStep, RaiseStep
  DEF Next

\* The inductive invariant holds in every reachable state.
THEOREM MailboxInvariance == Spec => []IInv
  BY MailboxInit, MailboxStep, PTL DEF Spec

\* Types of the tables, the provider's mailboxes and the coroutines.
THEOREM MailboxTyped == Spec => []TypeOK
<1>1. IInv => TypeOK
  BY DEF IInv
<1> QED BY <1>1, MailboxInvariance, PTL

\* provision saves a record only for a complete mailbox of its own, whatever
\* overlapped it or failed half-way before it.
THEOREM SavedMailboxIsComplete == Spec => []SavedIsComplete
<1>1. IInv => SavedIsComplete
  BY DEF IInv
<1> QED BY <1>1, MailboxInvariance, PTL

\* A replayed provision answers with the mailbox its own request created
\* (MailboxRepository.request), whoever else asked for the address.
THEOREM ReplayIsOwn == Spec => []ReplaysOwnRecord
<1>1. IInv => ReplaysOwnRecord
  BY DEF IInv
<1> QED BY <1>1, MailboxInvariance, PTL

\* No overlap of operations makes a record tell a state, or an activation, that
\* the provider's mailbox has never been in.
THEOREM RecordTellsHistory == Spec => []RecordedHappened
<1>1. IInv => RecordedHappened
  BY DEF IInv
<1> QED BY <1>1, MailboxInvariance, PTL

-----------------------------------------------------------------------------
(* Alignment of record and mailbox where operations never overlap.  It does *)
(* not follow from IInv: it is about what one coroutine alone has done.     *)

\* The record tells the state of the mailbox.
Settled(a) ==
  rec[a] # None =>
    rec[a].state = IF box[a].state = "disabled" THEN "awaiting_activation"
                   ELSE box[a].state

\* One operation at a time; the record lags behind only between the effect of an
\* action and its save; a provision gets past its first call only before there is
\* a record.
SerialAt(a) ==
  /\ \A p, q \in On(a) : p = q
  /\ (\A p \in On(a) : ~(p \in landed /\ pc[p] \in Actions)) => Settled(a)
  /\ \A p \in On(a) :
       /\ pc[p] \in Stages /\ (pc[p] # "check" \/ p \in landed) => rec[a] = None
       /\ pc[p] \in Actions /\ p \in landed => box[a].state = StateAfter(pc[p])

Serial == \A a \in Addresses \ mixed : SerialAt(a)

\* No action touches a mailbox before it has a record.
Fresh == \A a \in Addresses : rec[a] = None => box[a].state \in {"absent", "disabled"}

SInv == IInv /\ Fresh /\ Serial

\* Only actions change the state of a mailbox.
LEMMA ChangedState ==
  ASSUME IInv, NEW p \in Calls, pc[p] \in Stages
  PROVE  Changed(p, box[addr[p]]).state \in {box[addr[p]].state, "disabled"}
<1> DEFINE b == box[addr[p]]
<1>1. ProgressOf(p) /\ pc[p] \notin Actions
  BY DEF IInv, Progress, Stages, Actions
<1>2. CASE pc[p] \in {"check", "reserve", "create"}
  BY <1>2 DEF Changed, Actions
<1>3. CASE pc[p] \in {"license", "alias", "activation"}
  <2>1. b \in Box
    BY <1>1, <1>3 DEF ProgressOf
  <2> HIDE DEF b
  <2>2. Changed(p, b).state = b.state
    <3>1. Changed(p, b) \in {[b EXCEPT !.licensed = TRUE], [b EXCEPT !.aliased = TRUE],
                             [b EXCEPT !.sent = TRUE]}
      BY <1>3 DEF Changed, Actions
    <3> QED BY <2>1, <3>1 DEF Box
  <2> QED BY <2>2 DEF b
<1> QED BY <1>2, <1>3 DEF Stages

\* The step of a call concerns one address.
LEMMA SerialFrame ==
  ASSUME Serial, NEW p \in Calls, NEW x \in Addresses,
         \A q \in Calls \ {p} :
           pc'[q] = pc[q] /\ addr'[q] = addr[q] /\ (q \in landed' <=> q \in landed),
         Awaiting(p) => addr[p] = x, Awaiting(p)' => addr'[p] = x,
         \A a \in Addresses \ {x} : rec'[a] = rec[a] /\ box'[a] = box[a],
         mixed \subseteq mixed',
         x \notin mixed' => SerialAt(x)'
  PROVE  Serial'
<1> SUFFICES ASSUME NEW a \in Addresses \ {x}, a \notin mixed PROVE SerialAt(a)'
  BY DEF Serial
<1>1. \A q \in Calls : q \in On(a)' <=> q \in On(a)
  BY DEF On, Awaiting
<1>2. On(a) \subseteq Calls \ {p} /\ On(a)' = On(a)
  BY <1>1 DEF On
<1>3. SerialAt(a)
  BY DEF Serial
<1>4. rec'[a] = rec[a] /\ box'[a] = box[a]
  OBVIOUS
<1>5. Settled(a)' <=> Settled(a)
  BY <1>4 DEF Settled
<1> QED BY <1>2, <1>3, <1>4, <1>5 DEF SerialAt

\* A step without a save and without an effect at the provider keeps Fresh.
LEMMA FreshFrame ==
  ASSUME Fresh, UNCHANGED <<rec, box>>
  PROVE  Fresh'
  BY DEF Fresh

\* An operation starts: the address is mixed, or it is the only one there.
LEMMA BeginSerial ==
  ASSUME SInv, NEW p \in Calls, NEW x \in Addresses, NEW l, Begin(p, x, l),
         pc[p] = "new", UNCHANGED <<rec, box, landed>>, l = "check" \/ l \in Actions
  PROVE  Serial'
<1>1. /\ TypeOK /\ ProgressOf(p) /\ pc' = [pc EXCEPT ![p] = l]
      /\ addr' = [addr EXCEPT ![p] = x]
      /\ mixed' = IF On(x) # {} THEN mixed \cup {x} ELSE mixed
  BY DEF SInv, IInv, Progress, Begin
<1>2. /\ pc'[p] = l /\ addr'[p] = x /\ p \notin landed /\ ~Awaiting(p)
      /\ \A q \in Calls \ {p} : pc'[q] = pc[q] /\ addr'[q] = addr[q]
  BY <1>1 DEF TypeOK, ProgressOf, Awaiting, Actions, Stages
<1>3. ASSUME x \notin mixed' PROVE SerialAt(x)'
  <2>1. On(x) = {} /\ x \notin mixed
    BY <1>1, <1>3
  <2>2. \A q \in On(x)' : q = p
    BY <1>2, <2>1 DEF On, Awaiting
  <2>3. Settled(x)'
    BY <2>1 DEF SInv, Serial, SerialAt, Settled
  <2>4. l \in Stages => l = "check"
    BY DEF Actions, Stages
  <2> QED BY <1>2, <2>2, <2>3, <2>4 DEF SerialAt
<1> QED BY <1>1, <1>2, <1>3, SerialFrame DEF SInv

\* A provider call takes effect: that of the only operation of its address.
LEMMA LandSerial ==
  ASSUME SInv, NEW p \in Calls, Land(p)
  PROVE  Fresh' /\ Serial'
<1> DEFINE x == addr[p]
           b == box[x]
           v == box'[x]
<1>1. /\ IInv /\ TypeOK /\ ProgressOf(p) /\ Awaiting(p) /\ p \notin landed
      /\ x \in Addresses /\ Accepts(p, b) /\ b \in Box \cup {NoBox}
      /\ UNCHANGED <<rec, pc, addr, mixed>> /\ landed' = landed \cup {p}
      /\ box' = [box EXCEPT ![x] = Changed(p, b)]
  BY DEF Land, SInv, IInv, TypeOK, Progress, db
<1>2. v = Changed(p, b) /\ \A a \in Addresses \ {x} : box'[a] = box[a]
  BY <1>1 DEF TypeOK
<1>3. /\ pc[p] \in Actions => v.state = StateAfter(pc[p]) /\ rec[x] # None
      /\ pc[p] \in Stages => v.state \in {b.state, "disabled"}
      /\ pc[p] \in Actions \cup Stages
  BY <1>1, <1>2, ChangedBox, ChangedState DEF ProgressOf, Awaiting
<1>4. pc[p] = "check" => rec[x] = None
  BY <1>1, RecordHasBox, NoBoxIsNone DEF Accepts
<1> HIDE DEF v, b
<1>5. Fresh'
  <2>1. rec[x] = None => v.state \in {"absent", "disabled"}
    BY <1>1, <1>3 DEF SInv, Fresh, b
  <2> QED BY <1>1, <1>2, <2>1 DEF SInv, Fresh, v
<1>6. ASSUME x \notin mixed' PROVE SerialAt(x)'
  <2>1. On(x)' = On(x) /\ p \in On(x)
    BY <1>1 DEF On, Awaiting
  <2>2. SerialAt(x) /\ \A q \in On(x) : q = p
    BY <1>1, <1>6, <2>1 DEF SInv, Serial, SerialAt
  <2>3. pc[p] \in Stages => rec[x] = None
    BY <1>4, <2>1, <2>2 DEF SerialAt
  <2>4. pc[p] \in Stages => Settled(x)'
    BY <1>1, <2>3 DEF Settled
  <2> QED BY <1>1, <1>3, <2>1, <2>2, <2>3, <2>4 DEF SerialAt, v
<1>7. Serial'
  BY <1>1, <1>2, <1>6, SerialFrame DEF SInv, Awaiting
<1> QED BY <1>5, <1>7

\* A provision is answered: it is past its first call, so it makes the first record.
LEMMA AdvanceSerial ==
  ASSUME SInv, NEW p \in Calls, Advance(p)
  PROVE  Fresh' /\ Serial'
<1> DEFINE x == addr[p]
           r == [id |-> box[x].id, activated |-> FALSE, state |-> "awaiting_activation"]
<1>1. /\ IInv /\ TypeOK /\ ProgressOf(p) /\ Awaiting(p) /\ x \in Addresses
      /\ pc[p] \in Stages /\ p \in landed
      /\ pc' = [pc EXCEPT ![p] = After(pc[p])] /\ landed' = landed \ {p}
      /\ UNCHANGED <<box, addr, mixed>>
      /\ \/ pc[p] # "activation" /\ rec' = rec
         \/ pc[p] = "activation" /\ rec' = [rec EXCEPT ![x] = r]
  BY DEF Advance, SInv, IInv, TypeOK, Progress, db, Awaiting
<1>2. /\ \A q \in Calls \ {p} : pc'[q] = pc[q]
      /\ pc'[p] = After(pc[p])
      /\ After(pc[p]) \in Stages \cup {"ended"}
      /\ After(pc[p]) = "ended" <=> pc[p] = "activation"
  BY <1>1 DEF TypeOK, After, Stages
<1>3. /\ \A a \in Addresses \ {x} : rec'[a] = rec[a]
      /\ rec'[x] # rec[x] => pc[p] = "activation" /\ rec'[x] = r
      /\ pc[p] = "activation" => rec'[x] = r
  BY <1>1 DEF TypeOK
<1>4. r.state = "awaiting_activation"
  OBVIOUS
<1> HIDE DEF r
<1>5. ASSUME x \notin mixed
      PROVE  SerialAt(x) /\ p \in On(x) /\ rec[x] = None /\ \A q \in On(x) : q = p
  <2>1. SerialAt(x) /\ p \in On(x)
    BY <1>1, <1>5 DEF SInv, Serial, On
  <2> QED BY <1>1, <2>1 DEF SerialAt
<1>6. pc[p] = "activation" /\ rec[x] = None => box[x].state = "disabled"
  <2>1. pc[p] = "activation" => box[x] \in Box
    BY <1>1 DEF ProgressOf
  <2>2. box[x] \in Box => box[x].state # "absent"
    BY DEF Box, States
  <2>3. rec[x] = None => box[x].state \in {"absent", "disabled"}
    BY <1>1 DEF SInv, Fresh
  <2> QED BY <2>1, <2>2, <2>3
<1>7. Fresh'
  <2>1. rec'[x] = None => box[x].state \in {"absent", "disabled"}
    <3>1. CASE rec[x] = None
      BY <1>1, <3>1 DEF SInv, Fresh
    <3>2. CASE rec[x] # None /\ rec'[x] = None
      <4>1. pc[p] = "activation" /\ rec'[x] = r
        BY <1>3, <3>2
      <4>2. box[x].id \in Keys
        BY <1>1, <4>1 DEF ProgressOf
      <4>3. r \in Record
        BY <4>2 DEF r, Record
      <4> QED BY <3>2, <4>1, <4>3, MailboxConstants
    <3> QED BY <3>1, <3>2
  <2> QED BY <1>1, <1>3, <2>1 DEF SInv, Fresh
<1>8. ASSUME x \notin mixed' PROVE SerialAt(x)'
  <2>1. rec[x] = None /\ \A q \in On(x) : q = p
    BY <1>1, <1>5, <1>8
  <2>2. \A q \in On(x)' : q = p
    BY <1>1, <1>2, <2>1 DEF On, Awaiting
  <2>3. CASE pc[p] = "activation"
    <3>1. On(x)' = {}
      BY <1>2, <2>2, <2>3 DEF On, Awaiting, Actions, Stages
    <3>2. Settled(x)'
      BY <1>1, <1>3, <1>4, <1>6, <2>1, <2>3 DEF Settled
    <3> QED BY <3>1, <3>2 DEF SerialAt
  <2>4. CASE pc[p] # "activation"
    <3>1. rec'[x] = None
      BY <1>3, <2>1, <2>4
    <3>2. p \notin landed' /\ pc'[p] \in Stages /\ pc'[p] \notin Actions
      BY <1>1, <1>2, <2>4 DEF Stages, Actions
    <3>3. Settled(x)'
      BY <1>1, <3>1 DEF Settled
    <3> QED BY <1>1, <2>2, <3>1, <3>2, <3>3 DEF SerialAt
  <2> QED BY <2>3, <2>4
<1>9. Serial'
  BY <1>1, <1>2, <1>3, <1>8, SerialFrame DEF SInv
<1> QED BY <1>7, <1>9

\* An action is answered and saves the state that the mailbox was given.
LEMMA ReplaceSerial ==
  ASSUME SInv, NEW p \in Calls, Replace(p)
  PROVE  Fresh' /\ Serial'
<1> DEFINE x == addr[p]
           r == Replaced(read[p], pc[p])
<1>1. /\ TypeOK /\ ProgressOf(p) /\ Awaiting(p) /\ x \in Addresses
      /\ pc[p] \in Actions /\ p \in landed /\ read[p] \in Record
      /\ rec' = [rec EXCEPT ![x] = r] /\ pc' = [pc EXCEPT ![p] = "ended"]
      /\ landed' = landed \ {p} /\ UNCHANGED <<box, addr, mixed>>
  BY DEF Replace, SInv, IInv, Progress, TypeOK, Awaiting
<1>2. /\ \A q \in Calls \ {p} : pc'[q] = pc[q]
      /\ pc'[p] = "ended" /\ rec'[x] = r
      /\ \A a \in Addresses \ {x} : rec'[a] = rec[a]
  BY <1>1 DEF TypeOK
<1>3. rec[x] # None
  BY <1>1 DEF ProgressOf
<1>4. /\ r \in Record /\ r.state = StateAfter(pc[p])
      /\ StateAfter(pc[p]) # "disabled"
  BY <1>1, ReplacedRecord DEF StateAfter, Actions
<1>5. rec'[x] # None
  BY <1>2, <1>4, MailboxConstants
<1>6. Fresh'
  BY <1>1, <1>2, <1>5 DEF SInv, Fresh
<1>7. ASSUME x \notin mixed' PROVE SerialAt(x)'
  <2>1. SerialAt(x) /\ p \in On(x)
    BY <1>1, <1>7 DEF SInv, Serial, On
  <2>2. box[x].state = StateAfter(pc[p]) /\ \A q \in On(x) : q = p
    BY <1>1, <2>1 DEF SerialAt
  <2>3. On(x)' = {}
    BY <1>1, <1>2, <2>2 DEF On, Awaiting, Actions, Stages
  <2> HIDE DEF r
  <2>4. Settled(x)'
    BY <1>1, <1>2, <1>4, <2>2 DEF Settled
  <2> QED BY <2>3, <2>4 DEF SerialAt
<1>8. Serial'
  BY <1>1, <1>2, <1>7, SerialFrame DEF SInv, Awaiting, Actions, Stages
<1> QED BY <1>6, <1>8

\* An operation that ends without a save either had no effect, or makes its address
\* mixed.
LEMMA RaiseSerial ==
  ASSUME SInv, NEW p \in Calls, Raise(p)
  PROVE  Fresh' /\ Serial'
<1> DEFINE x == addr[p]
<1>1. /\ TypeOK /\ Awaiting(p) /\ x \in Addresses /\ UNCHANGED <<rec, box, addr>>
      /\ pc' = [pc EXCEPT ![p] = "ended"] /\ landed' = landed \ {p}
      /\ mixed' = IF p \in landed /\ pc[p] \in Actions THEN mixed \cup {x} ELSE mixed
  BY DEF Raise, SInv, IInv, TypeOK, db
<1>2. pc'[p] = "ended" /\ \A q \in Calls \ {p} : pc'[q] = pc[q]
  BY <1>1 DEF TypeOK
<1>3. ASSUME x \notin mixed' PROVE SerialAt(x)'
  <2>1. /\ SerialAt(x) /\ p \in On(x) /\ ~(p \in landed /\ pc[p] \in Actions)
    BY <1>1, <1>3 DEF SInv, Serial, On
  <2>2. \A q \in On(x) : q = p
    BY <2>1 DEF SerialAt
  <2>3. On(x)' = {}
    BY <1>1, <1>2, <2>2 DEF On, Awaiting, Actions, Stages
  <2>4. Settled(x)'
    BY <1>1, <2>1, <2>2 DEF SerialAt, Settled
  <2> QED BY <2>3, <2>4 DEF SerialAt
<1>4. Serial'
  BY <1>1, <1>2, <1>3, SerialFrame DEF SInv, Awaiting, Actions, Stages
<1> QED BY <1>1, <1>4, FreshFrame DEF SInv

\* Every step keeps the argument.
LEMMA SerialStep == SInv /\ [Next]_vars => SInv'
<1> SUFFICES ASSUME SInv, [Next]_vars PROVE SInv'
  OBVIOUS
<1>1. IInv'
  BY MailboxStep DEF SInv
<1>2. ASSUME NEW p \in Calls, NEW k \in Keys, StartProvision(p, k)
      PROVE  Fresh' /\ Serial'
  <2>1. UNCHANGED <<rec, box, landed>> /\ pc[p] = "new" /\ AddressOf[k] \in Addresses
    BY <1>2, MailboxConstants DEF StartProvision, db
  <2>2. Fresh'
    BY <2>1, FreshFrame DEF SInv
  <2>3. CASE Begin(p, AddressOf[k], "check")
    BY <2>1, <2>2, <2>3, BeginSerial
  <2>4. CASE pc' = [pc EXCEPT ![p] = "ended"] /\ UNCHANGED <<addr, mixed>>
    <3>1. /\ \A q \in Calls : Awaiting(q)' = Awaiting(q)
          /\ \A q \in Calls : Awaiting(q) => pc'[q] = pc[q]
      BY <2>1, <2>4 DEF SInv, IInv, TypeOK, Awaiting, Actions, Stages
    <3>2. \A a \in Addresses : SerialAt(a) => SerialAt(a)'
      BY <2>1, <2>4, <3>1 DEF SerialAt, On, Settled
    <3> QED BY <2>2, <2>4, <3>2 DEF SInv, Serial
  <2> QED BY <1>2, <2>3, <2>4 DEF StartProvision
<1>3. ASSUME NEW p \in Calls, NEW a \in Addresses, NEW op \in Actions,
             StartAction(p, a, op)
      PROVE  Fresh' /\ Serial'
  BY <1>3, BeginSerial, FreshFrame DEF StartAction, SInv, db
<1>4. CASE UNCHANGED vars
  <2>1. \A a \in Addresses : SerialAt(a)' = SerialAt(a)
    BY <1>4 DEF vars, db, SerialAt, On, Awaiting, Settled
  <2> QED BY <1>1, <1>4, <2>1 DEF vars, db, SInv, Fresh, Serial
<1> QED
  BY <1>1, <1>2, <1>3, <1>4, LandSerial, AdvanceSerial, ReplaceSerial, RaiseSerial
  DEF Next, SInv

\* Operations that never overlap, nor are given up after they took effect, leave the
\* record in the state of the mailbox (_replace, reconcile), for any number of them.
THEOREM SerialIsAligned == Spec => []AlignedWhenSerial
<1>1. Init => SInv
  <2> SUFFICES ASSUME Init PROVE SInv
    OBVIOUS
  <2>1. Fresh
    BY DEF Init, Fresh, NoBox
  <2>2. Serial
    BY DEF Init, Serial, SerialAt, Settled, On, Awaiting, Actions, Stages
  <2> QED BY <2>1, <2>2, MailboxInit DEF SInv
<1>2. SInv => AlignedWhenSerial
  BY DEF SInv, Serial, SerialAt, Settled, AlignedWhenSerial
<1> QED BY <1>1, <1>2, SerialStep, PTL DEF Spec
=============================================================================
