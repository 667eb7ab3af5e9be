------------------------------- MODULE Mailbox -------------------------------
(***************************************************************************)
(* The mailbox provisioning service: app/mailbox.py over the tables        *)
(* mailboxes and mailbox_requests and a hosted-mail provider.              *)
(*                                                                         *)
(* Every operation is a coroutine that awaits the provider, once or many   *)
(* times, and then saves a whole record in one transaction.  There are no  *)
(* locks: the record an operation extends is the one it read before it     *)
(* awaited.  Each provider call may be refused, and may be given up after  *)
(* it took effect; the exception ends the operation, whose caller may come *)
(* again with the same idempotency key.                                    *)
(***************************************************************************)
EXTENDS Naturals, FiniteSets

CONSTANTS
  Calls,      \* operations, one coroutine each (a bound)
  Addresses,
  Keys,       \* idempotency keys of provisions; a key stands for its payload
  AddressOf,  \* [Keys -> Addresses], email_address of the payload
  None

States == {"active", "suspended", "terminated"}

\* A row of mailboxes, and a mailbox of the provider.
Record == [id: Keys, state: States \cup {"awaiting_activation"}, activated: BOOLEAN]
Box == [id: Keys, state: States \cup {"disabled"}, licensed: BOOLEAN,
        aliased: BOOLEAN, sent: BOOLEAN]
NoBox == [id |-> None, state |-> "absent"]

ASSUME MailboxConstants ==
  AddressOf \in [Keys -> Addresses] /\ None \notin Keys \cup Calls \cup Record

VARIABLES
  \* The database.
  rec,    \* table mailboxes
  done,   \* table mailbox_requests
  \* The provider.
  box,    \* mailboxes; the identity of one is the key that created it
  \* The coroutines.
  pc,     \* "new", what the operation awaits, or "ended"
  key,    \* idempotency key of a provision
  addr,   \* email_address
  read,   \* the record as _require read it
  landed, \* calls whose current provider call has taken effect
  \* History, which the properties read.
  was,    \* the states each provider mailbox has been in
  mixed   \* addresses that saw overlapping operations, or one given up

db == <<rec, done>>
vars == <<db, box, pc, key, addr, read, landed, was, mixed>>

Actions == {"activate", "suspend", "reactivate", "terminate"}
Stages  == {"check", "reserve", "create", "license", "alias", "activation"}

Awaiting(p) == pc[p] \in Actions \cup Stages
On(a) == {p \in Calls : Awaiting(p) /\ addr[p] = a}

\* Type invariant.
TypeOK ==
  /\ rec \in [Addresses -> Record \cup {None}]
  /\ done \subseteq Keys
  /\ box \in [Addresses -> Box \cup {NoBox}]
  /\ pc \in [Calls -> {"new", "ended"} \cup Actions \cup Stages]
  /\ key \in [Calls -> Keys \cup {None}]
  /\ addr \in [Calls -> Addresses \cup {None}]
  /\ read \in [Calls -> Record \cup {None}]
  /\ landed \subseteq Calls
  /\ \A p \in Calls : Awaiting(p) =>
       addr[p] \in Addresses /\ (pc[p] \in Actions <=> read[p] # None)
  /\ was \in [Addresses -> SUBSET (States \cup {"disabled"})]
  /\ mixed \subseteq Addresses

-----------------------------------------------------------------------------
(* The start of an operation, up to its first await. *)

Begin(p, a, l) ==
  /\ pc' = [pc EXCEPT ![p] = l]
  /\ addr' = [addr EXCEPT ![p] = a]
  /\ mixed' = IF On(a) # {} THEN mixed \cup {a} ELSE mixed

\* provision: a key that is done answers with the stored record.
StartProvision(p, k) ==
  /\ pc[p] = "new"
  /\ IF k \in done /\ rec[AddressOf[k]] # None
     THEN pc' = [pc EXCEPT ![p] = "ended"] /\ UNCHANGED <<addr, mixed>>
     ELSE Begin(p, AddressOf[k], "check")
  /\ key' = [key EXCEPT ![p] = k]
  /\ UNCHANGED <<db, box, read, landed, was>>

SlipStartAction(p, a, op) ==  \* without _require
  /\ pc[p] = "new"
  /\ Begin(p, a, op)
  /\ read' = [read EXCEPT ![p] = rec[a]]
  /\ UNCHANGED <<db, box, key, landed, was>>

\* activate, suspend, reactivate, terminate: _require reads the record.
StartAction(p, a, op) ==
  /\ pc[p] = "new" /\ rec[a] # None
  /\ Begin(p, a, op)
  /\ read' = [read EXCEPT ![p] = rec[a]]
  /\ UNCHANGED <<db, box, key, landed, was>>

-----------------------------------------------------------------------------
(* The provider, as the service uses it: what is asked for under a key is   *)
(* done once, and an address is given to one creation.                      *)

StateAfter(op) ==
  CASE op \in {"activate", "reactivate"} -> "active"
    [] op = "suspend" -> "suspended"
    [] op = "terminate" -> "terminated"

\* The mailbox after the call p has in flight has taken effect on it.
Changed(p, b) ==
  CASE pc[p] \in {"check", "reserve"} -> b
    [] pc[p] = "create" ->
         IF b = NoBox THEN [id |-> key[p], state |-> "disabled", licensed |-> FALSE,
                            aliased |-> FALSE, sent |-> FALSE]
         ELSE b
    [] pc[p] = "license" -> [b EXCEPT !.licensed = TRUE]
    [] pc[p] = "alias" -> [b EXCEPT !.aliased = TRUE]
    [] pc[p] = "activation" -> [b EXCEPT !.sent = TRUE]
    [] pc[p] \in Actions -> [b EXCEPT !.state = StateAfter(pc[p])]

SlipAccepts(p, b) ==  \* the creation is keyed by the address, not the request
  pc[p] = "check" => b = NoBox

\* check_availability may take effect only on a free address, a creation on a
\* free address or on the mailbox it made before.
Accepts(p, b) ==
  CASE pc[p] = "check" -> b = NoBox
    [] pc[p] = "create" -> b.id \in {None, key[p]}
    [] OTHER -> TRUE

Land(p) ==
  LET a == addr[p] IN
  /\ Awaiting(p) /\ p \notin landed
  /\ Accepts(p, box[a])
  /\ box' = [box EXCEPT ![a] = Changed(p, @)]
  /\ was' = [was EXCEPT ![a] = (@ \cup {box'[a].state}) \ {"absent"}]
  /\ landed' = landed \cup {p}
  /\ UNCHANGED <<db, pc, key, addr, read, mixed>>

-----------------------------------------------------------------------------
(* The answer of the provider, and what the operation does next. *)

SlipAfter(l) ==  \* the licence is forgotten
  CASE l = "check" -> "reserve" [] l = "reserve" -> "create"
    [] l = "create" -> "alias" [] l = "alias" -> "activation"
    [] l = "activation" -> "ended"

After(l) ==
  CASE l = "check" -> "reserve" [] l = "reserve" -> "create"
    [] l = "create" -> "license" [] l = "license" -> "alias"
    [] l = "alias" -> "activation" [] l = "activation" -> "ended"

\* A provision goes on to its next call; after the last one the record and the
\* request are saved together.
Advance(p) ==
  LET a == addr[p] IN
  /\ pc[p] \in Stages /\ p \in landed
  /\ pc' = [pc EXCEPT ![p] = After(pc[p])]
  /\ landed' = landed \ {p}
  /\ IF pc[p] = "activation"
     THEN /\ rec' = [rec EXCEPT ![a] = [id |-> box[a].id, activated |-> FALSE,
                                        state |-> "awaiting_activation"]]
          /\ done' = done \cup {key[p]}
     ELSE UNCHANGED db
  /\ UNCHANGED <<box, key, addr, read, was, mixed>>

SlipReplaced(r, op) ==  \* reactivate keeps the state as read
  [r EXCEPT !.state = IF op = "reactivate" THEN @ ELSE StateAfter(op),
            !.activated = @ \/ op = "activate"]

\* _replace: the record as read, with the new state, is saved whole.
Replaced(r, op) ==
  [r EXCEPT !.state = StateAfter(op),
            !.activated = @ \/ op = "activate"]

Replace(p) ==
  /\ pc[p] \in Actions /\ p \in landed
  /\ rec' = [rec EXCEPT ![addr[p]] = Replaced(read[p], pc[p])]
  /\ pc' = [pc EXCEPT ![p] = "ended"]
  /\ read' = [read EXCEPT ![p] = None]
  /\ landed' = landed \ {p}
  /\ UNCHANGED <<done, box, key, addr, was, mixed>>

SlipRaise(p) ==  \* an answer that does not confirm the state is saved as well
  /\ Awaiting(p)
  /\ pc' = [pc EXCEPT ![p] = "ended"]
  /\ rec' = IF pc[p] = "activate"
            THEN [rec EXCEPT ![addr[p]] = Replaced(read[p], "activate")] ELSE rec
  /\ read' = [read EXCEPT ![p] = None]
  /\ landed' = landed \ {p}
  /\ mixed' = IF p \in landed /\ pc[p] \in Actions THEN mixed \cup {addr[p]} ELSE mixed
  /\ UNCHANGED <<done, box, key, addr, was>>

\* The call is refused (an address not available, a state not confirmed, no
\* licence), times out, or the process dies: the operation ends without a save.
Raise(p) ==
  /\ Awaiting(p)
  /\ pc' = [pc EXCEPT ![p] = "ended"]
  /\ read' = [read EXCEPT ![p] = None]
  /\ landed' = landed \ {p}
  /\ mixed' = IF p \in landed /\ pc[p] \in Actions THEN mixed \cup {addr[p]} ELSE mixed
  /\ UNCHANGED <<db, box, key, addr, was>>

-----------------------------------------------------------------------------
Init ==
  /\ rec = [a \in Addresses |-> None] /\ done = {}
  /\ box = [a \in Addresses |-> NoBox]
  /\ pc = [p \in Calls |-> "new"]
  /\ key = [p \in Calls |-> None]
  /\ addr = [p \in Calls |-> None]
  /\ read = [p \in Calls |-> None]
  /\ landed = {} /\ mixed = {}
  /\ was = [a \in Addresses |-> {}]

Next ==
  \E p \in Calls :
    \/ \E k \in Keys : StartProvision(p, k)
    \/ \E a \in Addresses, op \in Actions : StartAction(p, a, op)
    \/ Land(p) \/ Advance(p) \/ Replace(p) \/ Raise(p)

Spec == Init /\ [][Next]_vars

-----------------------------------------------------------------------------
(* Properties. *)

\* A record is saved only for a mailbox that is complete: created under the
\* record's identity, licensed, with its aliases, and its activation sent,
\* whichever provisions of the address failed half-way or overlap it.
SavedIsComplete ==
  \A a \in Addresses : rec[a] # None =>
    /\ box[a].id = rec[a].id
    /\ box[a].licensed /\ box[a].aliased /\ box[a].sent

\* A replayed key is answered with the mailbox its own request created: of the
\* requests that race for an address only one can ever be done.
ReplaysOwnRecord ==
  \A k \in done : rec[AddressOf[k]] # None /\ rec[AddressOf[k]].id = k

\* What the record says did happen: the provider's mailbox has been in the
\* recorded state, and activated_at is set only if it has been active, even
\* when overlapping operations overwrite each other's record.
RecordedHappened ==
  \A a \in Addresses : rec[a] # None =>
    /\ (IF rec[a].state = "awaiting_activation" THEN "disabled" ELSE rec[a].state)
         \in was[a]
    /\ rec[a].activated => "active" \in was[a]

\* Operations of an address that never overlapped, nor were given up after they
\* took effect, leave the record in the state of the mailbox (what reconcile
\* calls aligned): awaiting_activation stands for disabled.
AlignedWhenSerial ==
  \A a \in Addresses \ mixed :
    On(a) = {} /\ rec[a] # None =>
      rec[a].state = IF box[a].state = "disabled" THEN "awaiting_activation"
                     ELSE box[a].state
=============================================================================
