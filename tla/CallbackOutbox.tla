--------------------------- MODULE CallbackOutbox ---------------------------
(***************************************************************************)
(* The callback outbox: app/callbacks.py over the callback_events table.   *)
(*                                                                         *)
(* An API call inserts its event and posts it at once; the worker posts    *)
(* what is due.  Both are coroutines of one event loop and await the same  *)
(* HTTP receiver, so the two can have the same event in flight.  A post    *)
(* may take effect at the receiver although its answer is lost.            *)
(***************************************************************************)
EXTENDS Integers, Sequences, FiniteSets

CONSTANTS
  Callers,     \* API calls that end in a callback; each has its own event
  Worker,      \* the worker task
  MaxTries,    \* 8 in mark_callback and due_callbacks
  Limit,       \* 20 in due_callbacks
  MaxCrashes   \* bound on process crashes

ASSUME OutboxConstants ==
  /\ MaxTries \in Nat \ {0} /\ Limit \in Nat \ {0} /\ MaxCrashes \in Nat
  /\ Worker \notin Callers

VARIABLES
  log,       \* the events of callback_events, by created_at
  row,       \* delivered: 0 "pending", 1 "delivered", -1 "failed"
  tries,     \* attempt_count
  later,     \* events whose next_retry_at lies in the future
  pc,        \* where each coroutine is
  batch,     \* the events of the snapshot that dispatch_due has still to post
  crashes

vars == <<log, row, tries, later, pc, batch, crashes>>

Procs == Callers \cup {Worker}

TypeOK ==
  /\ log \in Seq(Callers)
  /\ row \in [Callers -> {"absent", "pending", "delivered", "failed"}]
  /\ tries \in [Callers -> Nat]
  /\ later \subseteq Callers
  /\ pc \in [Procs -> {"new", "post", "rest", "loop", "ended"}]
  /\ batch \subseteq Callers
  /\ crashes \in Nat

\* ORDER BY created_at.
Older(a, b) == \E i, j \in 1..Len(log) : i < j /\ log[i] = a /\ log[j] = b

Oldest(B) == CHOOSE ev \in B : \A o \in B : ~Older(o, ev)

\* The event a coroutine is posting; dispatch_due goes by the order of its rows.
EventOf(p) == IF p = Worker THEN Oldest(batch) ELSE p

SlipDueCallbacks ==  \* only rows that were never tried
  {ev \in Callers : row[ev] = "pending" /\ tries[ev] = 0}

SlipUnlimited ==  \* WHERE delivered<>1, whatever attempt_count is
  LET due == {ev \in Callers : row[ev] \in {"pending", "failed"} /\ ev \notin later} IN
  {ev \in due : Cardinality({o \in due : Older(o, ev)}) < Limit}

\* due_callbacks: the oldest Limit rows that are undelivered and due.
DueCallbacks ==
  LET due == {ev \in Callers : /\ row[ev] = "pending"
                              /\ tries[ev] < MaxTries
                              /\ ev \notin later} IN
  {ev \in due : Cardinality({o \in due : Older(o, ev)}) < Limit}

SlipCountDown(ev, delivered) ==  \* counts the tries that are left
  /\ row' = [row EXCEPT ![ev] = IF delivered THEN "delivered" ELSE "pending"]
  /\ tries' = [tries EXCEPT ![ev] = @ - 1]
  /\ later' = IF delivered THEN later \ {ev} ELSE later \cup {ev}

SlipMarkCallback(ev, delivered) ==  \* one try more than due_callbacks asks for
  LET exhausted == ~delivered /\ tries[ev] + 1 > MaxTries IN
  /\ row' = [row EXCEPT ![ev] = IF delivered THEN "delivered"
                                ELSE IF exhausted THEN "failed" ELSE "pending"]
  /\ tries' = [tries EXCEPT ![ev] = @ + 1]
  /\ later' = IF delivered \/ exhausted THEN later \ {ev} ELSE later \cup {ev}

\* mark_callback: the outcome of a post overwrites what the row says.
MarkCallback(ev, delivered) ==
  LET exhausted == ~delivered /\ tries[ev] + 1 >= MaxTries IN
  /\ row' = [row EXCEPT ![ev] = IF delivered THEN "delivered"
                                ELSE IF exhausted THEN "failed" ELSE "pending"]
  /\ tries' = [tries EXCEPT ![ev] = @ + 1]
  /\ later' = IF delivered \/ exhausted THEN later \ {ev} ELSE later \cup {ev}

-----------------------------------------------------------------------------

\* enqueue_and_dispatch: INSERT, then the first post is awaited.
Enqueue(c) ==
  /\ pc[c] = "new" /\ pc[Worker] # "loop"
  /\ log' = Append(log, c)
  /\ row' = [row EXCEPT ![c] = "pending"]
  /\ pc' = [pc EXCEPT ![c] = "post"]
  /\ UNCHANGED <<tries, later, batch, crashes>>

\* The end of _dispatch: 2xx or 409 (already processed) is a delivery, every other
\* status, transport error or missing URL is a failed attempt.  The receiver decides
\* which, and may have processed the event although the answer is lost.
Answer(p, ok) ==
  /\ pc[p] = "post" /\ (p = Worker \/ pc[Worker] # "loop")
  /\ MarkCallback(EventOf(p), ok)
  /\ pc' = [pc EXCEPT ![p] = IF p = Worker THEN "loop" ELSE "ended"]
  /\ batch' = IF p = Worker THEN batch \ {EventOf(p)} ELSE batch
  /\ UNCHANGED <<log, crashes>>

\* dispatch_due takes its snapshot, then posts row after row.
DispatchDue ==
  /\ pc[Worker] = "rest"
  /\ batch' = DueCallbacks
  /\ pc' = [pc EXCEPT ![Worker] = "loop"]
  /\ UNCHANGED <<log, row, tries, later, crashes>>

DispatchNext ==
  /\ pc[Worker] = "loop"
  /\ pc' = [pc EXCEPT ![Worker] = IF batch = {} THEN "rest" ELSE "post"]
  /\ UNCHANGED <<log, row, tries, later, batch, crashes>>

\* next_retry_at passes.
Elapse(ev) ==
  /\ ev \in later
  /\ later' = later \ {ev}
  /\ UNCHANGED <<log, row, tries, pc, batch, crashes>>

\* A crash and restart: the table survives, the posts in flight are forgotten.
Crash ==
  /\ crashes < MaxCrashes
  /\ crashes' = crashes + 1
  /\ pc' = [p \in Procs |-> IF p = Worker THEN "rest"
                            ELSE IF pc[p] = "new" THEN "new" ELSE "ended"]
  /\ batch' = {}
  /\ UNCHANGED <<log, row, tries, later>>

-----------------------------------------------------------------------------

Init ==
  /\ log = <<>> /\ batch = {} /\ later = {} /\ crashes = 0
  /\ row = [c \in Callers |-> "absent"]
  /\ tries = [c \in Callers |-> 0]
  /\ pc = [p \in Procs |-> IF p = Worker THEN "rest" ELSE "new"]

PostAnswered(p) == \E ok \in BOOLEAN : Answer(p, ok)

WorkerLoop == DispatchDue \/ DispatchNext

Next ==
  \/ \E c \in Callers : Enqueue(c) \/ Elapse(c)
  \/ \E p \in Procs : PostAnswered(p)
  \/ WorkerLoop
  \/ Crash

Spec == Init /\ [][Next]_vars

\* Posts answer or time out (10 s), the event loop resumes whoever is ready, the
\* worker loop goes round and clocks advance.
Fairness ==
  /\ \A p \in Procs : SF_vars(PostAnswered(p))
  /\ WF_vars(WorkerLoop)
  /\ \A c \in Callers : WF_vars(Elapse(c))

FairSpec == Spec /\ Fairness

-----------------------------------------------------------------------------

\* The outbox keeps what it is given.  A row is there when the first post is awaited;
\* mark_callback gives up only an event that was tried MaxTries times; and what it leaves
\* undelivered is due later, or due_callbacks chooses it now, or an older event.
NoEventLost ==
  \A c \in Callers :
    /\ pc[c] # "new" => row[c] # "absent"
    /\ row[c] = "failed" => tries[c] >= MaxTries
    /\ row[c] = "pending" =>
         /\ tries[c] < MaxTries
         /\ c \in later \/ \E d \in DueCallbacks : d = c \/ Older(d, c)

\* The caller's own post and the worker's can overlap once: an event is never
\* tried more often than MaxTries + 1 times, crash or no crash.
PostBudget == \A c \in Callers : tries[c] <= MaxTries + 1

\* Every enqueued event ends delivered or visibly failed and stays so: a crash
\* loses no event and no event is retried for ever.
Drains == <>[](\A c \in Callers : row[c] # "pending")
=============================================================================
