# TLA+ verification of the Codestra provisioning service

The service (`src/app/`) receives provisioning requests for employees, drives
the accounts of the employee in several target systems (Keycloak, VICIdial, SIP,
Odoo, mailbox, desktop) through adapters, and keeps everything it knows in one
SQLite database.  It is one Python process: FastAPI handlers and one background
worker, all coroutines of one asyncio event loop.

The project models the request engine over its store, the callback outbox, the
SIP browser sessions, the identity binding of lifecycle commands, the Keycloak
adapter with its realm, the mailbox service with its provider, and the admission
of API calls.  It checks small instances with TLC and proves with TLAPS, for every
instance, all their safety properties, the safety half of what the liveness
properties of the engine and the outbox promise, and that the engine implements its
abstract specification.

## 1. Inventory

| Component | State | Operations | What makes it correct |
|---|---|---|---|
| Engine (`engine.py`) | employee and request locks, the coroutines | `submit`, `retry`, `cancel`, `verify`, `lifecycle`, `reconcile`, `_run_request`, `_compensate`, `recover`, `worker` | one adapter call per employee; steps in order; access only under current evidence; a failure half-way is compensated; every request settles |
| Store (`repository.py`) | `executions`, `steps`, `dead_letters`, `compensation_actions`, `verification_records` | `create_request`, `claim_next`, `complete_step`, `fail_step`, `schedule_step_retry`, `activation_blockers`, `due_compensation_request_ids`, `recover_stale`, ... | settled steps stay settled; attempts are bounded; a cached result never claims too much |
| Callback outbox (`callbacks.py`) | `callback_events` | `enqueue_and_dispatch`, `dispatch_due`, `mark_callback` | no event is lost; tries bounded; the outbox drains |
| SIP browser sessions (`sip_browser.py`) | `sip_browser_sessions`, the credential of the one phone that all sessions share (`self.endpoint`) | `create`, `renew`, `config`, `revoke` | after a lone answered rotation its employee's session, and nobody else's, holds the credential that works; ended sessions stay ended; a revoked session's credential is rotated |
| Identity binding (`engine.lifecycle`, `employee_commands`) | `steps.command_json` of successful steps | completing a lifecycle payload | a completed identity is one that a caller provided in the same system, the last one; the caller's own fields override it |
| Keycloak adapter (`keycloak.py`) | none of its own; the realm's users | `create_disabled`, `update`, `verify`, `activate`, `suspend`, `reactivate`, `terminate`, `rotate_credentials`, each several admin requests | an account belongs to its employee and is the only one; its attributes tell the truth; suspended means out; a retry completes what was begun |
| Other adapters (`adapters.py`) | none (the providers' accounts) | one call per operation | errors classified as transient or permanent |
| Mailbox service (`mailbox.py`) | `mailboxes`, `mailbox_requests`, the provider's mailboxes | `provision`, `activate`, `suspend`, `reactivate`, `terminate` | a record is saved for complete mailboxes only, and tells what happened |
| Mock mailbox (`repository.py`) | one row per employee | `transition_mock_mailbox` | legal transitions |
| Admission of calls (`security.py`, `repository.py`) | `replay_jti`, `rate_windows` | `authenticate`: decode, `accept_jti`, `check_rate` | a token is accepted once; rates hold at window borders; nobody is refused early |
| Secrets, config, logging, routes (`secrets.py`, `config.py`, `logging.py`, `main.py`) | - | reading, formatting | not stateful |

How they interact: routes call the engine and the SIP service directly.  The
engine calls the store synchronously and awaits adapters, locks and the callback
receiver.  The worker loop runs pending requests, due compensations and due
callbacks.  All components share the database; the SIP service reads what the
engine's steps have established.  Every route passes `authenticate` first.  The
Keycloak adapter is called by the engine under the employee lock.  The mailbox
service is complete but not wired into the running application: nothing of the
engine calls it, and it takes no lock.

What is hard in this code:

* **Awaits.** Between two awaits nobody else runs; across an await everything may
  change unless the employee lock protects it.  Some values are read before the
  lock and used after it (`retry`, `_compensate_due`, `lifecycle`).
* **Crashes.** The connection autocommits, so the process can die between any two
  statements.  Recovery runs once, at start, with a time-based cutoff.
* **Lost answers.** A provider or receiver may have applied a call that failed,
  or may apply it later, when other calls have been made.
* **Chains of calls.** A Keycloak or mailbox operation is up to six calls, and
  can stop after each; a retry begins with the first.
* **Retries at the limit.** Steps, compensations and callbacks have attempt
  budgets that are tested in one place and consumed in another.
* **Derived state.** Evidence for activation is computed from the latest rows by
  `updated_at`; results are cached as JSON.

`PROJECT.json` lists each hazard at its line with the property that covers it or
the reason why none does yet.

## 2. Modules

| Module | Models | Lines of the code |
|---|---|---|
| `Provisioning` | engine and store | `engine.py`, `repository.py`, step rules of `contracts.py` |
| `AccessGate` | abstract specification: what the service promises about accounts | - |
| `ProvisioningProofs`, `SagaProofs` | theorems about `Provisioning` | - |
| `CallbackOutbox` | outbox and worker's dispatch loop | `callbacks.py`, `repository.py` |
| `SipBrowser` | browser sessions | `sip_browser.py`, `repository.py` |
| `Lifecycle` | identity binding | `engine.lifecycle`, `repository.employee_commands` |
| `Keycloak` | the adapter, the realm it administers, the engine's retries | `keycloak.py` |
| `Mailbox` | the mailbox service and its provider | `mailbox.py` |
| `Guard` | admission of calls | `security.py`, `repository.accept_jti`, `check_rate` |
| `CallbackOutboxProofs`, `SipBrowserProofs`, `LifecycleProofs`, `KeycloakProofs`, `MailboxProofs`, `GuardProofs` | theorems about these | - |
| `MC...` | instances for TLC | - |

### Provisioning

Each variable is a column, a table or a piece of process state; the comment beside
its declaration says which.  Each action is one statement run between two awaits:

* `Start*` are the entry points up to the lock, `Locked*` what follows inside
  `async with employee_lock`; `ClaimNext`, `Admit` (the activation check and the
  release of a blocked step), `ReturnOk`/`ReturnFailed` are `_run_request`;
  `StartCompensation`, `CompensateNext`, `CompensationReturn` and
  `CompensationDone` are `_compensate`; `VerifyNext`/`VerifyReturn` are `verify`;
  `Result` and `CallbackDone` end a call; `Worker*` are `worker` and `recover`.
* `LoopFree` is the event loop: no other coroutine runs while one is between two
  awaits.  `Crash` needs no `LoopFree`: the process may die anywhere.
* The employee lock is asyncio's: a FIFO queue, with a fast path when it is free
  and nobody waits.
* `Land` is the provider applying a call in flight, at any moment before the
  answer or never; `ReturnFailed` is possible in both cases.

Abstractions, with their reasons:

* `updated_at` is the relation `newer`.  All that queries do with the column is
  to compare rows, so its values do not matter; ties can occur only between rows
  that are not done, which no query orders.
* The request lock is left out: it is always taken inside the employee lock of
  the same request and so never contended.
* Idempotency hashes: a conflicting replay is refused without effect, a matching
  one returns the cached result (`StartSubmit`).
* Feature gates are open, as in the staging configuration.  A missing adapter is
  a permanent failure like any other.
* `fail_step`'s update and its dead-letter insert are one action.
* A provider's effect does not arrive after the adapter has given up on the call.
* `reconcile` and the freshness checks write nothing that these properties read.

### CallbackOutbox, SipBrowser, Lifecycle

`CallbackOutbox` keeps the order of `created_at`, the batch limit and the maximum
of tries as constants (20 and 8 in the code; smaller in the runs so that both
are reached).  The worker's snapshot is the set `batch`; the loop over it posts the
oldest row next, and the `LIMIT` keeps the rows that fewer than 20 due ones precede.
The receiver is a free choice of answers: whether it has processed what it refused or
left unanswered, and what "processed" means there, is outside this code.
It is small enough to be checked without an MC module.

`SipBrowser` takes no lock because the code takes none; a call reads the table, awaits
the rotation and writes.  There is one phone: `_validated_command` accepts only
`self.endpoint`, so all employees whose SIP command names that extension share its
credential (`secret`), while the unique index allows an active session to each.  A
`create` or `renew` for one of them displaces the credential of the others' sessions.

* `Land` is the provider installing a credential.  An adapter error (`Fail`) leaves a
  call "failed", and its rotation may have landed, may land later or never.  A crash
  needs no action of its own: `Fail` is all that a crash does.
* `identity` stands for what `_validated_command` reads: "valid", "invalid", or "moved"
  when the SIP command of the employee has come to name another extension.  `create`
  and `renew` then refuse; `revoke` does not look, and rotates the other extension (it
  is `astray`) before it marks the session revoked.
* `RotatePhone` is a `rotate_credentials` request of the engine for the same extension.
  A suspension of the phone by the engine is not a change of its credential.
* `alone` and `sure` are history: the call in flight that has had the phone to itself
  so far, and the employee of the last rotation if that was alone and answered.

`Lifecycle` has one step per request and
one employee, because binding is per employee; it keeps the lock queue and
retries, since those create the distance between reading an identity and using it.
A payload is reduced to the identity it names, a username or an extension, or to
`None` when the field is missing.  `own` is what the caller sends: it overrides the
bound identity, since `lifecycle` merges `{**previous.payload, **step["payload"]}`, and
it stands alone when nothing has succeeded before.  `src` records which of the two a
stored command got.  `SubmitNamed` is also the execute route, which completes nothing
and takes any operation.

### Keycloak

`pc[c]` is the admin request a step command awaits.  `Start` is the engine taking
the command (again), with the employee lock (`Idle`), the attempt budget and the
evidence that an activation needs; `FindName`, `FindIdentity` and `FindUser` are
the searches, `Write` a request that is applied and answered, and `AfterSearch`,
`AfterPut`, `AfterWrite` the order of the requests of each operation.  `Refuse` is a
permanent error, `GiveUp` a transient one: the write may have been applied, may
never be, or waits in `late` for `ApplyLate`.  A crash of the service is a
`GiveUp`.  `Login` is a user completing its required actions.  What a command keeps
between its requests is the representation it read (`seen`): a `PUT` writes all
attributes back from there.

* The group and role requests of `_apply_entitlements` are one write "entitle"; one
  that fails half-way counts as not applied.
* A request and the fetching of its token are one; so are the reads of `_snapshot`.
* The `employee_id` in a payload's attributes is the one of the command.
* `reconcile` only reads and is left out.

### Mailbox

`pc[p]` is the provider call an operation awaits.  The record an action extends is
the one read before the await (`read`), and nothing keeps another operation from
saving in between.  The provider is external: it is taken to be idempotent by key
and to give an address to one creation.  `Raise` ends an operation at any call,
applied or not, and stands for refusals, timeouts and crashes alike.  `was` and
`mixed` record history for the properties.  `verify` and `reconcile` write nothing.

### Guard

`Decode`, `AcceptJti` and `CheckRate` are the three steps of `authenticate` that read
the clock, which may move on between them; no other call gets in between, since
there is no await.  The claim checks of a decoded token are left out: they depend
on the token alone.

### Slips

Operators named `Slip...` are not part of the model.  Each is the operator after
it with a plausible coding slip, used to see that the properties can fail.

## 3. Runs

All runs finish within five minutes with two workers.

### Runs that pass

| Run | Instance | Checks |
|---|---|---|
| `gate` | create, change and activate one account by three requests; 4 calls | `ActivationSafe`, `RunningIsOwned`, `OneCallPerEmployee`, `FrozenInFlight`, refinement `ImplementsAccessGate` |
| `saga` | two systems created, then enabled by a second request; 4 calls | `CompensationRecorded`, `CompensatedHasNoAccess`, `NoCompensationOfSuperseded` |
| `crash` | three steps, 2 calls, one crash anywhere | `TypeOK`, `AttemptBudget`, `StepOrder`, `ReplayNeverOverclaims`, `SettledStays` |
| `progress` | two steps, 2 calls, with fairness | `CallsFinish`, `RequestsSettle`, `CompensationResolves` |
| `outbox` | 2 events, 3 tries, batches of 1, one crash, with fairness | `TypeOK`, `NoEventLost`, `PostBudget`, `Drains` |
| `sip` | 4 calls, 2 employees on the one phone, 2 bindings, one change by the engine | `TypeOK`, `CredentialsMatch`, `RevokedIsRotated`, `EndedStaysEnded` |
| `lifecycle` | 4 requests, 2 systems, 2 identities, each named by the caller or left out | `TypeOK`, `OwnIdentity` |
| `keycloak` | 8 commands, 2 employees, 2 usernames, one write applied late | `TypeOK`, `LifecycleTellsAccess`, `OwnUser`, `OneUserPerEmployee`, `SuspendedIsOut` |
| `mailbox` | 5 operations, 2 keys, one address | `TypeOK`, `SavedIsComplete`, `ReplaysOwnRecord`, `RecordedHappened`, `AlignedWhenSerial` |
| `guard` | 6 calls, 5 tokens, 2 subjects, 8 seconds, windows of 2 | `TypeOK`, `UsedOnce`, `RateBound`, `RefusedOnlyAtLimit` |

`ImplementsAccessGate` maps the evidence of an employee to the systems for which
`activation_blockers` would return nothing.  It says that an account is only ever
enabled while that evidence is there **at the moment the provider acts**, not only
when the engine looked.

`OneUserPerEmployee` and `SuspendedIsOut` hold as long as no write is applied late; a
`POST` or an enabling `PUT` that Keycloak carries out after its client has given it
up can break both, and no code of the adapter could prevent it.  What holds even
then, `LifecycleTellsAccess` and `OwnUser`, is stated without the restriction.
`CredentialsMatch` speaks of the states after a rotation that had the phone to itself
and was answered, until something else touches the credential: then the session of
that employee, if active, has the credential that works, no revoked session has it, and
no other employee's session does.  After overlapping, lost or late rotations the
fingerprint of an active session really can be that of a credential that no longer
works, and the session of another employee always loses its credential; the property
says that the next call that runs alone repairs it for its own employee.
`RevokedIsRotated` excepts the revocations that went astray.
`OwnIdentity` is about completed identities: one that the caller sends is the caller's
choice, and is what later commands are bound to.
`AlignedWhenSerial` excludes addresses whose operations overlapped, while
`RecordedHappened` says what an overwritten record is still good for.

### Runs that refute a text of the repository

Each of these checks one statement quoted from a doc, comment or test, and TLC
finds a behaviour of the code against it; the counterexample in a sentence:

| Run | Statement | What happens |
|---|---|---|
| `cancelled_retry` | a cancelled execution cannot be retried (`test_engine.py:685`) | `retry` tests `cancelled_at`, waits for the lock that `cancel` holds, then reschedules and runs a step |
| `create_retry` | "Each step is durably claimed and independently idempotent." (`README.md:26`) | `create_disabled` writes its key with the user, the groups and roles afterwards; a retry after a failure in between finds the key and reports success without them |

The code departs from its texts in four more places, each with a configuration
beside the others that makes TLC print the behaviour (`tlc -config X.cfg M`):

| Configuration, module, property | Statement | What happens |
|---|---|---|
| `StuckRunning.cfg`, `MCProvisioning`, `RequestsSettle` | "Restart recovery reclaims stale work." (`README.md:28`) | `recover_stale` runs once, at start: after a restart within the claim timeout the running step is never claimed again |
| `CrashBeforeCompensation.cfg`, `MCProvisioning`, `FailureIsCompensated` | "durable bounded compensation retry after restart" (runtime audit, line 33) | a crash between the dead letter and the first compensation row leaves nothing to retry |
| `DueNotOwed.cfg`, `MCProvisioning`, `DueStillOwed` | a retried request is removed from due compensation (`test_repository.py:182`) | the worker's list is stale when it gets the lock |
| `StaleIdentity.cfg`, `MCLifecycle`, `BoundToLast` | "stay bound to the last successful target command" (`engine.py:507`) | `lifecycle` completes its payload before it waits behind another command that names an identity |

Smaller disagreements and surprises, visible in the properties that do hold or in
the actions named:

* `README.md:26` says that exhausted steps enter the dead-letter table, but a crash
  in the last attempt adds an attempt (`recover_stale` does not look at
  `attempt_count`): `AttemptBudget` allows one more per crash.
* A delivered callback can become undelivered again when a second post of it, in
  flight at the same time, fails last (`MarkCallback` overwrites the row):
  `PostBudget` allows the extra try.
* The dead-letter metric (`main.py:164`) misses a step that is dead-lettered a
  second time: `FailStep` keeps the resolved row (`INSERT OR IGNORE`).
* The worker can make a fourth compensation attempt although the row's maximum is
  three, because its list is stale when it gets the lock (`WorkerTakesDue`).
* `_compensate` does not consider `reactivate` (`Compensable`), so a reactivation
  that fails half-way leaves the access it enabled (`engine.py:281`: "Reduce access
  after partial failure").
* `KEYCLOAK-PROVISIONING.md:47` says of the activation link "It remains fail-closed",
  but `activate` enables the user before it looks at the client and redirect
  (`AfterEnable`): a command refused for them leaves the account enabled.
* `update` overwrites the `provisioning_idempotency_key`; a creation retried after it
  ends in `duplicate_username` (`Merged`, then `FindName`).
* `verify` demands that the required actions are still open (`Snapshot`), so it fails
  for good once the user has completed them.
* A mailbox provision that failed after the mailbox existed cannot be resumed: its
  retry begins with `check_availability` and ends in `AddressCollision` (`Accepts`).
* Within the leeway of ten seconds after `exp` a token is still decoded but its
  `jti` row may have been purged, so it can be used again (`Decode`, `Expired`);
  `UsedOnce` counts uses up to `exp`.
* A call that is refused by the rate limit has used up its token (`AcceptJti` comes
  before `CheckRate`).

### Bounds

* `Calls`: each process is one API call of any kind on any request, so three or
  four calls give every pair and triple of racing entry points (two
  racing, one that set the scene, one that observes).  The worker is always there
  besides.
* Tables: two systems suffice for a failure after a success, a third step for
  order after recovery; a second request of the same employee for stale evidence
  and superseded compensation.  One employee is enough because no row, lock or
  account is shared between employees; the theorems are for any number of them.
* Two events in the outbox with batches of one: one event is left over for the
  next round, and a post of the worker overlaps the caller's.
* `MaxAttempts` is 1 or 2, so that first, last and exhausted attempts all occur;
  `CompMax` is the code's 3.
* `MaxCrashes` is 1: what one crash leaves in the database is the start of
  another; the theorems hold for any number.
* `MaxChanges` is 1: an identity becomes invalid, or its phone moves, or the engine
  rotates the phone.
* `Keycloak`: two creations for one employee under two names and one of another
  employee for the first name give every name and identity clash; then one command
  of each kind that sets or changes access.  `terminate` and `rotate_credentials`
  have no command in this table: the first makes the requests of `suspend`, the
  second undoes a `Login`.  The proofs cover both.  The first
  creation has two attempts, since its retry is the one that depends on what the
  first has left; `MaxLate` is 1: one late write meets every order of the others.
* `Mailbox`: addresses share nothing, so one is enough; two keys for it, and five
  operations: two provisions that overlap, and two actions on top, and a replay.
* `Guard`: a limit of 2 and windows of 2 seconds, three full windows and the
  deletion of old ones, one token that expires early and is purged, a second
  subject that must not be disturbed.
* Calls are interchangeable before they start, and no definition chooses among
  them, so permuting them is a sound symmetry; liveness runs use none.

Deadlock is checked in the runs of `Provisioning` and `CallbackOutbox` (the
worker always goes on).  `SipBrowser`, `Lifecycle`, `Keycloak`, `Mailbox` and `Guard` end
when every call has returned, so it is not checked there.

### Fairness

`FairSpec` of `Provisioning` assumes that

* every coroutine that can go on infinitely often does: asyncio's ready queue is
  FIFO, and adapters and the callback receiver answer or time out (15 s and 10 s
  HTTP timeouts);
* the worker task goes round (it sleeps and wakes);
* clocks advance, so that retry times pass;
* a dead process is restarted by its supervisor.

Strong fairness is needed for the coroutines because `LoopFree` disables them each
time another one runs.  Clients promise nothing: no fairness on `Start`,
`ReadResult` or `Land`.  Activating requests are excluded from `RequestsSettle`,
since a blocked activation is put back until somebody verifies.
The outbox assumes the same of posts, the worker loop and the clock.

## 4. Proofs

Each theorem holds for every value of the constants: any number of calls,
employees, systems, steps, attempts and crashes.  The assumptions are the `ASSUME`s
of the modules, which TLC evaluates in each run.  Those of `Provisioning` are
`ConstantsTyped` (types of the tables, `max_attempts` positive), `StepsOfRequests` (a
request has a step; sequences are unique in a request, which `contracts.py`
validates), `ProcessNames` and `NoStepIsNone` (the names are distinct).

Most theorems state a property that a run checks on a small instance.  Those that
do not (`LockDiscipline`, `WaitersAreServed`, `NoRequestIsStuck`, `OneActiveSession`
and the `...Invariance` theorems) have their statement in the proof
module.

### The engine: ProvisioningProofs, SagaProofs

| Theorem | Statement |
|---|---|
| `TypeCorrect` | `Spec => []TypeOK` |
| `LockDiscipline` | code inside `async with employee_lock` holds the lock of its request's employee, and one coroutine at a time is between two awaits |
| `MutualExclusion` | `Spec => []OneCallPerEmployee` |
| `RowsFrozenInFlight` | `Spec => FrozenInFlight` |
| `ActivationIsSafe` | `Spec => []ActivationSafe` |
| `CompensationIsCurrent` | `Spec => []NoCompensationOfSuperseded` |
| `StepsInOrder` | `Spec => []StepOrder` |
| `AttemptsBounded` | `Spec => []AttemptBudget` |
| `SettledIsFinal` | `Spec => SettledStays` |
| `ReplayIsTrue` | `Spec => []ReplayNeverOverclaims` |
| `NoClaimLost` | `Spec => []RunningIsOwned` |
| `WaitersAreServed` | who waits for an employee lock is in its queue once, and the lock is held by another coroutine inside the critical section, or is free for the first in the queue |
| `NoRequestIsStuck` | an accepted request that is neither completed nor dead-lettered has a row at work, a row that `claim_next` gives the worker, or a first open row that is due later |
| `FailureIsRecorded` | `Spec => []CompensationRecorded` |
| `CompensationHolds` | `Spec => []CompensatedHasNoAccess` |
| `AccessGateImplemented` | `Spec => ImplementsAccessGate` |

`ActivationSafe` is not inductive: to know that nobody disturbs the rows of an
employee one must know who may write them.  The inductive invariant `Inv` is the
conjunction of

1. `TypeOK`;
2. `Located`: at each point a coroutine has a request, and the step it works on is
   a step of that request (without it an action could touch another employee);
3. `LockInv`: whoever is inside the lock holds it, who takes the fast path finds
   it free, and only one coroutine is between two awaits;
4. `DownInv`: when the process is down no coroutine is in a call (so a restart,
   which rewrites running rows without a lock, meets no call in flight).

`Invariance` is `Spec => []Inv`.  From `Inv`, `FrozenStep` shows by cases on the
action that a step which leaves a coroutine in its adapter call leaves the rows of
its employee alone.  `Blocked` is a function of those rows, so `ActivationStep`
follows: `Admit` establishes the check, and every other step keeps it.
`CompensationIsCurrent` has the same shape with another reader: whether a
compensation is superseded depends on the successes and the order of the rows of
the employee.  `CompensateNext` establishes it when the call begins, and
`SupersededFrame` shows that no other step changes what it reads.

`SagaProofs` turns the same facts into two lemmas used throughout: `OwnStepOnly` (only
its own statements and a crash move a coroutine) and `OthersStandBack` (while a
coroutine is inside the lock and does not move, nobody writes a row of its employee).  On top of `Inv` it proves
`RowInv == Inv /\ Owning /\ StepOrder /\ Budget`:

* `Owning`: the row a coroutine has claimed is running and is the newest of its
  employee.  Without it `complete_step` and `fail_step`, whose `UPDATE` names the row
  but not its state, could overwrite a settled one.  With it every change of a row
  is one of the moves of `RowMove`, from which `SettledStays` and `StepOrder` follow.
* `Budget`: a row that may still be claimed has an attempt left, counting one for
  each crash; `AttemptBudget` alone does not survive `claim_next`.

`WaitersAreServed` and `NoRequestIsStuck` are the safety halves of `CallsFinish` and
`RequestsSettle`: what must hold in each state so that the fairness of the loop, the
adapters and the clock can carry calls and requests to their end.  The first rests on
`WaitInv`: a lock is held by a coroutine inside its critical section (`NoLeak`), and
the queue of an employee has exactly those who wait for that employee, once each
(`Queues`).  A coroutine inside waits for no other lock, so nobody waits in a circle.
`LockMoves` reduces the actions to the six things that a step does to a lock.  The
second rests on `Whole` (the rows of a request appear together) and on `NoClaimLost`:
if no row runs, the open row with the least sequence number (`LeastStep`) has settled
rows before it only, and is claimable as soon as it is due.  After a crash a running
row may have no owner, which the statement allows and `StuckRunning.cfg` shows.

`RecordInv` says of every compensation that is due where its record is: in the table,
or in the hands (`InHand`) of a coroutine between `fail_step` and its loop.
`CompensationInv` says what the loop of `_compensate` knows: its targets are done, and
a call that has landed has taken the access away.  That the access does not come back
unnoticed is `Owning` again: an activation in flight is newer than every row that has
been compensated.  For the refinement, `Created` says that a successful
creation has left an account, so that no later call of the engine starts from "none";
then each step is a creation, an enabling under evidence (`ActivationSafe`), a
disabling, a change of evidence, or a stutter of `AccessGate`.

### The outbox: CallbackOutboxProofs

| Theorem | Statement |
|---|---|
| `OutboxTyped` | `Spec => []TypeOK` |
| `TriesAreBounded` | `Spec => []PostBudget` |
| `NothingIsLost` | `Spec => []NoEventLost`: an event is in the table before its first post; it is given up after `MaxTries` tries and not before; until then it is due later, or `DueCallbacks` has it or an older event |

`PostBudget` is not inductive: a post that is under way, or a row still waiting in the
worker's snapshot, will add a try although the row is at its limit.  `Budget` counts
these too: `due_callbacks` takes rows below the limit only, a snapshot holds a row
once, and the caller posts once.  `Table` (an event is inserted once, so `created_at`
orders the rows) and `Places` show that the loop posts rows of its snapshot.
`NothingIsLost` is the safety half of `Drains`, with the invariant `Kept`; that the
snapshot is never empty while an event is due (`SnapshotServes`) is again the order by
`created_at`: the oldest due event has none before it, so the limit cannot exclude it.

### Browser sessions: SipBrowserProofs

| Theorem | Statement |
|---|---|
| `SipTypeCorrect` | `Spec => []TypeOK` |
| `SessionEndIsFinal` | `Spec => EndedStaysEnded` |
| `RevocationRotates` | `Spec => []RevokedIsRotated` |
| `CredentialsAgree` | `Spec => [](MatchInv /\ CredentialsMatch)` |
| `OneActiveSession` | `Spec => []OneActive`: the unique index on active sessions is never wanted by two |

`Placed` says what the place of a coroutine tells of its session (a creation has no
row before its rotation, a renewal or revocation has one), `Replaced` that a rotation
which landed has replaced the credential of the creation, whoever rotated in between,
unless it went astray.  `CredentialsMatch` speaks of states with no call in flight;
`MatchInv` strengthens it to those in which no call in flight has landed, and `AloneInv`
says what a call knows that has had the phone to itself: it is the only one in flight,
once landed its credential is the one in force, and no other session of its employee
is active.  A rotation that lands late, and one by the engine, ends both (`Displaced`).

### Identity binding: LifecycleProofs

| Theorem | Statement |
|---|---|
| `LifecycleTyped` | `Spec => []TypeOK` |
| `IdentityIsOwn` | `Spec => []OwnIdentity` |

A lifecycle command copies an identity from the log, where another lifecycle command
may have put its own copy.  `Origins` follows the chain to its end: every completed
identity in the log or in a stored command was named by a caller, in a command of the
same system that is a `create_disabled` or succeeded after one.
`Queued` (a call that waits is in the queue) is needed for the types alone.

### The Keycloak adapter: KeycloakProofs

| Theorem | Statement |
|---|---|
| `KeycloakTyped` | `Spec => []TypeOK` |
| `LifecycleIsTrue` | `Spec => []LifecycleTellsAccess` |
| `CreatedIsOwn` | `Spec => []OwnUser` |
| `OneAccount` | `Spec => []OneUserPerEmployee` |
| `SuspensionHolds` | `Spec => []SuspendedIsOut` |

The difficulty is that a write is decided at one time and applied at another.  `IInv`
therefore says what every write in flight or late will do whenever it is applied:
`Writing` (only a creation posts, every other write goes to an existing account of the
command's own employee and carries a key of that employee), `Reading` (which commands
carry a representation they have read) and `KeyOwner` (the key on an account is that
of a command of the account's employee).  `OwnUser` follows, because finding one's own
key on an account means finding one's own account, whoever has rewritten the
attributes since.

The last two theorems are about `lates = 0` and need more (`AInv`): `Alone` (one
command of an employee in flight, from the engine's lock), `Single` (identities are
unique, and the employee of a command about to post has no account, which stays so
because nobody else may post for it), `LastInv` (a command in flight that sets access
is the last to do so) and `OutInv` (a disabling command past its `PUT` has disabled the
account, past its logout has ended the sessions; a `Login` in between is possible only
before the `PUT`).

### The mailbox service: MailboxProofs

| Theorem | Statement |
|---|---|
| `MailboxTyped` | `Spec => []TypeOK` |
| `SavedMailboxIsComplete` | `Spec => []SavedIsComplete` |
| `ReplayIsOwn` | `Spec => []ReplaysOwnRecord` |
| `RecordTellsHistory` | `Spec => []RecordedHappened` |
| `SerialIsAligned` | `Spec => []AlignedWhenSerial` |

`Progress` says what the provider's mailbox is like at each stage of a provision
(past "create" it carries the key, past "license" a licence, ...), and that the
record an action has read belongs to the mailbox that is still there, complete and
with the history it tells; `Born` that a mailbox that exists was once disabled.
Stages only add, so overlapping provisions cannot undo one another's.

`AlignedWhenSerial` speaks of idle addresses; `Serial` says what a single operation
under way may leave open: an action that has landed runs ahead of its record, and a
provision gets past its availability check only while there is no record, because a
record means a mailbox.  `Fresh` adds that no action touches a mailbox before it has a
record, so that the first record, `awaiting_activation`, meets a disabled mailbox.

### Admission: GuardProofs

| Theorem | Statement |
|---|---|
| `GuardTyped` | `Spec => []TypeOK` |
| `TokenIsSingleUse` | `Spec => []UsedOnce` |
| `RateIsBounded` | `Spec => []RateBound` |
| `RefusalIsDeserved` | `Spec => []RefusedOnlyAtLimit` |

A token accepted before its expiry stays in `replay_jti` until the clock has passed it
(`Remembered`), whatever the other calls delete.  The types need `Counted` (no counter
is ahead of the calls that have been made) and `WindowOfTime` (`WindowAt` is a multiple
of the window).

`RateBound` and `RefusedOnlyAtLimit` sum over seconds.  The sum is a fold, so the
proof first shows what it computes: the number of pairs of a second and a natural up to
the second's count (`SumIsCount`; a set on which the two differ would have a smallest
subset on which they differ, and one step of the recursion leaves none).  The lemmas
after it are facts about cardinalities.  The inductive invariant is `Budget`: no window
admits more than the limit (`WithinLimit`); the row of the current window, and of each
later one, has counted every admission (`RowsCount`), which the deletion of old rows
keeps because it spares these; and `RefusedOnlyAtLimit`.  A span of one window's
length lies in at most two windows (`WindowsOfSpan`), in one if it is aligned, whence
`RateBound`.

### Only model-checked

* Liveness under fairness (`CallsFinish`, `RequestsSettle`, `CompensationResolves`,
  `Drains`) and anything with ENABLED, which the prover does not handle.
* The two statements of the repository that runs refute.

## 5. What is not modelled, and the plan

Next, in the order of what they would add:

1. Closed gates and missing secret files, whose exceptions end the worker task;
   `fail_step` as two statements.
2. Compositions: `Provisioning` with `CallbackOutbox` (is every result reported?) and
   with `SipBrowser` (compensated identities and sessions).

Not modelled:

* the mock mailbox and the secret store: each operation is one statement on one
  row inside the store's lock;
* `reconcile` of the engine, of the Keycloak adapter and of the mailbox service, which
  read and compare only;
* the claim checks on a decoded token, field validation and configuration: functions
  of one input, which unit tests reach;
* HTTP request building and response parsing, signing and encryption, environment
  parsing, logging, deployment files and scripts: they keep no state that the
  properties are about.
