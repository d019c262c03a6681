# Verification of the textile ERP: offline printing and synchronisation

This directory holds TLA+ models of the parts of the system whose correctness
depends on the order in which several parties act, the TLC configurations that
check them on small instances, and proofs (TLAPS) of what holds for every
instance. It is read beside the code: `PROJECT.json` names, for every
definition, the file and lines it stands for.

## 1. The system

A factory company (tenant) has one PostgreSQL database; a master database keeps
companies, devices, licences and platform users. A NestJS API (`apps/api`)
serves all tenants. Every workstation runs an Electron application
(`apps/desktop`) that must keep printing Pattas (labels of work bundles) and
entering work sheets while it is offline, from a local SQLite database that
mirrors the tenant's reference data and queues its own mutations.

| part | state it keeps | operations | talks to |
|---|---|---|---|
| **Number blocks** (`patta-number-blocks.service`, `patta-partiya-number-blocks.service`, the two desktop repositories) | the number sequence, ranges with status and usage on the server; a copy with `next_number`, consumption and role on each device | allocate, report usage, cancel; consume, prefetch, merge server rows | the sync cycle, the change feed, the online batch service (same sequence) |
| **Event ledger** (`sync-event-processor`, handlers, `sync.service` push) | `processed_sync_events`: one row per event id with its final result | reserve an event id, apply its handler in a savepoint, store SYNCED / CONFLICT / FAILED, replay a stored result | the domain services, the change recorder |
| **Change feed** (`sync-change-recorder`, `sync.service` pull, `sync-bootstrap.service`) | `server_change_log`, bootstrap sessions and items | record under the advisory lock, pull a page, create / page / complete a bootstrap, expire and clean up sessions | every writer of a synchronised table; every device |
| **Desktop outbox** (`sync-queue.repository`, `sync-conflict.repository`, `local-unit-of-work`) | the queue rows with status, attempts, dependencies; ownership of local rows; conflicts | enqueue, coalesce, claim, apply results, defer, fail, recover, clean up | the local services, the sync engine |
| **Desktop mirror** (`reference-mirror.repository`, `bootstrap-staging.repository`, `sync-state.repository`) | rows with server sequence, tombstones, the cursor, a staged snapshot | apply a pull page, stage and finalize a bootstrap, reconcile | the sync engine |
| **Sync engine** (`sync-engine`, `retry-policy`, `network-status.service`) | the active run, the retry timer, the device's status | one cycle: recover, bootstrap, push, pull, blocks, clean up; classify failures | outbox, mirror, transport |
| **Model-account adjustments** (`model-account-adjustments.service` and its sync handler, the desktop repository and service) | quantity, lifecycle, version of each adjustment, on both sides | create, update, trash, restore | ledger, outbox |
| **Patta sheets** (`patta-sheets.service`, desktop `patta-sheet.service`) | sheets, operation snapshots, rows | create, update, trash, restore, purge | ledger, outbox, badges, prices |
| **Print batches** (`patta-print-batches.service`, `patta-print.service`) | batches, sizes, Pattas, print events | create, correct, register offline batch / correction / print event | number blocks, sheets |
| **Badges and prices** (`badge-history.service`, `operation-price.service`) | effective-dated intervals per badge / operation | assign, reassign, release; change price, resolve at an instant | sheets, adjustments |
| **Workers, models, operations, templates** | master data of the tenant | create, update, deactivate | change feed |
| **Tenant authentication** (`tenant-auth.service`, sessions, guards, RBAC) and **platform authentication** | hashed refresh tokens, roles | login, rotate, logout | rate limiter |
| **Desktop session** (`desktop-auth.service`, secure store, http clients, `desktop-tenant-runtime`) | access and refresh token, state, session generation, open database, engine | login, restore, refresh (single flight), logout, switch tenant | tenant authentication, sync engine |
| **Provisioning, connections, resolver** (`provisioning.service`, `tenant-connection.manager`, `tenant-database-manager`) | company status and step, cached data sources | provision and resume, get / close a connection | master database |
| **Login rate limiter** | counters per identifier and address | consume | authentication |
| **Device access and licences** | device rows of the master database | register, revoke, check | guards |
| **UI and plumbing** (renderer, preload, IPC, platform admin, DTO validation, migrations, printing) | none that several parties share | presentation, validation, schema | everything |

### How the parts interact

* A device never waits for the server to do business: a local service changes
  SQLite rows and enqueues a queue event in one transaction. Later a sync cycle
  pushes the queue; the server runs each event in a transaction of its own and
  remembers the result under the event id; the device applies the results.
* Every server transaction that changes a synchronised row appends to
  `server_change_log` under one advisory lock held to the end of the
  transaction. Devices read the log after their cursor; a new device first
  stages a snapshot taken under the same lock.
* The number blocks are outside the queue: allocation and usage reports are
  plain requests made at the end of the cycle.

### What is hard

* requests that outlive their timeout: the device retries what the server may
  still be executing (number blocks, event ledger);
* results lost after the commit: the same event is sent again, perhaps several
  cycles later, while the feed has moved on (ledger, outbox, mirror);
* rows the device changed itself meet server changes of the same row;
* crashes between "claimed", "sent", "stored" and "cleaned up";
* commit order versus the order sequence values are drawn (change feed);
* sessions that expire or are replaced while a device reads them;
* several local edits folded into one event (outbox coalescing);
* one event of several failing, and what happens to its siblings;
* two users or devices changing one row on the same base version;
* caches and single-flight promises outliving the session that created them.

### What makes each part correct

| part | correct means |
|---|---|
| number blocks | no number is printed twice; ranges never overlap; the server's usage is what was printed; a local counter never moves back; a device out of numbers gets a block again |
| event ledger | an event takes effect once, atomically with its stored result; every answer to it is that result; versions of a row form one chain |
| change feed | it holds every committed change once, and commits in sequence order |
| bootstrap and mirror | a device's mirror is the server's state at the device's cursor; the cursor never goes back; a device catches up |
| outbox and sync engine | an event is sent until it is decided and never changes once sent; local work is neither lost nor hidden by older server rows; after quiet the row of every settled event equals the server's |
| adjustments, sheets | a mutation is accepted only on the version it was made on; totals follow the accepted rows |
| print batches | sizes, Pattas and print events agree with the numbers taken; a correction applies to the batch it was made on |
| badges, prices | intervals per badge and per operation do not overlap and have no gap where none is meant; a resolved price is the one in force |
| tenant sessions | a refresh token is used once; logout ends the session whatever refresh is running |
| desktop session, runtime | tokens, tenant and open database belong together after any interleaving of login, refresh, logout |
| provisioning, connections | a step is repeated safely after a crash; one data source per tenant, closed once nobody uses it |
| rate limiter | no more attempts than the limit in a window |

## 2. The modules

Each family has a specification module, a proof module that extends it, and an
MC module with its configurations. A definition whose comment begins "Mutant:"
is a plausible mistake in the code, used to show that a property can fail; the
specification never uses it.

### NumberBlocks: allocation and offline consumption of numbers

State: `family` says which of the two allocators the behaviour is of (`Init`
chooses it from `Families`), `nextNumber` is `patta_number_sequence`, `blocks` the server's block
rows, `unread[d]` the changes of d's blocks it has not pulled, `mirror[d]` the
device's own rows, `staged[d]` a staged bootstrap, `requests` what the network
holds, and `phase`, `page`, `todo`, `awaiting`, `reply` the program counter of
the sync cycle. `issued` is a history variable: how often each number was
printed.

| action | code |
|---|---|
| `ConsumeNext` | `consumeNext` / `consume`, one SQLite transaction: current block, its demotion, the next usable one |
| `IssueOnline` | a batch the API prints itself |
| `Handle` (`Allocate`, `ReportUsage`) | the two server handlers, each in a transaction under the sequence's and the block's row locks |
| `Cancel` | an operator cancels a block |
| `StageBootstrap`, `FinalizeBootstrap`, `ReadPage`, `ApplyPage` | what the cycle does to block rows before the block phase |
| `BeginPartiya` | the Patta phase of the cycle has gone well; only then does the Partiya phase begin |
| `SendReport`, `SendAllocate`, `ReceiveBlock` | `synchronizeNumberBlocks`, for the family looked at |
| `CycleFails`, `LoseRequest` | a timeout, a lost reply, a crash of the device; the request stays in the network and may run later |

The two allocators share no row. They differ in the role an allocated block gets,
in the condition to prefetch and in their place in the cycle: after the last pull
page come the reports and the allocation of the Pattas, and those of the Partiyas
only when nothing of that was refused or lost (`phase` "patta").

### EventLedger, Adjustments, ExactlyOnce: the push side of the API

`EventLedger` runs `Worker` requests at once, each event in a transaction of
its own: `Reserve` (the insert that waits for an uncommitted copy of the event
id), `Replay` (a stored result), `Dispatch` (the handler reads the row without
a lock and chooses edit, trash or restore), `Apply` (the service locks the row,
checks version and lifecycle, or refuses), `Record` (the change log's advisory
lock), `Commit` / `CommitRefusal` (the result is stored), `Respond`, and
`Abort` at any point. `Adjustments` holds the pure rules of the service.
`ExactlyOnce` is the abstract specification: an event is decided once,
atomically with its effect, and every answer is that decision;
`ImplementsExactlyOnce` states the refinement (`decided <- ledger`).

### ChangeFeed: the feed, bootstraps and the mirror

State of the server: `rows`, `changes` (`server_change_log`), `nextSequence`
(the BIGSERIAL, which does not roll back), `changeLock`, the open transactions
(`wrote`, `recorded`), `sessions`, and `creation[d][s]`, the create requests of
a device: the one it waits for and one it has given up but the server still
executes. State of a device: `cursor`, `mirror`, `staged`, `completed`,
`acknowledged` (all in SQLite), and the cycle (`phase`, `retried`, `reply`).

| action | code |
|---|---|
| `Write`, `Record`, `Commit`, `Rollback` | a service that changes rows of synchronised tables (workers.service `update` is the one mapped) and `SyncChangeRecorder.record` |
| `Snapshot`, `Materialize`, `CreateFails` | `SyncBootstrapService.create`: locks, cleanup, REPEATABLE READ snapshot and watermark; then the replacement of the device's sessions and the items |
| `PageCheck`, `PageRead` | the two statements of `page` |
| `Complete` | `complete` |
| `SessionLapses` | `expires_at` passes |
| `StartCycle` ... `ConfirmationLost` | the phases of `runCycle`, `establishBootstrap` and `retryBootstrapCompletion` |

Rows are abstracted to their version. The order keys of staged items are
contiguous numbers in the code; `Rank` keeps only their order. Page sizes are
any positive number. The push phase lies between acknowledgement and pull and
belongs to the outbox; here its failure is a `CycleFails`. The client's answer
to `SYNC_CURSOR_EXPIRED` is not modelled, because no server code emits it.
`CreateFails` is an answer without a session; where REPEATABLE READ refuses the
replacement of the old sessions (another transaction of the same company removed
one of them) it is the only outcome, which takes two devices and two faults.
No run is that large; the proofs cover it.

### AdjustmentSync: offline edits on their way to the server and back

State of the server: `rows`, `ledger` and `feed`, an event decided in one step
(`EventLedger` shows that its transactions amount to that; `ImplementsExactlyOnce`).
State of a device: `local` (its rows with ownership, version, server sequence),
`queue` (the outbox; one sequence for all devices, events numbered as they are
made), `cursor`, all in SQLite; and its cycle: `phase`, `batch`, `request` (the
bodies of its request still to be processed), `upto` (the pulled page). `late`
holds what is left of requests nobody waits for any more. `delayed`, in an event
of the outbox, is a history variable: the event was once put off to a later time.

| action | code |
|---|---|
| `Create`, `Edit`, `SetTrashed` | the user's operations of the desktop service, row and event in one SQLite transaction; `Enqueue` and `Coalesce` are the two ways an event gets into the outbox |
| `StartCycle` | `recoverStaleSyncing` |
| `ClaimPendingBatch`, `NothingPending` | `pendingBatch` and `markSyncing` in one transaction; nothing to push |
| `Process`, `ProcessLate` | the server's loop over the events of a request (`Decide` is one of them), for a request the device waits for or an abandoned one |
| `ReceiveResults`, `RejectResults` | `applyPushResults` in one transaction; an echo that does not match fails the whole batch |
| `LoseRequest`, `AuthRequired`, `ServerError` | the classes of `retry-policy`: deferred with a delay, deferred until the next login, failed for good |
| `BecomesDue` | `next_attempt_at` passes |
| `Crash`, `PullFails` | the application stops in a cycle; the pull fails |
| `Pull`, `ApplyPullPage` | the feed up to its end; rows without local work take the newest change, the cursor moves |

The server may refuse any event (validation, references, permissions, the
clock), so a refusal is a free choice between CONFLICT and FAILED; it accepts
only what `Adjustments` accepts. The page-wise pull is in `ChangeFeed`; here a
page reaches to the end of the feed, and every device is bootstrapped. A
request that fails as a whole with 409 is left out: no path of the server
raises one for this protocol version. The desktop has no operation that
retries a FAILED event or resolves a CONFLICT; both keep their row from being
edited, and a conflict leaves it in SYNCING, because
`sync-conflict.repository` sets the ownership of Pattas and sheets only.

`Promise` states what the whole amounts to, with the same abstract specification
as the ledger: `ExactlyOnce`, where the answers heard are the verdicts the
devices' outboxes hold (`Decisions`, `NamedRows`, `Heard`).

### PattaDocuments: batches, Pattas, sheets and prints on the server

State: `batches` are the rows of `patta_print_batches` with their size rows,
`pattas` those of `patta_hisob` by number, `sheets` those of `patta_sheets` with
the quantity of their live rows, `prints` the print events, `nextPatta` the
number sequence. A transaction at READ COMMITTED is a request: `req[r]` is what
was asked, `stage[r]` the statement it has come to, `want[r]` the row locks this
statement has still to take and `held[r]` those the request holds. `Acquire`
takes them one after another, in the statement's order; `AbortVictim` is
PostgreSQL's end of a deadlock, `RollBack` any other failure. All rows are
written in the last step, `Write`, after the triggers have judged them (and the
primary key of the print events, which two prints of different batches under
one identity would violate: `Found`).

| action | code |
|---|---|
| `BeginCreate`, `TakeNumbers` | `create`: Partiya sequence, then the numbers in size order; `first` is what was read of the sequence under its lock |
| `BeginRegister`, `BeginRegisterOne` | a device's offline batch or single Patta, with numbers of its blocks |
| `BeginCorrect`, `CorrectBatch`, `CorrectEntries`, `CorrectAssign`, `AllocateCorrectionPattaNumbers` | `correct` of the browser: batch, Pattas, sheets, then the assignment of sizes in number order (`Assignment`) and the sequence |
| `BeginCorrectOffline` | the same from a device, which brings its own assignment |
| `BeginLegacy`, `LegacyEntries` | the quantity of Pattas from before batches |
| `BeginPrint`, `PrintBatch` | a print event, which marks the revision that was printed |
| `BeginCreateLinked`, `CreateLinkedPatta`, `CreateLinkedPrior`, `BeginCreateStandalone`, `Reused` | `create` of a sheet; an identity that is taken is refused (`PATTA_SHEET_ID_REUSED`) |
| `BeginOnSheet`, `ApplyUpdateEvent`, `EditLinked`, `EditLinkedPatta`, `BeginEditStandalone`, `SetTrashed`, `Purge` | update, trash, restore, purge, and a device's UPDATE event, which is read as one of the first three |
| `ContentsMatch`, `BatchesMatch`, `PattasMatch`, `SheetsMatch`, `RowsWritable`, `TimesMatch` | the triggers of `database/tenant-migrations` |

`TimesMatch` stands for the comparison of `updated_at`, which is the time a
transaction began: `elders` remembers who was in progress when a request began,
and `overtaken` the sheets a younger transaction has written since. `Kind`
bounds the operations in use, so that one instance looks at batches and another
one at sheets. `FreshSheet` is what `randomUUID` means for a creation: no row has
the identity, no request names it, and none waits for it; an identity that a
purged sheet once had, and that another statement still waits for, never comes
again. A creation that is sent again under an identity that is taken is `Reused`.

### EffectiveHistory: badges and prices by instant

State: `history` holds the rows of `worker_badge_history` and
`model_operation_prices` (`of`, `is`, `from`, `to`), `status` and `version` the
workers, the operations and the model, `now` the database clock; a request
(`request`, `held`) knows when it began, which is the time its change takes
effect unless the caller names one. `snapshot` are the prices a print batch has
read and not yet committed.

| action | code |
|---|---|
| `Assign`, `Reassign`, `Release` | `badge-history.service`: advisory lock and rows of badge and worker, the open row closed, the next one inserted, the exclusion constraint |
| `CreateWorker`, `UpdateWorker` | `workers.service`; a deactivation closes the worker's open badges |
| `CreateOperation`, `CreateCustom`, `UpdateOperation`, `UpdateModel` | `operations.service`, `models.service`; an update may leave the status out (`Unsaid`), which is not the same as repeating it |
| `ChangePrice` | `operation-price.service`: the next price at the caller's time or at the transaction's |
| `BeginBatch`, `ReadPrice`, `CommitBatch` | the operation snapshot of a print batch, one query per operation |
| `Acquire`, `RollBack`, `Tick` | a lock is granted (`Unfit`: what is checked under it), any failure, the clock |

What the model shows beyond the properties, and a maintainer may want to know:
a badge released for a future time resolves to its worker until then, also
after the worker was deactivated; a batch or an update that began before the
first price of an operation is refused with 404, and so is a custom operation
under an existing name with an earlier `effective_from`
(`operations.service.ts:327`); a batch may keep the old price although a change
that began earlier is waiting for its lock. `TypeOK` and the other parts of
`IInv` are there for the proofs (section 4); no run repeats them.

### DesktopSession: signing in and out on one device

State, in the memory of the application: `generation` (operationGeneration),
`era`, `state`, `access`, `payload`, `refreshing`, `task` (the asynchronous
calls in progress), `queue` (`runTransition`). The runtime: `handle` (the open
database), `current` and `engine` (the sync engines and their cycles). What
outlives the application: `store` (the saved session), `server` (sessions with
the number of their present refresh token), `late` (refresh requests the device
has given up), `lost` (sessions of which a token was issued and never saved).
A step is what runs between two awaits.

| action | code |
|---|---|
| `Login`, `LoginAnswered`, `LoginFails`, `OpenTenant` | `login`; one that has failed is no longer in progress while its clearing waits in the queue, so the user may sign in again before that |
| `PermissionsRead` | the permissions are read with the new access token, the second await of a login and of a rotation |
| `LoadNothing`, `Load`, `Opened`, `StartOffline`, `StartSync` | `restoreSession` and its end; a device that is not configured gets no engine |
| `Fails` (`Throws`, `NoDatabase`) | loading, opening or starting throws, or there is no database to start on: the call clears up in a transition of its own |
| `Logout`, `Clear`, `Forget`, `Close` | `logout` and `clearLocalSession`; `clearTenant` waits for the cycle of the engine it disposes |
| `BeginRotation`, `RotationAnswered`, `RotationGivenUp`, `Activate`, `Saved`, `SaveFails`, `RetryRotation` | the single-flight rotation of the refresh token |
| `Superseded` | every comparison with `operationGeneration` that fails |
| `Poll`, `TakeToken`, `Answered`, `Unauthorized`, `UnauthorizedAgain`, `EndCycle` | a cycle that asks for a token, meets a 401, waits for a rotation and tries once more |
| `Quit`, `Exit`, `Restart`, `Crash`, `SessionEnds`, `LateRefresh` | the application and the world around it; `Restart` is a conjunct of the actions after which the application starts again |

`Overlaps` says what the user may act during: while the rotated token is being
saved, or while `restoreSession` starts its engine outside the queue. Both are a
few milliseconds in the code; with them the model shows what section 5 reports.

## 3. The runs

| run | instance | shows |
|---|---|---|
| `blocks_two_devices` | both families; 2 devices, blocks of 2, at most 2 active, numbers 1..4, one number printed online, one block cancelled, pull pages of 1, 2 requests in flight | no number is printed twice or forgotten, usage counts are true, a device that has caught up knows what the server knows of its blocks; the inductive invariant |
| `blocks_refill` | Patta; 1 device, blocks of 5, at most 2 active (the default), numbers 1..16 | a cycle does not end without asking while a fifth or less is left (the 80% mark falls on a whole number only for blocks of 5 or more); a device out of numbers gets a block again |
| `ledger` | 2 requests with overlapping batches of a creation, trashes, edits and a restore of one adjustment, one of them under an event id already taken | exactly-once, linear history, an accepted event did what it asks, refinement of `ExactlyOnce` |
| `feed_one_device` | 2 rows, 2 transactions, 2 sequence numbers, 3 sessions, 1 fault | commits in sequence order, the mirror is the feed at the cursor, the device catches up; the inductive invariant |
| `feed_overtaking` | 1 row, 1 transaction, overtaking allowed | a violation: see section 5 |
| `sync_two_devices` | 2 devices, 2 adjustments, batches of 2, 3 events, 1 fault (loss or crash) | sent events are fixed, verdicts are the server's, nothing undecided is given up; the inductive invariant |
| `sync_converges` | 2 devices, 1 adjustment, 2 quantities, 2 events, 1 fault (loss, expired session, crash or server error) | shown rows are recorded ones; no change is passed over and devices converge, except on a row that shows a change of the device which a lost response has put off; every event is settled |
| `patta_batches` | 2 requests, 2 batches of 2 sizes, 2 sheets, numbers 1..4 and one of a block, 1 print event, 2 versions | the distribution is kept, the sequence is ahead, the triggers refuse nothing the services accepted, a print names the revision it printed |
| `patta_sheets` | 2 requests, 1 batch, 1 sheet, 2 quantities, numbers 1..2 and a legacy one, 3 versions | sheets agree with their Patta, a stale version never wins, only updates of rows make circles of waits |
| `effective_history` | 2 requests, 1 badge with 2 workers or 2 operations with 2 prices, 2 instants and a planned one, 2 versions | no overlap, no gap between prices, no badge with an inactive worker, stable snapshots, nothing answered is rewritten by a later change |
| `desktop_session` | 3 engines, 3 generations, 2 tokens of a session, 1 fault | tokens are saved before use, what was left stays left, one token is sent once, engine and database belong together, a logout ends |
| `desktop_logout` | 2 engines, 2 generations, the user acts while a token is saved | a violation: see section 5 |

Why the bounds are enough.

* Numbers and blocks: with blocks of two, a sequence of four numbers makes a
  device exhaust a block, hold a second one and be refused a third; every race
  in the code is about one block and at most two requests for it. In
  `blocks_refill` the sequence serves three blocks of five, one more than may be
  active.
* Ledger: every conflict is about one event id or one row, and two requests are
  a holder and a waiter.
* Feed: two sequence numbers let a transaction roll back after it has drawn one;
  three sessions are one and two replacements; one fault puts one abandoned
  request beside a current one. More than one abandoned request of a device at a
  time is not modelled (requests last 15 seconds on the client).
* Synchronisation: three events let one device create an adjustment, the other
  one change it and the first one change it again, with an edit folded into a
  waiting event at any time (`Coalesce` adds no event); one fault abandons one
  request, which overlaps its repetition; two adjustments in a batch of two show
  one event of a batch failing or left undecided.
* Documents: once there are two batches, only creations and corrections in the
  browser go on, which share the sequence (`OneOfTwoBatches`); everything else is
  about one batch. A batch of one or two Pattas in two sizes grows, shrinks and changes
  sizes in a correction, which is every branch of `Assignment`; two requests meet
  on every pair of locks, and a circle of two is the shortest one. In
  `patta_sheets` a history either corrects a batch or changes what was entered
  before batches (`LegacyApart`); the two share no row.
* Histories: badges and prices share no row, so a behaviour follows one of the
  two (`OneHistory`); three instants are now, later and a planned time.
* Sessions: a generation to sign in, one to sign out and one to sign in again or
  restart; three engines are the present one, the one it replaced, which still
  has a cycle, and the one a rotation installs. `Room` keeps calls from finding
  no engine. While developing, more tokens and faults were searched without a
  violation, and the safety properties hold as well while a token is being saved
  (`Overlaps = {"save"}`).

The proofs have none of these bounds.

Deadlock is not checked in `blocks_*`, `feed_*` and `desktop_*`: the bounds on
numbers, sequence values, sessions and generations make these instances stop in
the end. It is checked in all the others.

### Fairness

`NumberBlocks!FairSpec`: the poll timer starts a cycle every 60 seconds and
every request ends in an answer or the 15 second timeout (weak fairness of a
failing cycle and of a first step); a network that comes up again and again
lets the requests through in the end (strong fairness of the steps that need it).
Nothing is assumed of `BeginPartiya`: a refusal ends the Patta phase, and no
scheduling keeps the next cycle from being refused too (section 5). That numbers
arrive again is therefore checked, and true, of Pattas, which a cycle serves
first.
`ChangeFeed!FairSpec`: transactions end, the server works on requests it has,
and the cycle goes on while it can; faults are bounded, so "in the end none
happens" is what the liveness property is about. Nothing is assumed of the
users, and writers may stop at any time.
`AdjustmentSync!FairSpec`: the poll timer starts cycles, a cycle and the request
it waits for go on, and a deferred event becomes due. Abandoned requests may
never be executed.
`DesktopSession!FairSpec`: a call's promise settles (files are written, a request
is answered or times out after 15 seconds) and a cycle makes finitely many
requests. Nothing is assumed of the user, of polls or of what a cycle asks.

## 4. What is proved

All theorems hold for every value of the constants that meets the named
assumptions; tlapm checks every leaf.

* `NumberBlocksProof`. `InductiveInvariant` proves `IInv`. `NumberIssuedOnce` is
  not inductive: a late report or a stale pull page could carry a usage count that
  a device would merge. `IInv` therefore says that *every* usage count in the
  system (in the server's rows, the feed, a staged snapshot, a reply, a request,
  a report still to be sent) is `Known`: its owner has already passed that
  number. The proof is split into `Core` (server rows, ranges, issued numbers)
  and `Travel` (counts on their way). `TypeCorrect`, `NoNumberTwice`,
  `BlocksNeverOverlap`, `ReportsAreTrue`, `PrintedNumbersAreRecorded` follow.
* `EventLedgerProof`. `LedgerInvariant` proves `IInv`: an open transaction
  holds its event id and its row alone, what it has written follows the row it
  holds, every answer given is the stored one. From it `AppliedExactlyOnce`,
  `NoLostUpdate`, `SameAnswerAgain`, and `LedgerImplementsExactlyOnce`: `Commit`
  maps to `Accept`, `CommitRefusal` to `Refuse`, `Respond` to `Tell`, everything
  else to a stutter. `AskedIsWhatWasDone` is about the change an accepted event
  recorded, which an invariant about the tables alone cannot speak of: the open
  transaction's row must follow from its event (`Follows`, one case per method)
  before it is recorded, and the row a later event starts from must itself be
  what some recorded change made it (`RecordedInv`).
* `ChangeFeedProof`. `BaseInvariant` holds whatever the order of requests: the
  lock makes every recorded number larger than every committed one
  (`FreshInv`), so every position a device may come to have is `Settled`: no
  smaller number can still commit. `FeedTypeCorrect`, `FeedComplete`,
  `OneActive`, `ChangesCommitInOrder`, `CursorNeverBack` follow.
  `FeedInvariant` adds, under `~Overtakes`, that sessions hold whole snapshots
  (`Represents`), that what is staged is the beginning of its session's items,
  and that no request of the device can remove that session meanwhile;
  `MirrorCorrect` follows. `Overtakes` is the one assumption about the
  environment: a create request the device has given up gets the device's
  advisory lock before one that was sent later. The run `feed_overtaking` shows
  that the assumption is needed.
* `AdjustmentSyncProof`. `SyncInvariant` proves `IInv`. That sent events never
  change is not inductive: a claim makes a request from the outbox, so `QueueInv`
  adds that whatever travels carries the event's present body and that the event
  is marked as sent, which is what `Coalesce` looks at. `BatchInv` says that a
  pushing cycle still holds its events as SYNCING and that an event whose body
  has left the request is decided; so the answers a device applies are the
  ledger's (`VerdictsAgree`), and by `LedgerInv` an echo is a row of the feed
  (`ShownIsRecorded`). `LocalWorkIsQueued` is inductive with these. `TypeCorrect`,
  `SentIsFixed`, `WorkIsQueued`, `VerdictsCorrect`, `ShownCorrect` follow;
  `NothingGivenUp` holds under `"error" \notin Faults` only: an unexpected
  server error makes a device give its batch up (section 5).
  `SyncImplementsExactlyOnce` maps the server's decision of an event to `Accept`
  or `Refuse` and every step of a device to a `Tell` of the verdicts its outbox
  holds after it, most of which were told before (`SettledKept`).
  `PullInvariant` proves `PullInv`, whatever is lost and whenever a device
  crashes: what an interrupted cycle has sent and not put off comes first among
  the device's events that are not settled (`ResentInv`), so the next claim, which
  takes the first ones, sends it again before the cycle pulls; therefore the change
  an open event made is always after the device's cursor (`AheadInv`), and its echo
  is never older than what a pull has skipped. `NoChangeIsPassedOver` follows. An
  event that a lost response has put off is not due when the next cycle claims, and
  neither are those that stand behind it (`PutOff`): of these nothing is said, and
  a row that shows the change of such an event is the one exception of
  `NothingPassedOver` (section 5).

* `EffectiveHistoryProof`. `HistoryInvariant` proves `IInv`. No property of the
  two histories is inductive alone, for a request writes what it decided earlier:
  `LockInv` says that locks exclude each other, `RequestInv` that a request is
  one a caller may make, `FoundInv` that what a request found under a lock (the
  version, the state of a worker) is still so while it holds the lock, and
  `BatchInv` that a batch locks the model before its operations and has read the
  prices of locked operations only. With these every commit is checked against the table it changes.
  `HistoryTypeCorrect`, `RowsNeverOverlap`, `PricesLeaveNoGap`,
  `InactiveWorkerHoldsNoBadge` and `BatchPricesHold` follow, and the action
  property `HistoryNotRewritten`: an answer for an instant changes only by the
  commit of a request that had begun by then.
* `DesktopSessionProof`. `SessionInvariant` proves `IInv`. First each action
  gets a predicate of what it does to calls, tokens, queue and registry
  (`...Does`), and `NextEffects` shows that every step has one of these effects;
  the invariant is then proved part by part, one lemma with one case per effect.
  The parts: `StageInv` and `QueueInv` (which call stands where, and that
  transitions run one at a time), `TakenOver` (while a call of an older
  generation is in a transition, the one that replaced it has still to clear), `StartInv`, `RotationInv` (one rotation
  of a generation), `MemoryInv` and `ResultInv` (what a call may hold),
  `SessionInv`, `OneUser` and `LoginInv` (whose token is whose),
  `NewestInv` (unless one was lost, the token that is saved, in memory or in use
  is the newest the server issued) and `DatabaseInv` (a session in memory has its
  database open, but for that of a rotation which a failed login left behind and
  which clears itself away). `OneUser` is what makes
  `NewestInv` inductive: two calls with tokens of one session could make each
  other's old. `UsedTokenIsSaved`, `WhatWasLeftStaysLeft` and
  `OnlyLossEndsSessions` follow for every `Overlaps`. `EngineHasTheDatabase`
  needs `EngineInv` beside it and holds under `"start" \notin Overlaps` only,
  which section 5 explains.

* `PattaDocumentsProof`. `DocumentsInvariant` proves `IInv`. A write is decided
  by what its request found statements earlier, so the properties of the tables
  are inductive only with what each request may rely on, its `Standing`:
  `AskInv` (it asks for what a caller may ask, and what it creates is still
  absent), `LockOf` (the rows its statements have locked, or are locking) and
  `FoundOf` (the version of its batch, that no Patta it moves or voids has a
  sheet, that the sequence has enough numbers, that its sheet has the version it
  named: true while the lock is held). The proof has three parts. One lemma per
  operation (`CreateWrites` ... `PurgeWrites`) shows that a write which the
  triggers let through has an `Effect`: the tables agree afterwards, and rows
  whose lock the request does not hold keep what others may have found in them.
  `Survives` shows that the standing of every other request survives an
  `Effect`, since two requests hold no row together. One lemma per statement
  shows that it gives its own request the standing of the next stage. What a
  correction does to sizes is a function of counts (`InOrder`, `Slots`,
  `Assignment`), about which the first part proves that every place has one rank
  and that moved and surplus Pattas are distinct ones of the batch.
  `DocumentTypes`, `SequenceStaysAhead`, `SheetsAgreeWithPattas` (which covers
  VOID Pattas and sizes, beyond the one size of `patta_sheets`) and
  `PrintedIsEarned` follow, and the action properties `StaleRequestsLose` and
  `PrintsAreOfTheRevision`.
* `PattaServicesProof` has what needs more than `IInv`. `QueuesInvariant` proves
  `QueueInv`: which rows a request that is no update holds and which it wants, by
  the statement it has come to. Statements lock batch, Pattas, sheets and
  sequences in this order, and a request lists the sheets of Pattas it has locked,
  so no two list the same sheet: a circle of waits would have to close over one
  kind of row, and none does (`CirclesHaveAnUpdate`). That nobody waits for a
  sheet still to be created is needed here, or two corrections could list it for
  different Pattas.
  `ServicesInvariant` proves `ServiceInv`. `ClaimInv` says that no two requests
  claim one number of a block, `CheckInv` that what a request has checked (that
  the numbers it brings are free and as many of each size as needed, that its
  Patta has no other sheet, that its sheet is live or trashed as its operation
  wants it, that a sheet overtaken has left the version it names behind) is so
  until it writes. With these a write passes the triggers, but for the exceptions
  `ServicesForesee` names (`TriggersAgreeWithServices`), and leaves every batch
  distributed as its size rows say (`BatchesAreDistributed`). The latter is
  counting: `KeptCount`, `AssignmentCount` and `NextNumbersCount` show that what a
  correction keeps, hands over and adds amounts to the target of every size, by
  bijections between the Pattas handed over and the places that lack one.

The theorems about types, `RangesDisjoint`, `AnswersNeverDiffer`, a complete
feed, `OneActiveSession`, `CursorForward` and `LocalWorkIsQueued` state more than
the runs repeat; where a run checks `IInv` it checks most of them as its parts. The `IInv` of
`PattaDocuments` holds on the instances of `patta_batches` and `patta_sheets`,
which check its parts.

TLC agreed before the proofs: on `ServiceInv` with the instance of
`patta_batches`, on `QueueInv` with that of `patta_sheets`, on `PullInv` with two
devices, two adjustments, three events and one fault (loss, crash, expired session
or server error), on `IInv` and `EngineInv` of `DesktopSession` with three engines
and two faults, and on
`ImplementsExactlyOnce` of `AdjustmentSync` with two devices, one adjustment, two
events and one fault.

Only model-checked: liveness (`SinglesArriveAgain`, `CatchesUp`,
`EveryEventIsSettled`, `DevicesConverge`, `LogoutClears`), which is out of the
prover's reach; `CaughtUpKnowsAll`, which would need the order in which the feed,
replies and snapshots of one block were made; and `LowStockIsNoticed`, which holds
of the Patta allocator, and of the Partiya one only with one active block
(section 5).

## 5. Findings

Shown by a run:

* `feed_overtaking`: `page()` reads the session and its items in two statements.
  If an abandoned create request replaces the session in between, the device
  gets an empty page without `has_more`, applies a part of the snapshot and moves
  its cursor to the watermark. The design promises the opposite
  (`docs/superpowers/specs/2026-09-26-offline-sync-design.md:444`). A transaction
  around the two statements would exclude it.
* `desktop_logout`: a rotation whose write ends after a logout clears the local
  session inside the queue of transitions (`desktop-auth.service.ts:457`). That
  waits for the engine's cycle (`desktop-tenant-runtime.ts:110`), which waits for
  this rotation (`authenticated-http-client.ts:78`). The database stays open, and
  the logout and every later login wait behind the three
  (`docs/superpowers/specs/2026-09-28-desktop-auth-session-design.md:122`).
  Preserving the database there, as the branch of a failed save does seven lines
  above, would exclude it: the transition that ended the session closes it.

Seen while modelling; no run repeats them.

* Number blocks. `LowStockIsNoticed` and `SinglesArriveAgain` are checked of
  Pattas. For Partiyas with two active blocks, the default of
  `patta.config.ts:17`, TLC finds a cycle that ends without asking while the
  device has no number left: `shouldPrefetchNextBlock`
  (`patta-partiya-number-block.repository.ts:83`) counts every RESERVED or
  AVAILABLE row that is still ACTIVE, also one whose last numbers were printed
  after the cycle had computed its reports. The next cycle reports it and asks, so
  the device is late by one cycle. The Patta repository counts blocks with numbers
  left.
* The Partiya phase of a cycle is reached only when the Patta phase has not failed
  (`sync-engine.ts:413-446`). With `maxActiveBlocksPerDevice` set to 1, which both
  families read, a Patta block that is four fifths used, but not used up, makes the
  device ask for another and be refused with 409 in every cycle; as long as it
  prints no more Pattas, it gets no Partiya numbers either.
* Synchronisation. After a lost response an event waits for its
  `next_attempt_at`. A cycle that runs before that pulls: changes of the row are
  skipped because it holds local work, yet the cursor moves past them; the stored
  result then makes the row SERVER_SYNCED at its old version and the newer change
  never comes (`docs/superpowers/plans/2026-09-28-patta-print-and-sheet.md:452`
  wants such devices to converge). `NothingPassedOver` and `DevicesConverge` except
  rows that show the change of such an event, and only those (`ShowsPutOff`);
  without the exception TLC finds the behaviour with two devices, two events and
  one lost response.
* An edit and a trash folded into one event: the server applies the trash alone
  and answers SYNCED; the device finds that the echo is not what it asked for,
  rolls back the results of the whole batch and marks every event FAILED
  (`docs/sync-protocol.md:145`: siblings are not to be affected).
* HTTP 500 counts as a permanent failure on the device, although the server rolls
  the reservation back so that the event can be sent again
  (`docs/sync-protocol.md:144`). This is why `UndecidedStaysQueued` is checked
  without server errors.
* Documents. `updated_at` is the time the transaction began. A correction that
  waited for a sheet while a younger transaction wrote it is refused by the
  trigger (55000) and answered with 500, which a device takes for permanent and
  stores as FAILED (compare
  `docs/superpowers/specs/2026-09-28-patta-print-and-sheet-redesign.md:238` and
  `:649`). `ServicesForesee` names this exception.
* The update of a standalone sheet compares versions without a lock; the one of
  two concurrent updates that loses is answered with 500 and not with
  VERSION_CONFLICT (compare
  `docs/superpowers/specs/2026-09-29-desktop-ui-ux-production-polish-design.md:163`).
* An update locks the sheet and then its Patta, a correction the Pattas and then
  their sheets, so the database may have to abort one (`CyclesNeedAnUpdate`).
* `patta-print-batches.service.ts:1899` looks for the constraint
  `uq_patta_print_events_initial_revision`, which no migration creates.
* Sessions. Every rotation asked for by a cycle installs a new engine whose cycle
  starts at once, beside the old one's; `recoverStaleSyncing`
  (`sync-queue.repository.ts:1571`) then returns the old cycle's events to
  PENDING. `2026-09-26-offline-sync-design.md:370` says that cycles do not
  overlap, and the other modules here assume one cycle per device at a time.
  `clearTenant` waits for the present engine only, so the database may be closed
  under the old one's cycle.
* `restoreSession` starts its engine outside of the queue when the server is not
  reached (`desktop-auth.service.ts:368`); it may install it after a logout
  (`Overlaps` with `"start"`).
* Quitting while a rotated token is being saved deletes the saved session; quitting
  while a refresh is under way loses the rotated token, and the next start ends
  in SESSION_EXPIRED (compare `desktop-auth.service.spec.ts:430`). A lost reply to a
  refresh followed by a retry with the old token reads as a stolen one and signs
  the device out; `OnlyLossLooksReused` shows that nothing else does.

## 6. What is not modelled

* Presentation, IPC and printing; validation of message shapes (the models pass
  records of the right type); read-only queries; migrations, which run before
  anything else; durations (a materialization longer than the client's timeout
  is given up and repeated by every cycle, which `CatchesUp` cannot see).
* The desktop's own side of sheets and print batches: each operation is one
  SQLite transaction for the documents, the numbers and the queued event. What
  `AdjustmentSync` shows of the outbox, `NumberBlocks` of the numbers and
  `PattaDocuments` of the server covers the three ends, not dependencies between
  queued events and not the bootstrap of rows with local work. The cleanup of old
  outbox rows is left out, too.
* Creation of models and templates: one row nobody else waits for.
* Provisioning runs under an advisory lock, one request of a company at a time,
  and its steps are idempotent DDL; PostgreSQL's catalogue would be most of the
  model. The cache of tenant connections holds no business state; overlapping
  initializations of one pool (`tenant-connection.manager.ts:81`) would make a
  small module. The rate limiter's counters are one atomic statement each.
* Platform authentication rotates its tokens like the tenant's, for a browser;
  device access, licences, roles and permissions are single rows changed by one
  administrator at a time.

## 7. Plan

1. A proof of `CaughtUpKnowsAll` and of `LowStockIsNoticed`, which need the order of
   the feed: a block is closed before its device's next but one is made; and both
   for Partiyas, should their repository come to skip used-up blocks as the Patta
   one does.
2. Modules, should the code around them change: tenant connections, provisioning,
   the desktop's sheets and print batches with dependencies between their events.
