-------------------------- MODULE EffectiveHistory --------------------------
(***************************************************************************)
(* The two histories of a tenant that are read for an instant: which       *)
(* worker a badge belonged to (badge-history.service.ts), and what an      *)
(* operation cost (operation-price.service.ts).  Both are sets of rows     *)
(* [valid_from, valid_to) of which the last may be open; a change closes   *)
(* the open row and inserts the next one, and takes effect at a time the   *)
(* caller names, or at the time its transaction began.  A transaction that *)
(* waits for a lock takes effect before it is visible: that is what the    *)
(* properties below are about.                                             *)
(*                                                                         *)
(* A transaction runs at READ COMMITTED.  It takes its locks one by one,   *)
(* checks under each what the code checks there, and writes everything in  *)
(* its last step.  Rows of the histories are locked by the statements of   *)
(* that last step only, so those locks are not modelled.                   *)
(*                                                                         *)
(* All operations belong to one model.  Names, the order of operations,    *)
(* the audit log and the change log are left out.                          *)
(***************************************************************************)
EXTENDS Integers, Sequences, FiniteSets

CONSTANTS
  Request,    \* transactions in progress at the same time
  Badge,      \* badge numbers
  Worker,     \* identities of workers
  Operation,  \* identities of the model's operations
  Model,      \* the model
  Price,      \* unit prices
  MaxNow,     \* bound on the clock
  MaxTime,    \* bound on the times callers name
  MaxVersion  \* bound on the versions of a worker, an operation and the model

Owner == Worker \cup Operation \cup {Model}   \* rows with a status and a version
Subject == Badge \cup Operation               \* what a history is about
Holder == Worker \cup Price                   \* what it says
Status == {"ABSENT", "ACTIVE", "INACTIVE"}

ASSUME HistoryAssumption ==
  /\ MaxNow \in Nat /\ MaxTime \in Nat /\ MaxNow <= MaxTime /\ MaxVersion \in Nat \ {0}
  /\ Badge \cap Owner = {} /\ Worker \cap Operation = {} /\ Model \notin Worker \cup Operation
  /\ Price \cap Worker = {}

VARIABLES
  now,       \* the database clock
  status,    \* of each worker, operation and the model
  version,   \* of each worker, operation and the model
  history,   \* worker_badge_history and model_operation_prices
  request,   \* what each transaction asked for
  held,      \* the locks it holds
  snapshot   \* the unit prices a print batch has read and not yet committed

vars == <<now, status, version, history, request, held, snapshot>>
tables == <<status, version, history>>

Open == -1                               \* valid_to IS NULL
Idle == [kind |-> "none"]
Unsaid == "unsaid"                       \* a part of a request that names nothing
Nothing == {}                            \* a batch that has not read its prices

Row(subject, holder, from) == [of |-> subject, is |-> holder, from |-> from, to |-> Open]

\* valid_from <= t AND (valid_to IS NULL OR t < valid_to)
Covers(row, t) == row.from <= t /\ (row.to = Open \/ t < row.to)

\* What a reader of the history is told for instant t; two rows are never covering it.
Answers(subject, t) == {row.is : row \in {h \in history : h.of = subject /\ Covers(h, t)}}

OpenRows(subject) == {row \in history : row.of = subject /\ row.to = Open}
OpenOf(worker) == {row \in history : row.is = worker /\ row.to = Open}

\* The ranges [from, to) of two rows of one subject share an instant.
Overlap(a, b) == (b.to = Open \/ a.from < b.to) /\ (a.to = Open \/ b.from < a.to)

\* Mutant: the constraint compares the rows of one holder only.
FitsHolder(row, rows) == \A other \in rows : other.of = row.of /\ other.is = row.is => ~Overlap(row, other)

\* ex_worker_badge_history_no_overlap, ex_model_operation_prices_no_overlap.
Fits(row, rows) == \A other \in rows : other.of = row.of => ~Overlap(row, other)

\* The rows after those in `ending` have been closed at `at`.
Closed(ending, at) == {IF row \in ending THEN [row EXCEPT !.to = at] ELSE row : row \in history}

ActiveOperations == {o \in Operation : status[o] = "ACTIVE"}

Init ==
  /\ now = 0
  /\ status = [x \in Owner |-> IF x = Model THEN "ACTIVE" ELSE "ABSENT"]
  /\ version = [x \in Owner |-> 1]
  /\ history = {}
  /\ request = [r \in Request |-> Idle]
  /\ held = [r \in Request |-> {}]
  /\ snapshot = [r \in Request |-> Nothing]

(***************************************************************************)
(* Transactions.                                                           *)
(***************************************************************************)
Exclusive(x) == [on |-> x, shared |-> FALSE]
Shared(x) == [on |-> x, shared |-> TRUE]
Conflicts(a, b) == a.on = b.on /\ ~(a.shared /\ b.shared)

\* Mutant: an update reads the worker without locking it.
StatementsWorkerRead(q) ==
  CASE q.kind \in {"assign", "reassign"} -> <<{Exclusive(q.of)}, {Exclusive(q.to)}>>
    [] q.kind = "update_worker" -> <<{}>>
    [] q.kind \in {"release", "change_price", "update_model"} -> <<{Exclusive(q.of)}>>
    [] q.kind = "create_operation" -> <<{Exclusive(Model)}>>
    [] q.kind \in {"update_operation", "create_custom"} -> <<{Exclusive(Model)}, {Exclusive(q.of)}>>
    [] q.kind = "batch" -> <<{Shared(Model)}, {Shared(o) : o \in ActiveOperations}>>

\* Mutant: a price change reads the operation without locking it.
StatementsPriceRead(q) ==
  CASE q.kind \in {"assign", "reassign"} -> <<{Exclusive(q.of)}, {Exclusive(q.to)}>>
    [] q.kind = "change_price" -> <<{}>>
    [] q.kind \in {"release", "update_worker", "update_model"} -> <<{Exclusive(q.of)}>>
    [] q.kind = "create_operation" -> <<{Exclusive(Model)}>>
    [] q.kind \in {"update_operation", "create_custom"} -> <<{Exclusive(Model)}, {Exclusive(q.of)}>>
    [] q.kind = "batch" -> <<{Shared(Model)}, {Shared(o) : o \in ActiveOperations}>>

\* The statements of each operation that lock rows, with what each locks.  A
\* badge is locked by number (pg_advisory_xact_lock), whether it has rows or not.
Statements(q) ==
  CASE q.kind \in {"assign", "reassign"} -> <<{Exclusive(q.of)}, {Exclusive(q.to)}>>
    [] q.kind \in {"release", "update_worker", "change_price", "update_model"} -> <<{Exclusive(q.of)}>>
    [] q.kind = "create_operation" -> <<{Exclusive(Model)}>>
    [] q.kind \in {"update_operation", "create_custom"} -> <<{Exclusive(Model)}, {Exclusive(q.of)}>>
    [] q.kind = "batch" -> <<{Shared(Model)}, {Shared(o) : o \in ActiveOperations}>>

\* The locks the current statement of r still has to take.
Wanted(r) ==
  LET first == Head(Statements(request[r])) \ held[r]
  IN  IF first # {} THEN first ELSE Statements(request[r])[Len(Statements(request[r]))] \ held[r]

\* Request r of this kind holds all its locks and runs its other statements.
Ready(r, kind) == request[r].kind = kind /\ Wanted(r) = {}

Begin(r, kind, of, to, at, expects) ==
  /\ request[r] = Idle
  /\ request' = [request EXCEPT ![r] =
       [kind |-> kind, of |-> of, to |-> to, at |-> at, expects |-> expects, begun |-> now]]
  /\ UNCHANGED <<now, tables, held, snapshot>>

\* COMMIT or ROLLBACK: the locks are released.
End(r) ==
  /\ request' = [request EXCEPT ![r] = Idle]
  /\ held' = [held EXCEPT ![r] = {}]
  /\ snapshot' = [snapshot EXCEPT ![r] = Nothing]
  /\ UNCHANGED now

\* What the code finds wrong with a row it has just locked, and refuses.
Unfit(q, x) ==
  \/ q.kind \in {"assign", "reassign"} /\ x = q.to /\ status[x] # "ACTIVE"
  \/ q.kind \in {"update_worker", "change_price", "update_operation", "update_model"}
       /\ x = q.of /\ version[x] # q.expects
  \/ q.kind = "change_price" /\ x = q.of /\ status[x] # "ACTIVE"
  \/ q.kind = "update_operation" /\ x = q.of /\ q.to = "ACTIVE" /\ status[Model] # "ACTIVE"
  \/ q.kind \in {"create_operation", "create_custom", "batch"} /\ x = Model /\ status[x] # "ACTIVE"

Acquire(r) ==
  /\ request[r] # Idle
  /\ \E lock \in Wanted(r) :
       /\ \A q \in Request \ {r} : \A other \in held[q] : ~Conflicts(lock, other)
       /\ IF Unfit(request[r], lock.on)
          THEN End(r)
          ELSE /\ held' = [held EXCEPT ![r] = @ \cup {lock}]
               /\ UNCHANGED <<now, request, snapshot>>
  /\ UNCHANGED tables

\* The connection is lost before COMMIT.
RollBack(r) == request[r] # Idle /\ End(r) /\ UNCHANGED tables

\* The last step of r writes these rows when nothing speaks against it.
Write(r, accepted, rows) ==
  /\ history' = IF accepted THEN rows ELSE history
  /\ End(r)

\* The rows x refers to are left as the transaction found them.
Update(x, accepted, newStatus) ==
  /\ status' = IF accepted THEN [status EXCEPT ![x] = newStatus] ELSE status
  /\ version' = IF accepted THEN [version EXCEPT ![x] = @ + 1] ELSE version

Time == 0 .. MaxTime
\* The version a caller has just seen, which a commit in between makes stale.
Seen(x) == {v \in {version[x]} : v < MaxVersion /\ status[x] # "ABSENT"}

(***************************************************************************)
(* Badges (badge-history.service.ts).                                      *)
(***************************************************************************)
Known == {w \in Worker : status[w] # "ABSENT"}
BeginAssign(r) == \E b \in Badge, w \in Known, at \in Time : Begin(r, "assign", b, w, at, 0)
BeginReassign(r) == \E b \in Badge, w \in Known, at \in Time : Begin(r, "reassign", b, w, at, 0)
BeginRelease(r) == \E b \in Badge, at \in Time : Begin(r, "release", b, Unsaid, at, 0)

\* Mutant: an assignment may be backdated.
AssignBackdated(r) ==
  LET q == request[r]
      row == Row(q.of, q.to, q.at)
  IN  /\ Ready(r, "assign")
      /\ Write(r, OpenRows(q.of) = {} /\ Fits(row, history), history \cup {row})
      /\ UNCHANGED <<status, version>>

Assign(r) ==
  LET q == request[r]
      row == Row(q.of, q.to, q.at)
  IN  /\ Ready(r, "assign")
      /\ Write(r, q.at >= q.begun /\ OpenRows(q.of) = {} /\ Fits(row, history), history \cup {row})
      /\ UNCHANGED <<status, version>>

Reassign(r) ==
  LET q == request[r]
      row == Row(q.of, q.to, q.at)
      current == OpenRows(q.of)
      others == Closed(current, q.at)
  IN  /\ Ready(r, "reassign")
      /\ Write(r, /\ current # {}
                  /\ \A open \in current : open.is # q.to /\ q.at > open.from
                  /\ q.at >= q.begun
                  /\ Fits(row, others),
                  others \cup {row})
      /\ UNCHANGED <<status, version>>

Release(r) ==
  LET q == request[r]
      current == OpenRows(q.of)
  IN  /\ Ready(r, "release")
      /\ Write(r, current # {} /\ q.at >= q.begun /\ \A open \in current : q.at > open.from,
                  Closed(current, q.at))
      /\ UNCHANGED <<status, version>>

(***************************************************************************)
(* Workers (workers.service.ts).                                           *)
(***************************************************************************)
CreateWorker(w) ==
  /\ status[w] = "ABSENT"
  /\ \E s \in Status \ {"ABSENT"} : status' = [status EXCEPT ![w] = s]
  /\ UNCHANGED <<now, version, history, request, held, snapshot>>

BeginUpdateWorker(r) ==
  \E w \in Worker, s \in Status \ {"ABSENT"} :
    \E seen \in Seen(w) : Begin(r, "update_worker", w, s, now, seen)

\* A deactivation closes the worker's open badges at the time it began.
UpdateWorker(r) ==
  LET q == request[r]
      ending == IF status[q.of] = "ACTIVE" /\ q.to = "INACTIVE" THEN OpenOf(q.of) ELSE {}
      accepted == \A open \in ending : q.begun > open.from
  IN  /\ Ready(r, "update_worker")
      /\ Write(r, accepted, Closed(ending, q.begun))
      /\ Update(q.of, accepted, q.to)

(***************************************************************************)
(* The model, its operations and their prices (models.service.ts,          *)
(* operations.service.ts, operation-price.service.ts).                     *)
(***************************************************************************)
BeginUpdateModel(r) ==
  \E s \in Status \ {"ABSENT"} : \E seen \in Seen(Model) : Begin(r, "update_model", Model, s, now, seen)

UpdateModel(r) ==
  /\ Ready(r, "update_model")
  /\ Update(Model, TRUE, request[r].to)
  /\ UNCHANGED history
  /\ End(r)

BeginCreateOperation(r) ==
  \E o \in Operation, price \in Price :
    status[o] = "ABSENT" /\ Begin(r, "create_operation", o, price, now, 0)

\* An operation that has taken the name meanwhile is a duplicate.
CreateOperation(r) ==
  LET q == request[r]
      accepted == status[q.of] = "ABSENT"
  IN  /\ Ready(r, "create_operation")
      /\ \E s \in Status \ {"ABSENT"} : status' = IF accepted THEN [status EXCEPT ![q.of] = s] ELSE status
      /\ Write(r, accepted, history \cup {Row(q.of, q.to, q.begun)})
      /\ UNCHANGED version

\* A device names the identity, and the time from which its price holds.
BeginCreateCustom(r) ==
  \E o \in Operation, price \in Price, from \in Time : Begin(r, "create_custom", o, price, from, 0)

\* An active operation of that name is answered with its price, and nothing is written.
CreateCustom(r) ==
  LET q == request[r]
      accepted == status[q.of] = "ABSENT" /\ q.at <= q.begun
  IN  /\ Ready(r, "create_custom")
      /\ status' = IF accepted THEN [status EXCEPT ![q.of] = "ACTIVE"] ELSE status
      /\ Write(r, accepted, history \cup {Row(q.of, q.to, q.at)})
      /\ UNCHANGED version

\* The caller may leave the status out, as when an operation is renamed.
BeginUpdateOperation(r) ==
  \E o \in Operation, s \in (Status \ {"ABSENT"}) \cup {Unsaid} :
    \E seen \in Seen(o) : Begin(r, "update_operation", o, s, now, seen)

\* The reply shows the price at the time the transaction began: with none it is refused.
UpdateOperation(r) ==
  LET q == request[r]
  IN  /\ Ready(r, "update_operation")
      /\ Update(q.of, Answers(q.of, q.begun) # {}, IF q.to = Unsaid THEN status[q.of] ELSE q.to)
      /\ UNCHANGED history
      /\ End(r)

BeginChangePrice(r) ==
  \E o \in Operation, price \in Price, at \in Time :
    \E seen \in Seen(o) : Begin(r, "change_price", o, price, at, seen)

\* Mutant: the open price ends when the change began, not when it takes effect.
ChangePriceEarly(r) ==
  LET q == request[r]
      row == Row(q.of, q.to, q.at)
      current == OpenRows(q.of)
      others == Closed(current, q.begun)
      accepted == /\ current # {} /\ \A open \in current : q.at > open.from
                  /\ q.at >= q.begun
                  /\ Fits(row, others)
  IN  /\ Ready(r, "change_price")
      /\ Write(r, accepted, others \cup {row})
      /\ Update(q.of, accepted, status[q.of])

ChangePrice(r) ==
  LET q == request[r]
      row == Row(q.of, q.to, q.at)
      current == OpenRows(q.of)
      others == Closed(current, q.at)
      accepted == /\ current # {} /\ \A open \in current : q.at > open.from
                  /\ q.at >= q.begun
                  /\ Fits(row, others)
  IN  /\ Ready(r, "change_price")
      /\ Write(r, accepted, others \cup {row})
      /\ Update(q.of, accepted, status[q.of])

(***************************************************************************)
(* A print batch snapshots the prices of the model's active operations     *)
(* (patta-print-batches.service.ts), one query each.                       *)
(***************************************************************************)
BeginBatch(r) == Begin(r, "batch", Model, Unsaid, now, 0)

Locked(r) == {o \in Operation : Shared(o) \in held[r]}
Unread(r) == {o \in Locked(r) : \A price \in Price : <<o, price>> \notin snapshot[r]}

\* resolvePrice at the time the transaction began; without a price there is no batch.
ReadPrice(r) ==
  /\ Ready(r, "batch") \/ snapshot[r] # Nothing
  /\ \E o \in Unread(r) :
       IF Answers(o, request[r].begun) = {}
       THEN End(r)
       ELSE /\ \E price \in Answers(o, request[r].begun) :
                 snapshot' = [snapshot EXCEPT ![r] = @ \cup {<<o, price>>}]
            /\ UNCHANGED <<now, request, held>>
  /\ UNCHANGED tables

\* Without an active operation the batch is refused, and nothing is written here.
CommitBatch(r) ==
  /\ Ready(r, "batch") \/ snapshot[r] # Nothing
  /\ Unread(r) = {}
  /\ End(r)
  /\ UNCHANGED tables

Tick ==
  /\ now < MaxNow
  /\ now' = now + 1
  /\ UNCHANGED <<tables, request, held, snapshot>>

Next ==
  \/ Tick
  \/ \E w \in Worker : CreateWorker(w)
  \/ \E r \in Request :
       \/ BeginAssign(r) \/ BeginReassign(r) \/ BeginRelease(r) \/ BeginUpdateWorker(r)
       \/ BeginUpdateModel(r) \/ BeginCreateOperation(r) \/ BeginCreateCustom(r)
       \/ BeginUpdateOperation(r) \/ BeginChangePrice(r) \/ BeginBatch(r)
       \/ Acquire(r) \/ RollBack(r)
       \/ Assign(r) \/ Reassign(r) \/ Release(r) \/ UpdateWorker(r)
       \/ UpdateModel(r) \/ CreateOperation(r) \/ CreateCustom(r)
       \/ UpdateOperation(r) \/ ChangePrice(r) \/ ReadPrice(r) \/ CommitBatch(r)

Spec == Init /\ [][Next]_vars

(***************************************************************************)
(* Properties.                                                             *)
(***************************************************************************)
RowType == [of : Subject, is : Holder, from : Time, to : Time \cup {Open}]

\* Type invariant: rows are proper intervals, a badge has workers and an
\* operation has prices, and only requests in progress hold locks.
TypeOK ==
  /\ now \in 0 .. MaxNow
  /\ status \in [Owner -> Status] /\ version \in [Owner -> 1 .. MaxVersion]
  /\ history \subseteq RowType
  /\ \A row \in history : (row.of \in Badge <=> row.is \in Worker) /\ (row.to = Open \/ row.from < row.to)
  /\ \A r \in Request : request[r] # Idle => request[r].begun \in 0 .. now
  /\ \A r \in Request : request[r] = Idle => held[r] = {} /\ snapshot[r] = Nothing

\* No instant is covered by two rows of one badge or operation: BadgeResolutionService
\* and resolvePrice, which take one row, cannot choose.
NoOverlap ==
  \A a, b \in history : a.of = b.of /\ a # b => ~Overlap(a, b)

\* An operation's prices leave no gap: one row is open, and every other ends
\* where the next begins, whatever schedules and late transactions did.
PriceTimeline ==
  \A o \in Operation : status[o] # "ABSENT" =>
    \E open \in history :
      /\ OpenRows(o) = {open}
      /\ \A row \in history \ {open} : row.of = o =>
           /\ row.to <= open.from
           /\ \E next \in history \ {row} : next.of = o /\ next.from = row.to

\* A worker who is not active holds no open badge, although assignments lock the
\* badge first and a deactivation never locks it (closeOpenAssignmentsForWorker).
InactiveHoldsNone ==
  \A w \in Worker : status[w] # "ACTIVE" => OpenOf(w) = {}

\* The prices a batch has read, one query each, are those of every active
\* operation at one instant, and stay so until it commits.
SnapshotHolds ==
  \A r \in Request : snapshot[r] # Nothing =>
    /\ Locked(r) = ActiveOperations
    /\ \A entry \in snapshot[r] : Answers(entry[1], request[r].begun) = {entry[2]}

\* What was answered for an instant changes only by the commit of a transaction
\* that had begun by that instant: a change made later never reaches back.  (The
\* first price of a device's own operation may; nothing was answered before it.)
NothingRewritten ==
  [][history' # history =>
       \A s \in Subject, t \in Time :
         Answers(s, t)' # Answers(s, t) /\ (s \in Badge \/ Answers(s, t) # {}) =>
           \E r \in Request : request[r] # Idle /\ request'[r] = Idle /\ request[r].begun <= t]_vars

(***************************************************************************)
(* The inductive invariant.                                                *)
(***************************************************************************)
Versioned == {"update_worker", "update_model", "update_operation", "change_price"}
Creating == {"create_operation", "create_custom"}
Kinds == Versioned \cup Creating \cup {"assign", "reassign", "release", "batch"}

AskType == [kind : Kinds, of : Subject \cup Owner, to : Holder \cup Status \cup {Unsaid},
            at : Time, expects : 0 .. MaxVersion, begun : Time]
LockType == [on : Subject \cup Owner, shared : BOOLEAN]

\* What a request asks for exists and has the type its operation needs.
AskInv(q) ==
  /\ q.kind \in {"assign", "reassign"} => q.of \in Badge /\ q.to \in Known
  /\ q.kind = "release" => q.of \in Badge
  /\ q.kind = "update_worker" => q.of \in Worker
  /\ q.kind = "update_model" => q.of = Model
  /\ q.kind \in {"update_operation", "change_price"} \cup Creating => q.of \in Operation
  /\ q.kind \in {"change_price"} \cup Creating => q.to \in Price
  /\ q.kind \in {"update_worker", "update_model"} => q.to \in Status \ {"ABSENT"}
  /\ q.kind = "update_operation" => q.to \in (Status \ {"ABSENT"}) \cup {Unsaid}
  /\ q.kind \in Versioned => q.expects < MaxVersion /\ status[q.of] # "ABSENT"

RequestInv ==
  /\ request \in [Request -> {Idle} \cup AskType]
  /\ held \in [Request -> SUBSET LockType]
  /\ snapshot \in [Request -> SUBSET (Operation \X Price)]
  /\ \A r \in Request : AskInv(request[r])

\* Locks exclude each other.
LockInv ==
  \A r, q \in Request : r # q => \A a \in held[r], b \in held[q] : ~Conflicts(a, b)

\* What was found under a lock stays so while the lock is held.
FoundInv ==
  \A r \in Request :
    /\ request[r].kind \in {"assign", "reassign"} /\ Exclusive(request[r].to) \in held[r] =>
         status[request[r].to] = "ACTIVE"
    /\ request[r].kind \in Versioned /\ Exclusive(request[r].of) \in held[r] =>
         version[request[r].of] = request[r].expects

\* An operation that does not exist yet has no price.
AbsentInv == \A row \in history : row.of \in Operation => status[row.of] # "ABSENT"

\* A batch locks the model before its operations, and only active ones; what it
\* has read it has locked.
BatchInv ==
  \A r \in Request :
    /\ snapshot[r] # Nothing => request[r].kind = "batch"
    /\ request[r].kind = "batch" =>
         /\ Locked(r) # {} => Shared(Model) \in held[r]
         /\ Locked(r) \subseteq ActiveOperations
         /\ \A entry \in snapshot[r] : entry[1] \in Locked(r)

IInv ==
  /\ TypeOK /\ RequestInv /\ LockInv /\ FoundInv /\ AbsentInv /\ BatchInv
  /\ NoOverlap /\ PriceTimeline /\ InactiveHoldsNone /\ SnapshotHolds
=============================================================================
