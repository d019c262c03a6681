---------------------------- MODULE EventLedger ----------------------------
(***************************************************************************)
(* The push side of the synchronisation: how the API executes the events   *)
(* devices send, each in a READ COMMITTED transaction of its own.          *)
(*                                                                         *)
(* Several requests are executed at once, among them several copies of the *)
(* same batch: a device that timed out sends its batch again while the     *)
(* first copy is still running.  What orders them is the unique event id   *)
(* (an insert waits for an uncommitted one of the same id), the row lock   *)
(* of the adjustment and the advisory lock of the change log, all held to  *)
(* the end of the transaction.  An unexpected error, a lost connection or  *)
(* a crash of the API ends a request anywhere: the running transaction     *)
(* rolls back, earlier events of the batch stay committed.                 *)
(***************************************************************************)
EXTENDS Adjustments, Sequences, FiniteSets

CONSTANTS
  Body,    \* the events devices send
  Batch,   \* the batches they are sent in: sequences of bodies
  Worker   \* requests the API executes at the same time

ASSUME BodyAssumption ==
  /\ \A b \in Body : /\ DOMAIN b = {"event", "device", "adjustment", "operation",
                                    "base", "quantity", "trashed"}
                     /\ b.operation \in Operations /\ b.base \in Nat
                     /\ b.quantity \in Nat /\ b.trashed \in BOOLEAN
  /\ Batch \subseteq Seq(Body)

VARIABLES
  ledger,   \* processed_sync_events: the committed row of each event id
  rows,     \* model_account_adjustments, committed
  feed,     \* the committed changes of server_change_log, in sequence order
  stage,    \* stage[w]: where request w stands
  left,     \* left[w]: the events w has still to process
  told,     \* told[w]: the bodies w has results for, with the results
  method,   \* method[w]: the service method the handler chose
  outcome,  \* outcome[w]: the status the running transaction will store
  written,  \* written[w]: the row version the running transaction wrote
  heard     \* history: the answers devices received

request == <<stage, left, told, method, outcome, written>>
vars == <<ledger, rows, feed, request, heard>>

EventIds      == {b.event : b \in Body}
AdjustmentIds == {b.adjustment : b \in Body}

Unprocessed == [status |-> "none"]
Mismatch    == [status |-> "CONFLICT", version |-> 0]

Event(w) == Head(left[w])
Row(w)   == rows[Event(w).adjustment]
\* Stages in which w's transaction holds its event id, and its row.
HoldsEvent(w) == stage[w] \in {"reserved", "dispatched", "applied", "recorded", "refused"}
HoldsRow(w)   == stage[w] \in {"applied", "recorded"}

Init ==
  /\ ledger = [e \in EventIds |-> Unprocessed]
  /\ rows = [a \in AdjustmentIds |-> Absent]
  /\ feed = <<>>
  /\ stage = [w \in Worker |-> "idle"]
  /\ left = [w \in Worker |-> <<>>]
  /\ told = [w \in Worker |-> {}]
  /\ method = [w \in Worker |-> "update"]
  /\ outcome = [w \in Worker |-> "SYNCED"]
  /\ written = [w \in Worker |-> Absent]
  /\ heard = {}

-----------------------------------------------------------------------------
Push(w, batch) ==
  /\ stage[w] = "idle"
  /\ stage' = [stage EXCEPT ![w] = "next"]
  /\ left' = [left EXCEPT ![w] = batch]
  /\ UNCHANGED <<ledger, rows, feed, told, method, outcome, written, heard>>

\* INSERT ... ON CONFLICT DO NOTHING: waits while another transaction holds
\* the event id, inserts when neither a committed nor an open one does.
Reserve(w) ==
  /\ stage[w] = "next" /\ left[w] # <<>>
  /\ ledger[Event(w).event] = Unprocessed
  /\ \A v \in Worker \ {w} : HoldsEvent(v) => Event(v).event # Event(w).event
  /\ stage' = [stage EXCEPT ![w] = "reserved"]
  /\ UNCHANGED <<ledger, rows, feed, left, told, method, outcome, written, heard>>

\* Mutant: the fingerprint is not compared.
StoredAnswerUnchecked(b) ==
  [status |-> ledger[b.event].status, version |-> ledger[b.event].version]
\* The stored result, unless it was stored for another body or device.
StoredAnswer(b) ==
  IF ledger[b.event].body = b
  THEN [status |-> ledger[b.event].status, version |-> ledger[b.event].version]
  ELSE Mismatch

\* The variables of the transaction end with it.
Forget(w) ==
  /\ method' = [method EXCEPT ![w] = "update"]
  /\ outcome' = [outcome EXCEPT ![w] = "SYNCED"]
  /\ written' = [written EXCEPT ![w] = Absent]

Finish(w, answer) ==
  /\ told' = [told EXCEPT ![w] = @ \cup {[body |-> Event(w), answer |-> answer]}]
  /\ left' = [left EXCEPT ![w] = Tail(@)]
  /\ stage' = [stage EXCEPT ![w] = "next"]
  /\ Forget(w)

Replay(w) ==
  /\ stage[w] = "next" /\ left[w] # <<>>
  /\ ledger[Event(w).event] # Unprocessed
  /\ Finish(w, StoredAnswer(Event(w)))
  /\ UNCHANGED <<ledger, rows, feed, heard>>

\* Inside the savepoint: the event is parsed, its clock, permission and
\* dependencies are checked, and the handler picks the service method on an
\* unlocked read of the row.
Dispatch(w) ==
  /\ stage[w] = "reserved"
  /\ \/ /\ \/ Event(w).operation = "CREATE"
           \/ Event(w).base > 0 /\ Row(w) # Absent
        /\ method' = [method EXCEPT ![w] = Method(Row(w), Event(w))]
        /\ stage' = [stage EXCEPT ![w] = "dispatched"]
        /\ UNCHANGED outcome
     \/ \E status \in {"CONFLICT", "FAILED"} :
        /\ outcome' = [outcome EXCEPT ![w] = status]
        /\ stage' = [stage EXCEPT ![w] = "refused"]
        /\ UNCHANGED method
  /\ UNCHANGED <<ledger, rows, feed, left, told, written, heard>>

\* Mutant: the version the row is compared in is read without its lock.
ApplyWithoutLock(w) ==
  LET b == Event(w)
  IN /\ stage[w] = "dispatched"
     /\ method[w] = "create" => Row(w) = Absent
     /\ Accepts(method[w], Row(w), b)
     /\ written' = [written EXCEPT ![w] = After(method[w], Row(w), b)]
     /\ outcome' = [outcome EXCEPT ![w] = "SYNCED"]
     /\ stage' = [stage EXCEPT ![w] = "applied"]
     /\ UNCHANGED <<ledger, rows, feed, left, told, method, heard>>

\* The service method: lock the row (or insert it), check it again, write it.
\* Inserting an id that exists is an unexpected error: only Abort is left.
\* References that changed meanwhile refuse a CREATE although it is in order.
Apply(w) ==
  LET b == Event(w)
  IN /\ stage[w] = "dispatched"
     /\ \A v \in Worker \ {w} : HoldsRow(v) => Event(v).adjustment # b.adjustment
     /\ \/ /\ method[w] = "create" => Row(w) = Absent
           /\ Accepts(method[w], Row(w), b)
           /\ written' = [written EXCEPT ![w] = After(method[w], Row(w), b)]
           /\ outcome' = [outcome EXCEPT ![w] = "SYNCED"]
           /\ stage' = [stage EXCEPT ![w] = "applied"]
        \/ /\ ~Accepts(method[w], Row(w), b)
           /\ outcome' = [outcome EXCEPT ![w] = Refusal(method[w], b)]
           /\ stage' = [stage EXCEPT ![w] = "refused"]
           /\ UNCHANGED written
        \/ /\ method[w] = "create"
           /\ outcome' = [outcome EXCEPT ![w] = "CONFLICT"]
           /\ stage' = [stage EXCEPT ![w] = "refused"]
           /\ UNCHANGED written
     /\ UNCHANGED <<ledger, rows, feed, left, told, method, heard>>

\* The change log's advisory lock, then the next sequence value.
Record(w) ==
  /\ stage[w] = "applied"
  /\ \A v \in Worker : stage[v] # "recorded"
  /\ stage' = [stage EXCEPT ![w] = "recorded"]
  /\ UNCHANGED <<ledger, rows, feed, left, told, method, outcome, written, heard>>

Store(w, status, version) ==
  /\ ledger' = [ledger EXCEPT ![Event(w).event] =
       [status |-> status, version |-> version, body |-> Event(w)]]
  /\ Finish(w, [status |-> status, version |-> version])

\* Mutant: the result is stored after the row's transaction has committed.
CommitWithoutResult(w) ==
  /\ stage[w] = "recorded"
  /\ rows' = [rows EXCEPT ![Event(w).adjustment] = written[w]]
  /\ feed' = Append(feed, [body |-> Event(w), row |-> written[w]])
  /\ stage' = [stage EXCEPT ![w] = "refused"]
  /\ UNCHANGED <<ledger, left, told, method, outcome, written, heard>>

\* RELEASE SAVEPOINT, the terminal result, COMMIT.
Commit(w) ==
  /\ stage[w] = "recorded"
  /\ Store(w, "SYNCED", written[w].version)
  /\ rows' = [rows EXCEPT ![Event(w).adjustment] = written[w]]
  /\ feed' = Append(feed, [body |-> Event(w), row |-> written[w]])
  /\ UNCHANGED heard

\* A domain refusal: ROLLBACK TO SAVEPOINT, the terminal result, COMMIT.
CommitRefusal(w) ==
  /\ stage[w] = "refused"
  /\ Store(w, outcome[w], 0)
  /\ UNCHANGED <<rows, feed, heard>>

EndRequest(w) ==
  /\ stage' = [stage EXCEPT ![w] = "idle"]
  /\ left' = [left EXCEPT ![w] = <<>>]
  /\ told' = [told EXCEPT ![w] = {}]
  /\ Forget(w)

\* The answer of the request arrives, or gets lost (Abort).
Respond(w) ==
  /\ stage[w] = "next" /\ left[w] = <<>>
  /\ heard' = heard \cup told[w]
  /\ EndRequest(w)
  /\ UNCHANGED <<ledger, rows, feed>>

Abort(w) ==
  /\ stage[w] # "idle"
  /\ EndRequest(w)
  /\ UNCHANGED <<ledger, rows, feed, heard>>

Next ==
  \E w \in Worker :
    \/ \E batch \in Batch : Push(w, batch)
    \/ Reserve(w) \/ Replay(w) \/ Dispatch(w) \/ Apply(w) \/ Record(w)
    \/ Commit(w) \/ CommitRefusal(w) \/ Respond(w) \/ Abort(w)

Spec == Init /\ [][Next]_vars

-----------------------------------------------------------------------------
(* Properties.                                                             *)

Results == [status : {"SYNCED", "CONFLICT", "FAILED"}, version : Nat]
Rows    == [version : Nat, quantity : Nat, trashed : BOOLEAN]
Stages  == {"idle", "next", "reserved", "dispatched", "applied", "recorded", "refused"}
Stored  == [status : {"SYNCED", "CONFLICT", "FAILED"}, version : Nat, body : Body]

TypeOK ==
  /\ ledger \in [EventIds -> {Unprocessed} \cup Stored]
  /\ rows \in [AdjustmentIds -> Rows]
  /\ feed \in Seq([body : Body, row : Rows])
  /\ stage \in [Worker -> Stages]
  /\ left \in [Worker -> Seq(Body)]
  /\ told \in [Worker -> SUBSET [body : Body, answer : Results]]
  /\ method \in [Worker -> Methods]
  /\ outcome \in [Worker -> {"SYNCED", "CONFLICT", "FAILED"}]
  /\ written \in [Worker -> Rows]
  /\ heard \subseteq [body : Body, answer : Results]
  /\ \A w \in Worker : HoldsEvent(w) => left[w] # <<>>

\* An event id has one change in the feed if it is stored as SYNCED, with the
\* version the result names, and none otherwise: retries, concurrent copies
\* and aborted attempts neither apply it twice nor answer without applying.
LedgerMatchesFeed ==
  \A e \in EventIds :
    LET changes == {i \in DOMAIN feed : feed[i].body.event = e}
    IN IF ledger[e].status = "SYNCED"
       THEN \E i \in changes : /\ changes = {i}
                               /\ feed[i].body = ledger[e].body
                               /\ feed[i].row.version = ledger[e].version
       ELSE changes = {}

\* The changes of adjustment a, by position in the feed.
ChangesOf(a) == {i \in DOMAIN feed : feed[i].body.adjustment = a}

\* No lost update: the changes of an adjustment appear in the feed in version
\* order without gaps, each made by an event based on the version before it,
\* and the last one is the row as it stands.
HistoryIsLinear ==
  \A a \in AdjustmentIds :
    LET changes == ChangesOf(a)
    IN /\ changes = {} => rows[a] = Absent
       /\ \A i \in changes :
            /\ feed[i].row.version = feed[i].body.base + 1
            /\ (\A j \in changes : i <= j) => feed[i].body.base = 0
            /\ (\A j \in changes : j <= i) => rows[a] = feed[i].row
            /\ \A j \in changes :
                 i < j /\ ~(\E k \in changes : i < k /\ k < j)
                   => feed[j].body.base = feed[i].row.version

\* The method is picked on a row read without a lock; nothing the row went
\* through until it was locked makes an accepted event do something else
\* than its body asks: trash, restore, or an edit of a live row.
AcceptedMeansAsked ==
  \A i \in DOMAIN feed :
    LET b == feed[i].body
        before == {j \in 1 .. i - 1 : feed[j].body.adjustment = b.adjustment}
    IN /\ feed[i].row.trashed = b.trashed
       /\ \/ feed[i].row.quantity = b.quantity
          \/ \E j \in before : /\ feed[j].row.version = b.base
                               /\ feed[j].row.quantity = feed[i].row.quantity
                               /\ feed[j].row.trashed # b.trashed

\* Whatever a device hears about a body, it hears again: an event answered
\* once is never answered differently, also when the first answer was lost.
AnswersNeverDiffer ==
  \A x, y \in heard \cup UNION {told[w] : w \in Worker} : x.body = y.body => x.answer = y.answer

\* The ledger does what ExactlyOnce promises.
Promise == INSTANCE ExactlyOnce WITH decided <- ledger
ImplementsExactlyOnce == Promise!Spec

-----------------------------------------------------------------------------
(* The inductive invariant behind the proofs.                              *)

\* An open transaction holds an event id nobody has decided, alone.
EventInv ==
  \A w \in Worker : HoldsEvent(w) =>
    /\ ledger[Event(w).event] = Unprocessed
    /\ \A v \in Worker : HoldsEvent(v) /\ Event(v).event = Event(w).event => v = w

\* It holds the row it wrote, alone.
RowInv ==
  \A v, w \in Worker :
    HoldsRow(v) /\ HoldsRow(w) /\ Event(v).adjustment = Event(w).adjustment => v = w

\* The chosen method fits the body, the written row follows the locked one.
MethodInv ==
  \A w \in Worker : stage[w] = "dispatched" =>
    /\ method[w] = "create" <=> Event(w).operation = "CREATE"
    /\ method[w] = "trash" => Event(w).trashed
    /\ method[w] = "restore" => ~Event(w).trashed
    /\ method[w] # "create" => Event(w).base > 0
Follows(w) ==
  /\ Row(w).version = Event(w).base
  /\ written[w].version = Event(w).base + 1
  /\ written[w].trashed = Event(w).trashed
  /\ \/ written[w].quantity = Event(w).quantity
     \/ /\ written[w].quantity = Row(w).quantity
        /\ Row(w).trashed # Event(w).trashed /\ Event(w).base > 0
WrittenInv == \A w \in Worker : HoldsRow(w) => Follows(w)
RefusedInv ==
  \A w \in Worker : stage[w] = "refused" => outcome[w] \in {"CONFLICT", "FAILED"}

\* Every result given out so far is the stored one.
Answered(x) ==
  /\ ledger[x.body.event] # Unprocessed
  /\ x.answer = StoredAnswer(x.body)
AnswerInv ==
  /\ \A x \in heard : Answered(x)
  /\ \A w \in Worker : \A x \in told[w] : Answered(x)

\* A row is what one of its changes made it.
RecordedInv ==
  \A a \in AdjustmentIds : rows[a] = Absent \/ \E i \in ChangesOf(a) : feed[i].row = rows[a]

IInv ==
  /\ TypeOK /\ EventInv /\ RowInv /\ MethodInv /\ WrittenInv /\ RefusedInv
  /\ AnswerInv /\ RecordedInv /\ LedgerMatchesFeed /\ HistoryIsLinear /\ AcceptedMeansAsked
=============================================================================
