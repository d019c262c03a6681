--------------------------- MODULE AdjustmentSync ---------------------------
(***************************************************************************)
(* Offline edits of model-account adjustments on their way: the local rows *)
(* and the outbox (sync_queue) of each desktop, its synchronisation cycle, *)
(* the requests it sends, the server's ledger and change feed, and the     *)
(* feed's way back into the local rows.                                    *)
(*                                                                         *)
(* Users create, edit, trash and restore adjustments at any time.  A cycle *)
(* claims outbox events, sends them, applies the answers, then pulls the   *)
(* feed from the device's cursor.  A request can be lost at either end (it *)
(* may still be executed later), refused as a whole, or end in an          *)
(* unexpected server error; the application can stop anywhere.             *)
(*                                                                         *)
(* The server decides an event atomically and once, which EventLedger      *)
(* shows of its concurrent transactions; the cycle's page-wise pull and    *)
(* its bootstrap are in ChangeFeed, here every device starts bootstrapped. *)
(* Events are numbered in the order of creation.                           *)
(***************************************************************************)
EXTENDS Adjustments, Sequences, FiniteSets

CONSTANTS
  Device,
  Adjustment,     \* the ids adjustments can be given
  Quantity,       \* the quantities users enter
  PushMaxEvents,  \* most events of one push request
  MaxEvents,      \* bound: events the outboxes get in all
  Faults,         \* the kinds of fault that happen: see FaultKinds
  MaxFaults       \* bound: faults in all

FaultKinds == {"loss", "auth", "error", "crash"}

ASSUME SyncAssumption ==
  /\ Quantity \subseteq Nat
  /\ PushMaxEvents \in Nat \ {0}
  /\ MaxEvents \in Nat /\ MaxFaults \in Nat
  /\ Faults \subseteq FaultKinds

VARIABLES
  rows,     \* server: model_account_adjustments
  ledger,   \* server: processed_sync_events, with the result stored for each
  feed,     \* server: server_change_log; its positions are the sequence numbers
  local,    \* local[d]: model_account_adjustments of device d
  queue,    \* queue[e]: event e in the outbox of its device; `delayed' only records that
            \* its next attempt was put off to a later time once
  cursor,   \* cursor[d]: last_server_cursor
  phase,    \* phase[d]: where the cycle of d stands
  batch,    \* batch[d]: the events the cycle claimed
  request,  \* request[d]: the bodies of d's request the server has still to process
  upto,     \* upto[d]: the position up to which the pulled page reaches
  late,     \* requests nobody waits for any more: what is left of each
  faults    \* number of faults so far

server == <<rows, ledger, feed>>
sqlite == <<local, queue, cursor>>
cycle  == <<phase, batch, request, upto>>
vars   == <<server, sqlite, cycle, late, faults>>

Events == 1 .. MaxEvents

Undecided == [status |-> "none"]
\* No row on the device.
Missing == [ownership |-> "none", version |-> 0, quantity |-> 0,
            trashed |-> FALSE, sequence |-> 0]

Row(ownership, version, quantity, trashed, sequence) ==
  [ownership |-> ownership, version |-> version, quantity |-> quantity,
   trashed |-> trashed, sequence |-> sequence]

Init ==
  /\ rows = [a \in Adjustment |-> Absent]
  /\ ledger = [e \in Events |-> Undecided]
  /\ feed = <<>>
  /\ local = [d \in Device |-> [a \in Adjustment |-> Missing]]
  /\ queue = <<>>
  /\ cursor = [d \in Device |-> 0]
  /\ phase = [d \in Device |-> "idle"]
  /\ batch = [d \in Device |-> {}]
  /\ request = [d \in Device |-> {}]
  /\ upto = [d \in Device |-> 0]
  /\ late = {}
  /\ faults = 0

-----------------------------------------------------------------------------
(* The user's operations: each one SQLite transaction that writes the row  *)
(* and its outbox event.                                                   *)

EventsOf(d) == {e \in DOMAIN queue : queue[e].body.device = d}
OpenEvents(d, a) ==
  {e \in EventsOf(d) : queue[e].body.adjustment = a /\ queue[e].status # "SYNCED"}
NeverSent(e) == queue[e].status = "PENDING" /\ ~queue[e].sent

Enqueue(d, a, operation, base, quantity, trashed) ==
  /\ Len(queue) < MaxEvents
  /\ queue' = Append(queue,
       [body |-> [event |-> Len(queue) + 1, device |-> d, adjustment |-> a,
                  operation |-> operation, base |-> base,
                  quantity |-> quantity, trashed |-> trashed],
        status |-> "PENDING", sent |-> FALSE, due |-> TRUE, delayed |-> FALSE])

\* The event still in the outbox takes the new contents.
Coalesce(e, base, quantity, trashed) ==
  /\ NeverSent(e)
  /\ queue[e].body.operation = "UPDATE" => base = queue[e].body.base
  /\ queue' = [queue EXCEPT ![e].body = [@ EXCEPT !.quantity = quantity, !.trashed = trashed]]

\* The id of a new adjustment is a fresh UUID.
Create(d, a, quantity) ==
  /\ \A e \in Device : local[e][a] = Missing
  /\ local' = [local EXCEPT ![d][a] = Row("LOCAL_PENDING", 0, quantity, FALSE, 0)]
  /\ Enqueue(d, a, "CREATE", 0, quantity, FALSE)
  /\ UNCHANGED <<server, cursor, cycle, late, faults>>

\* The base and the next version of a change of a: none if an earlier change
\* is under way, has failed or is in conflict.
MutationVersions(d, a) ==
  LET row == local[d][a]
  IN CASE row.ownership = "SERVER_SYNCED" -> {[base |-> row.version, next |-> row.version + 1]}
       [] row.ownership = "LOCAL_PENDING" ->
            {[base |-> queue[e].body.base, next |-> row.version] :
               e \in {f \in OpenEvents(d, a) :
                        /\ NeverSent(f)
                        /\ queue[f].body.operation = "CREATE" => row.version = 0}}
       [] OTHER -> {}

Mutate(d, a, quantity, trashed) ==
  /\ \E v \in MutationVersions(d, a) :
       /\ local' = [local EXCEPT ![d][a] =
            Row("LOCAL_PENDING", v.next, quantity, trashed, 0)]
       /\ \/ /\ OpenEvents(d, a) = {} /\ v.base > 0
             /\ Enqueue(d, a, "UPDATE", v.base, quantity, trashed)
          \/ \E e \in OpenEvents(d, a) :
               OpenEvents(d, a) = {e} /\ Coalesce(e, v.base, quantity, trashed)
  /\ UNCHANGED <<server, cursor, cycle, late, faults>>

Edit(d, a, quantity) ==
  ~local[d][a].trashed /\ Mutate(d, a, quantity, FALSE)
SetTrashed(d, a, trashed) ==
  local[d][a].trashed # trashed /\ Mutate(d, a, local[d][a].quantity, trashed)

-----------------------------------------------------------------------------
(* The cycle: recover, claim, push.                                        *)

\* The outbox after `events' got a status.
WithStatus(events, status) ==
  [e \in DOMAIN queue |->
     IF e \in events THEN [queue[e] EXCEPT !.status = status] ELSE queue[e]]

\* The rows of d after the rows of `events' got an ownership.
WithOwnership(d, events, ownership) ==
  [local EXCEPT ![d] = [a \in Adjustment |->
     IF /\ \E e \in events : queue[e].body.adjustment = a
        /\ local[d][a].ownership \in {"LOCAL_PENDING", "SYNCING"}
     THEN [local[d][a] EXCEPT !.ownership = ownership] ELSE local[d][a]]]

\* Mutant: nothing is recovered.
StartUnrecovered(d) ==
  /\ phase[d] = "idle"
  /\ phase' = [phase EXCEPT ![d] = "claiming"]
  /\ UNCHANGED <<server, sqlite, batch, request, upto, late, faults>>

\* Events left SYNCING by a cycle that never ended go back to PENDING.
StartCycle(d) ==
  /\ phase[d] = "idle"
  /\ phase' = [phase EXCEPT ![d] = "claiming"]
  /\ queue' = WithStatus({e \in EventsOf(d) : queue[e].status = "SYNCING"}, "PENDING")
  /\ UNCHANGED <<server, local, cursor, batch, request, upto, late, faults>>

Ready(d) == {e \in EventsOf(d) : queue[e].status = "PENDING" /\ queue[e].due}
PendingBatch(d) == {e \in Ready(d) : Cardinality({f \in Ready(d) : f < e}) < PushMaxEvents}

\* Mutant: a claimed event is not marked as sent.
ClaimUnmarked(d) ==
  /\ phase[d] = "claiming" /\ PendingBatch(d) # {}
  /\ queue' = WithStatus(PendingBatch(d), "SYNCING")
  /\ local' = WithOwnership(d, PendingBatch(d), "SYNCING")
  /\ batch' = [batch EXCEPT ![d] = PendingBatch(d)]
  /\ request' = [request EXCEPT ![d] = {queue[e].body : e \in PendingBatch(d)}]
  /\ phase' = [phase EXCEPT ![d] = "pushing"]
  /\ UNCHANGED <<server, cursor, upto, late, faults>>

ClaimPendingBatch(d) ==
  /\ phase[d] = "claiming" /\ PendingBatch(d) # {}
  /\ queue' = [e \in DOMAIN queue |->
       IF e \in PendingBatch(d)
       THEN [queue[e] EXCEPT !.status = "SYNCING", !.sent = TRUE] ELSE queue[e]]
  /\ local' = WithOwnership(d, PendingBatch(d), "SYNCING")
  /\ batch' = [batch EXCEPT ![d] = PendingBatch(d)]
  /\ request' = [request EXCEPT ![d] = {queue[e].body : e \in PendingBatch(d)}]
  /\ phase' = [phase EXCEPT ![d] = "pushing"]
  /\ UNCHANGED <<server, cursor, upto, late, faults>>

\* Mutant: a device with nothing to send does not pull.
NothingPendingEnds(d) ==
  /\ phase[d] = "claiming" /\ PendingBatch(d) = {}
  /\ phase' = [phase EXCEPT ![d] = "idle"]
  /\ UNCHANGED <<server, sqlite, batch, request, upto, late, faults>>

NothingPending(d) ==
  /\ phase[d] = "claiming" /\ PendingBatch(d) = {}
  /\ phase' = [phase EXCEPT ![d] = "pulling"]
  /\ UNCHANGED <<server, sqlite, batch, request, upto, late, faults>>

-----------------------------------------------------------------------------
(* The server.                                                             *)

First(bodies) == CHOOSE b \in bodies : \A c \in bodies : b.event <= c.event

\* Mutant: the stored result is not looked up.
DecideAgain(b) ==
  LET row == rows[b.adjustment]
      new == After(Method(row, b), row, b)
  IN \/ /\ b.operation = "CREATE" <=> row = Absent
        /\ Accepts(Method(row, b), row, b)
        /\ rows' = [rows EXCEPT ![b.adjustment] = new]
        /\ feed' = Append(feed, [adjustment |-> b.adjustment, row |-> new])
        /\ ledger' = [ledger EXCEPT ![b.event] =
             [status |-> "SYNCED", body |-> b, row |-> new, sequence |-> Len(feed) + 1]]
     \/ /\ \E status \in {"CONFLICT", "FAILED"} :
             ledger' = [ledger EXCEPT ![b.event] =
               [status |-> status, body |-> b, row |-> Absent, sequence |-> 0]]
        /\ UNCHANGED <<rows, feed>>

\* One event in its transaction.  A decided event is only looked up; others
\* are applied if the row accepts them, and can be refused on any account:
\* version, lifecycle, permission, references, clock.
Decide(b) ==
  LET row == rows[b.adjustment]
      new == After(Method(row, b), row, b)
  IN \/ /\ ledger[b.event] # Undecided
        /\ UNCHANGED server
     \/ /\ ledger[b.event] = Undecided
        /\ b.operation = "CREATE" <=> row = Absent
        /\ Accepts(Method(row, b), row, b)
        /\ rows' = [rows EXCEPT ![b.adjustment] = new]
        /\ feed' = Append(feed, [adjustment |-> b.adjustment, row |-> new])
        /\ ledger' = [ledger EXCEPT ![b.event] =
             [status |-> "SYNCED", body |-> b, row |-> new, sequence |-> Len(feed) + 1]]
     \/ /\ ledger[b.event] = Undecided
        /\ \E status \in {"CONFLICT", "FAILED"} :
             ledger' = [ledger EXCEPT ![b.event] =
               [status |-> status, body |-> b, row |-> Absent, sequence |-> 0]]
        /\ UNCHANGED <<rows, feed>>

\* The events of a request are processed one after the other.
Process(d) ==
  /\ request[d] # {}
  /\ Decide(First(request[d]))
  /\ request' = [request EXCEPT ![d] = @ \ {First(request[d])}]
  /\ UNCHANGED <<sqlite, phase, batch, upto, late, faults>>

ProcessLate(bodies) ==
  /\ Decide(First(bodies))
  /\ late' = ((late \ {bodies}) \cup {bodies \ {First(bodies)}}) \ {{}}
  /\ UNCHANGED <<sqlite, cycle, faults>>

LoseLate(bodies) ==
  /\ late' = late \ {bodies}
  /\ UNCHANGED <<server, sqlite, cycle, faults>>

-----------------------------------------------------------------------------
(* The cycle: the outcome of a push.                                       *)

Answered(d) == phase[d] = "pushing" /\ request[d] = {}

\* The result stored for event e, unless it was stored for another body.
Answer(e) ==
  IF ledger[e].body = queue[e].body THEN ledger[e]
  ELSE [status |-> "CONFLICT", body |-> queue[e].body, row |-> Absent, sequence |-> 0]

\* Mutant: the echo is not compared with the row.
EchoAny(d, e) == local[d][queue[e].body.adjustment].ownership = "SYNCING"

\* The echoed row is the one the event asked for, and the local one.
EchoMatches(d, e) ==
  LET body == queue[e].body
      echo == Answer(e).row
      row  == local[d][body.adjustment]
  IN /\ row.ownership = "SYNCING"
     /\ echo.quantity = body.quantity /\ echo.trashed = body.trashed
     /\ echo.quantity = row.quantity /\ echo.trashed = row.trashed
     /\ body.operation = "UPDATE" => echo.version = row.version

ResultsFit(d) ==
  \A e \in batch[d] : Answer(e).status = "SYNCED" => EchoMatches(d, e)

\* A row after the answers: an accepted change takes the echo's version and
\* the sequence of its change, a conflict leaves the row as it is.
AfterAnswer(row, answer) ==
  CASE answer.status = "SYNCED" ->
         Row("SERVER_SYNCED", answer.row.version, row.quantity, row.trashed, answer.sequence)
    [] answer.status = "FAILED" /\ row.ownership \in {"LOCAL_PENDING", "SYNCING"} ->
         [row EXCEPT !.ownership = "FAILED"]
    [] OTHER -> row

ReceiveResults(d) ==
  /\ Answered(d) /\ ResultsFit(d)
  /\ queue' = [e \in DOMAIN queue |->
       IF e \in batch[d] THEN [queue[e] EXCEPT !.status = Answer(e).status] ELSE queue[e]]
  /\ local' = [local EXCEPT ![d] = [a \in Adjustment |->
       LET sent == {e \in batch[d] : queue[e].body.adjustment = a}
       IN IF sent = {} THEN local[d][a]
          ELSE AfterAnswer(local[d][a], Answer(CHOOSE e \in sent : TRUE))]]
  /\ batch' = [batch EXCEPT ![d] = {}]
  /\ phase' = [phase EXCEPT ![d] = "pulling"]
  /\ UNCHANGED <<server, cursor, request, upto, late, faults>>

\* The cycle is over; what is left of its request may be executed or not.
EndCycle(d) ==
  /\ phase' = [phase EXCEPT ![d] = "idle"]
  /\ batch' = [batch EXCEPT ![d] = {}]
  /\ request' = [request EXCEPT ![d] = {}]
  /\ upto' = [upto EXCEPT ![d] = 0]

\* A permanent error: every event of the batch fails.
FailBatch(d) ==
  /\ queue' = WithStatus(batch[d], "FAILED")
  /\ local' = WithOwnership(d, batch[d], "FAILED")
  /\ EndCycle(d)
  /\ UNCHANGED <<server, cursor, late>>

\* An echo that does not match rolls the whole transaction back.
RejectResults(d) ==
  /\ Answered(d) /\ ~ResultsFit(d)
  /\ FailBatch(d)
  /\ UNCHANGED faults

Fault(kind) == kind \in Faults /\ faults < MaxFaults /\ faults' = faults + 1

\* The whole request is refused, or one of its events meets an unexpected error.
ServerError(d) ==
  /\ phase[d] = "pushing" /\ request[d] # {} /\ Fault("error")
  /\ FailBatch(d)

\* Mutant: a network error is taken for a permanent one.
DeferFailing(d, due) ==
  /\ queue' = WithStatus(batch[d], "FAILED")
  /\ local' = WithOwnership(d, batch[d], "FAILED")
  /\ EndCycle(d)
  /\ UNCHANGED <<server, cursor>>

\* The batch goes back into the outbox, to be sent again when it is due.
Defer(d, due) ==
  /\ queue' = [e \in DOMAIN queue |->
       IF e \in batch[d]
       THEN [queue[e] EXCEPT !.status = "PENDING", !.due = due, !.delayed = @ \/ ~due] ELSE queue[e]]
  /\ local' = WithOwnership(d, batch[d], "LOCAL_PENDING")
  /\ EndCycle(d)
  /\ UNCHANGED <<server, cursor>>

\* A timeout or a broken connection, on the way there or back.
LoseRequest(d) ==
  /\ phase[d] = "pushing" /\ Fault("loss")
  /\ Defer(d, FALSE)
  /\ late' \in {late, (late \cup {request[d]}) \ {{}}}

\* 401: the session has expired, nothing was processed.
AuthRequired(d) ==
  /\ phase[d] = "pushing" /\ Fault("auth")
  /\ request[d] = {queue[e].body : e \in batch[d]}
  /\ Defer(d, TRUE)
  /\ UNCHANGED late

\* next_attempt_at is over.
BecomesDue(e) ==
  /\ ~queue[e].due
  /\ queue' = [queue EXCEPT ![e].due = TRUE]
  /\ UNCHANGED <<server, local, cursor, cycle, late, faults>>

\* The application stops; SQLite keeps what was committed.
Crash(d) ==
  /\ phase[d] # "idle" /\ Fault("crash")
  /\ EndCycle(d)
  /\ late' \in {late, (late \cup {request[d]}) \ {{}}}
  /\ UNCHANGED <<server, sqlite>>

-----------------------------------------------------------------------------
(* The cycle: pull.                                                        *)

Pull(d) ==
  /\ phase[d] = "pulling"
  /\ phase' = [phase EXCEPT ![d] = "applying"]
  /\ upto' = [upto EXCEPT ![d] = Len(feed)]
  /\ UNCHANGED <<server, sqlite, batch, request, late, faults>>

PullFails(d) ==
  /\ phase[d] = "pulling" /\ Fault("loss")
  /\ EndCycle(d)
  /\ UNCHANGED <<server, sqlite, late>>

\* The positions of a in the pulled page.
Pulled(d, a) == {i \in cursor[d] + 1 .. upto[d] : feed[i].adjustment = a}

\* Mutant: a change overwrites what the user did.
MirroredOver(d, a) ==
  IF \E i \in Pulled(d, a) : i > local[d][a].sequence
  THEN LET last == CHOOSE i \in Pulled(d, a) : \A j \in Pulled(d, a) : j <= i
           row  == feed[last].row
       IN Row("SERVER_SYNCED", row.version, row.quantity, row.trashed, last)
  ELSE local[d][a]

\* Mutant: of several changes in a page the first one stays.
MirroredFirst(d, a) ==
  IF /\ local[d][a].ownership \in {"none", "SERVER_SYNCED"}
     /\ \E i \in Pulled(d, a) : i > local[d][a].sequence
  THEN LET first == CHOOSE i \in Pulled(d, a) : \A j \in Pulled(d, a) : i <= j
           row   == feed[first].row
       IN Row("SERVER_SYNCED", row.version, row.quantity, row.trashed, first)
  ELSE local[d][a]

\* The changes of the page that are newer than the row replace it, unless it
\* holds local work; the last of them stays.
Mirrored(d, a) ==
  IF /\ local[d][a].ownership \in {"none", "SERVER_SYNCED"}
     /\ \E i \in Pulled(d, a) : i > local[d][a].sequence
  THEN LET last == CHOOSE i \in Pulled(d, a) : \A j \in Pulled(d, a) : j <= i
           row  == feed[last].row
       IN Row("SERVER_SYNCED", row.version, row.quantity, row.trashed, last)
  ELSE local[d][a]

\* The page and the cursor are committed together, also past skipped changes.
ApplyPullPage(d) ==
  /\ phase[d] = "applying"
  /\ local' = [local EXCEPT ![d] = [a \in Adjustment |-> Mirrored(d, a)]]
  /\ cursor' = [cursor EXCEPT ![d] = upto[d]]
  /\ EndCycle(d)
  /\ UNCHANGED <<server, queue, late, faults>>

-----------------------------------------------------------------------------
UserStep(d) ==
  \E a \in Adjustment :
    \/ \E quantity \in Quantity : Create(d, a, quantity) \/ Edit(d, a, quantity)
    \/ \E trashed \in BOOLEAN : SetTrashed(d, a, trashed)

CycleStep(d) ==
  \/ StartCycle(d) \/ ClaimPendingBatch(d) \/ NothingPending(d)
  \/ ReceiveResults(d) \/ RejectResults(d) \/ Pull(d) \/ ApplyPullPage(d)

FaultStep(d) ==
  ServerError(d) \/ LoseRequest(d) \/ AuthRequired(d) \/ Crash(d) \/ PullFails(d)

Next ==
  \/ \E d \in Device : UserStep(d) \/ CycleStep(d) \/ Process(d) \/ FaultStep(d)
  \/ \E e \in DOMAIN queue : BecomesDue(e)
  \/ \E bodies \in late : ProcessLate(bodies) \/ LoseLate(bodies)

Spec == Init /\ [][Next]_vars

\* The poll timer starts cycles for ever, a request is answered or fails, time
\* passes.  Users owe nothing, abandoned requests neither.
Fairness ==
  /\ \A d \in Device : WF_vars(CycleStep(d)) /\ WF_vars(Process(d))
  /\ WF_vars(\E e \in DOMAIN queue : BecomesDue(e))

FairSpec == Spec /\ Fairness

-----------------------------------------------------------------------------
(* Properties.                                                             *)

Bodies == [event : Events, device : Device, adjustment : Adjustment, operation : Operations,
           base : Nat, quantity : Nat, trashed : BOOLEAN]
Rows   == [version : Nat, quantity : Nat, trashed : BOOLEAN]
Changes == [adjustment : Adjustment, row : Rows]
Results == [status : {"SYNCED", "CONFLICT", "FAILED"}, body : Bodies, row : Rows, sequence : Nat]
LocalRows ==
  [ownership : {"none", "LOCAL_PENDING", "SYNCING", "SERVER_SYNCED", "FAILED"},
   version : Nat, quantity : Nat, trashed : BOOLEAN, sequence : Nat]
Queued ==
  [body : Bodies, status : {"PENDING", "SYNCING", "SYNCED", "CONFLICT", "FAILED"},
   sent : BOOLEAN, due : BOOLEAN, delayed : BOOLEAN]

TypeOK ==
  /\ rows \in [Adjustment -> Rows]
  /\ ledger \in [Events -> {Undecided} \cup Results]
  /\ feed \in Seq(Changes)
  /\ local \in [Device -> [Adjustment -> LocalRows]]
  /\ queue \in Seq(Queued) /\ Len(queue) <= MaxEvents
  /\ cursor \in [Device -> Nat]
  /\ phase \in [Device -> {"idle", "claiming", "pushing", "pulling", "applying"}]
  /\ batch \in [Device -> SUBSET Events]
  /\ request \in [Device -> SUBSET Bodies]
  /\ upto \in [Device -> Nat]
  /\ late \subseteq SUBSET Bodies
  /\ faults \in Nat

\* Bodies that may still reach the server, or have.
Travelling ==
  (UNION late) \cup (UNION {request[d] : d \in Device})
    \cup {ledger[e].body : e \in {e \in Events : ledger[e] # Undecided}}

\* An event that left its device never changes: what a request still carries
\* and what the server decided is what the outbox holds, however often it is
\* sent and whatever the user does meanwhile.
SentNeverChanges ==
  \A b \in Travelling : b.event \in DOMAIN queue /\ queue[b.event].body = b

\* A row a user changed waits with exactly one event in the outbox, which says
\* what the row says and names the version the row had; a row that is the
\* server's has none.  So a pull overwrites nothing, and a push sends all.
LocalWorkIsQueued ==
  \A d \in Device, a \in Adjustment :
    LET row  == local[d][a]
        open == OpenEvents(d, a)
    IN IF row.ownership \in {"none", "SERVER_SYNCED"} THEN open = {}
       ELSE \E e \in open :
              /\ open = {e}
              /\ queue[e].body.quantity = row.quantity /\ queue[e].body.trashed = row.trashed
              /\ row.version = IF queue[e].body.operation = "CREATE" THEN 0
                               ELSE queue[e].body.base + 1

\* A device takes an event for accepted, or for a conflict, only if the server
\* decided so, whichever copy of it was answered.
VerdictsAgree ==
  \A e \in DOMAIN queue :
    queue[e].status \in {"SYNCED", "CONFLICT"} => ledger[e].status = queue[e].status

\* A row shown as the server's is a row the server had, at the sequence number
\* the device holds: neither an echo nor a page leaves a mixture.
ShownIsRecorded ==
  \A d \in Device, a \in Adjustment :
    LET row == local[d][a]
    IN row.ownership = "SERVER_SYNCED" =>
         /\ row.sequence \in DOMAIN feed
         /\ feed[row.sequence] = [adjustment |-> a,
              row |-> [version |-> row.version, quantity |-> row.quantity,
                       trashed |-> row.trashed]]

\* Events that were put off, or stand behind an earlier event of their device
\* that was: others of the device may be sent, and pages pulled, before them.
PutOff(d) ==
  {e \in EventsOf(d) : \E f \in EventsOf(d) : f <= e /\ queue[f].delayed}

\* The row shows its own change, which the device learned of belatedly.
ShowsPutOff(d, a) ==
  \E e \in PutOff(d) :
    /\ queue[e].body.adjustment = a
    /\ ledger[e].status = "SYNCED" /\ ledger[e].sequence = local[d][a].sequence

\* No change is passed over: the cursor of a device is never past a change of
\* a row the device shows as the server's in an older version, unless what the
\* row shows is a change of its own that was put off after a lost response.
NothingPassedOver ==
  \A d \in Device, a \in Adjustment :
    local[d][a].ownership \in {"none", "SERVER_SYNCED"} =>
      \/ ~\E i \in local[d][a].sequence + 1 .. cursor[d] : feed[i].adjustment = a
      \/ ShowsPutOff(d, a)

\* A device gives an event up only after the server decided it.
UndecidedStaysQueued ==
  \A e \in DOMAIN queue :
    ledger[e] = Undecided => queue[e].status \in {"PENDING", "SYNCING"}

\* Every event is settled in the end.
EveryEventIsSettled ==
  \A e \in Events :
    e \in DOMAIN queue ~> e \in DOMAIN queue /\ queue[e].status \notin {"PENDING", "SYNCING"}

\* In the end every device shows the server's row of every adjustment, except
\* where its own change was refused, or was put off after a lost response.
DevicesConverge ==
  <>[](\A d \in Device, a \in Adjustment :
         LET row == local[d][a]
         IN \/ row.ownership \notin {"none", "SERVER_SYNCED"}
            \/ rows[a] = [version |-> row.version, quantity |-> row.quantity,
                          trashed |-> row.trashed]
            \/ ShowsPutOff(d, a))

\* What the server decided, the rows events can name, and the verdicts the
\* devices have taken, each about the event as the outbox holds it.
Verdict(e) == [status |-> ledger[e].status, version |-> ledger[e].row.version]
Decisions  ==
  [e \in {b.event : b \in Bodies} |->
     IF ledger[e] = Undecided THEN Undecided
     ELSE [status |-> ledger[e].status, version |-> ledger[e].row.version, body |-> ledger[e].body]]
NamedRows  == [a \in {b.adjustment : b \in Bodies} |-> rows[a]]
Settled    == {e \in DOMAIN queue : queue[e].status \in {"SYNCED", "CONFLICT"}}
Heard      == {[body |-> queue[e].body, answer |-> Verdict(e)] : e \in Settled}

\* Devices, network and server together do what ExactlyOnce promises: however
\* often an event is edited, sent, deferred or repeated after a crash, it is
\* decided once, an accepted one changes its row once, on the version it was
\* based on, and the verdict its device keeps is that decision.
Promise == INSTANCE ExactlyOnce WITH
  Body <- Bodies, decided <- Decisions, rows <- NamedRows, heard <- Heard
ImplementsExactlyOnce == Promise!Spec

-----------------------------------------------------------------------------
(* The inductive invariant behind the proofs.                              *)

\* Events keep their number; only those that were claimed have left the device.
QueueInv ==
  /\ \A e \in DOMAIN queue : /\ queue[e].body.event = e
                             /\ queue[e].status # "PENDING" => queue[e].sent
  /\ \A b \in Travelling : /\ b.event \in DOMAIN queue
                           /\ queue[b.event].body = b /\ queue[b.event].sent
  /\ {} \notin late

\* What the server stored about an event is about that event, and in the feed.
LedgerInv ==
  \A e \in Events : ledger[e] # Undecided =>
    /\ ledger[e].body.event = e
    /\ ledger[e].status = "SYNCED" =>
         /\ ledger[e].sequence \in DOMAIN feed
         /\ feed[ledger[e].sequence] =
              [adjustment |-> ledger[e].body.adjustment, row |-> ledger[e].row]

\* A pushing cycle holds its events; those the request no longer carries are decided.
BatchInv ==
  \A d \in Device :
    /\ phase[d] # "pushing" => batch[d] = {} /\ request[d] = {}
    /\ \A e \in batch[d] :
         /\ e \in EventsOf(d) /\ queue[e].status = "SYNCING"
         /\ queue[e].body \in request[d] \/ ledger[e] # Undecided
    /\ \A b \in request[d] : b.event \in batch[d]

CursorInv ==
  \A d \in Device : /\ cursor[d] <= Len(feed)
                    /\ phase[d] = "applying" => upto[d] <= Len(feed)

IInv ==
  /\ TypeOK /\ QueueInv /\ LedgerInv /\ BatchInv /\ CursorInv
  /\ LocalWorkIsQueued /\ VerdictsAgree /\ ShownIsRecorded
-----------------------------------------------------------------------------
(* What NothingPassedOver rests on, over IInv.                             *)

Unsettled(d) == {e \in EventsOf(d) : queue[e].status \in {"PENDING", "SYNCING"}}
\* What was sent, is not settled, and was not put off.
SentOut(d) == {e \in Unsettled(d) : queue[e].sent} \ PutOff(d)

\* What an interrupted cycle of d has sent and not put off the next one claims
\* again, before it pulls: these events come first among those not settled.
ResentOf(d) ==
  /\ \A e \in SentOut(d) : Cardinality({f \in Unsettled(d) : f < e}) < PushMaxEvents
  /\ phase[d] = "claiming" => \A e \in EventsOf(d) : queue[e].status # "SYNCING"
  /\ phase[d] = "pushing" => SentOut(d) \subseteq batch[d]
  /\ phase[d] \in {"pulling", "applying"} => SentOut(d) = {}

ResentInv ==
  /\ \A e \in DOMAIN queue : queue[e].due \/ queue[e].delayed
  /\ \A d \in Device : ResentOf(d)

\* The change an unsettled event has made is still to be pulled, unless it was put off.
AheadInv ==
  \A d \in Device : \A e \in Unsettled(d) \ PutOff(d) :
    ledger[e].status = "SYNCED" => cursor[d] < ledger[e].sequence

PullInv == IInv /\ ResentInv /\ AheadInv /\ NothingPassedOver
=============================================================================
