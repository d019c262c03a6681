----------------------- MODULE AdjustmentSyncProof -----------------------
(***************************************************************************)
(* Proofs about AdjustmentSync, for every number of devices, adjustments   *)
(* and events, every kind of fault and every batch size.                   *)
(***************************************************************************)
EXTENDS AdjustmentSync, TLAPS, NaturalsInduction, WellFoundedInduction, FiniteSetTheorems

-----------------------------------------------------------------------------
(* The first body of a request exists.                                     *)

LEMMA LeastExists ==
  ASSUME NEW T, T \subseteq Nat, T # {}
  PROVE  \E x \in T : \A y \in T : x <= y
<1>1. PICK x \in T : \A y \in T : ~(<<y, x>> \in OpToRel(<, Nat))
  BY NatLessThanWellFounded, WFMin
<1>2. \A y \in T : ~(y < x)
  BY <1>1 DEF OpToRel
<1>3. QED
  BY <1>2

LEMMA FirstIsElement ==
  ASSUME NEW bodies, bodies \subseteq Bodies, bodies # {}
  PROVE  First(bodies) \in bodies
<1>. DEFINE T == {b.event : b \in bodies}
<1>1. \A b \in bodies : b.event \in Nat
  BY SyncAssumption DEF Bodies, Events
<1>2. T \subseteq Nat /\ T # {}
  BY <1>1
<1>3. PICK x \in T : \A y \in T : x <= y
  <2>. HIDE DEF T
  <2>. QED
    BY <1>2, LeastExists
<1>4. \E b \in bodies : \A c \in bodies : b.event <= c.event
  BY <1>3
<1>5. QED
  BY <1>4 DEF First

-----------------------------------------------------------------------------
(* What the kinds of steps do.                                             *)

\* Stored results stay, the feed only grows, and what is new about an event
\* and in the feed comes from the decided body.
LEMMA DecideStep ==
  ASSUME TypeOK, NEW b \in Bodies, Decide(b)
  PROVE  /\ rows' \in [Adjustment -> Rows]
         /\ ledger' \in [Events -> {Undecided} \cup Results]
         /\ feed' \in Seq(Changes)
         /\ Len(feed) <= Len(feed')
         /\ \A i \in DOMAIN feed : i \in DOMAIN feed' /\ feed'[i] = feed[i]
         /\ ledger'[b.event] # Undecided
         /\ \A e \in Events : ledger[e] # Undecided => ledger'[e] = ledger[e]
         /\ \A e \in Events : ledger'[e] = ledger[e] \/ (e = b.event /\ ledger'[e].body = b)
         /\ \A e \in Events : ledger'[e] # ledger[e] /\ ledger'[e].status = "SYNCED" =>
              /\ ledger'[e].sequence \in DOMAIN feed'
              /\ feed'[ledger'[e].sequence] = [adjustment |-> b.adjustment, row |-> ledger'[e].row]
<1> DEFINE row    == rows[b.adjustment]
           method == Method(row, b)
           new    == After(method, row, b)
<1>1. b.event \in Events /\ b.adjustment \in Adjustment /\ row \in Rows
  BY DEF TypeOK, Bodies
<1>2. new \in Rows
  BY <1>1 DEF After, Rows, Bodies
<1>3. CASE ledger[b.event] # Undecided /\ UNCHANGED server
  BY <1>1, <1>3 DEF TypeOK, server
<1>4. CASE /\ ledger[b.event] = Undecided
           /\ rows' = [rows EXCEPT ![b.adjustment] = new]
           /\ feed' = Append(feed, [adjustment |-> b.adjustment, row |-> new])
           /\ ledger' = [ledger EXCEPT ![b.event] =
                [status |-> "SYNCED", body |-> b, row |-> new, sequence |-> Len(feed) + 1]]
  <2> DEFINE result == [status |-> "SYNCED", body |-> b, row |-> new, sequence |-> Len(feed) + 1]
             change == [adjustment |-> b.adjustment, row |-> new]
  <2>1. feed \in Seq(Changes) /\ Len(feed) \in Nat
    BY DEF TypeOK
  <2>2. change \in Changes
    BY <1>1, <1>2 DEF Changes
  <2>3. result \in Results /\ result # Undecided
    BY <1>2, <2>1 DEF Results, Undecided
  <2>4. /\ result.status = "SYNCED" /\ result.body = b
        /\ result.row = new /\ result.sequence = Len(feed) + 1
    OBVIOUS
  <2>5. change = [adjustment |-> b.adjustment, row |-> result.row]
    BY <2>4
  <2> HIDE DEF result, change, new
  <2>6. /\ feed' \in Seq(Changes) /\ Len(feed') = Len(feed) + 1
        /\ \A i \in DOMAIN feed : i \in DOMAIN feed' /\ feed'[i] = feed[i]
        /\ Len(feed) + 1 \in DOMAIN feed' /\ feed'[Len(feed) + 1] = change
    BY <1>4, <2>1, <2>2 DEF change
  <2>7. ledger' = [ledger EXCEPT ![b.event] = result]
    BY <1>4 DEF result
  <2>8. /\ ledger' \in [Events -> {Undecided} \cup Results]
        /\ ledger'[b.event] = result
        /\ \A e \in Events : e # b.event => ledger'[e] = ledger[e]
    BY <1>1, <2>3, <2>7 DEF TypeOK
  <2>9. rows' \in [Adjustment -> Rows]
    BY <1>1, <1>2, <1>4 DEF TypeOK
  <2>10. QED
    BY <1>1, <1>4, <2>1, <2>3, <2>4, <2>5, <2>6, <2>8, <2>9
<1>5. CASE /\ ledger[b.event] = Undecided
           /\ \E status \in {"CONFLICT", "FAILED"} :
                ledger' = [ledger EXCEPT ![b.event] =
                  [status |-> status, body |-> b, row |-> Absent, sequence |-> 0]]
           /\ UNCHANGED <<rows, feed>>
  <2>1. PICK status \in {"CONFLICT", "FAILED"} :
          ledger' = [ledger EXCEPT ![b.event] =
            [status |-> status, body |-> b, row |-> Absent, sequence |-> 0]]
    BY <1>5
  <2> DEFINE result == [status |-> status, body |-> b, row |-> Absent, sequence |-> 0]
  <2>2. Absent \in Rows
    BY DEF Absent, Rows
  <2>3. result \in Results /\ result # Undecided /\ result.status # "SYNCED" /\ result.body = b
    BY <2>2 DEF Results, Undecided
  <2> HIDE DEF result
  <2>4. /\ ledger' \in [Events -> {Undecided} \cup Results]
        /\ ledger'[b.event] = result
        /\ \A e \in Events : e # b.event => ledger'[e] = ledger[e]
    BY <1>1, <2>1, <2>3 DEF TypeOK, result
  <2>5. QED
    BY <1>1, <1>5, <2>3, <2>4 DEF TypeOK
<1>6. QED
  BY <1>3, <1>4, <1>5 DEF Decide

\* A request that is processed is one on its way.
LEMMA ServerStep ==
  ASSUME TypeOK, QueueInv, [Next]_vars
  PROVE  \/ UNCHANGED server
         \/ \E b \in Bodies : b \in Travelling /\ Decide(b) /\ UNCHANGED sqlite
<1>1. ASSUME NEW d \in Device, UserStep(d) PROVE UNCHANGED server
  BY <1>1 DEF UserStep, Create, Edit, SetTrashed, Mutate
<1>2. ASSUME NEW d \in Device, CycleStep(d) PROVE UNCHANGED server
  BY <1>2 DEF CycleStep, StartCycle, ClaimPendingBatch, NothingPending, ReceiveResults,
    RejectResults, FailBatch, Pull, ApplyPullPage
<1>3. ASSUME NEW d \in Device, FaultStep(d) PROVE UNCHANGED server
  BY <1>3 DEF FaultStep, ServerError, FailBatch, LoseRequest, AuthRequired, Defer, Crash, PullFails
<1>4. ASSUME NEW d \in Device, Process(d)
      PROVE  \E b \in Bodies : b \in Travelling /\ Decide(b) /\ UNCHANGED sqlite
  <2>1. request[d] \subseteq Bodies /\ request[d] # {}
    BY <1>4 DEF TypeOK, Process
  <2>2. First(request[d]) \in request[d]
    BY <2>1, FirstIsElement
  <2>3. First(request[d]) \in UNION {request[c] : c \in Device}
    BY <2>2
  <2>4. First(request[d]) \in Travelling
    BY <2>3 DEF Travelling
  <2>5. QED
    BY <1>4, <2>1, <2>2, <2>4 DEF Process
<1>5. ASSUME NEW bodies \in late, ProcessLate(bodies)
      PROVE  \E b \in Bodies : b \in Travelling /\ Decide(b) /\ UNCHANGED sqlite
  <2>1. bodies \subseteq Bodies /\ bodies # {}
    BY DEF TypeOK, QueueInv
  <2>2. First(bodies) \in bodies
    BY <2>1, FirstIsElement
  <2>3. First(bodies) \in Travelling
    BY <2>2 DEF Travelling
  <2>4. QED
    BY <1>5, <2>1, <2>2, <2>3 DEF ProcessLate
<1>6. CASE UNCHANGED vars
  BY <1>6 DEF vars
<1>7. QED
  BY <1>1, <1>2, <1>3, <1>4, <1>5, <1>6 DEF Next, BecomesDue, LoseLate

\* An outbox step keeps the bodies of the events, sent events stay sent, and
\* what waits for no sending has been sent.
OutboxStep ==
  /\ queue' = [e \in DOMAIN queue |-> queue'[e]]
  /\ \A e \in DOMAIN queue : /\ queue'[e] \in Queued
                             /\ queue'[e].body = queue[e].body
                             /\ queue[e].sent => queue'[e].sent
                             /\ queue'[e].status # "PENDING" => queue'[e].sent

LEMMA OutboxShape ==
  ASSUME TypeOK, OutboxStep
  PROVE  /\ queue' \in Seq(Queued) /\ Len(queue') <= MaxEvents
         /\ DOMAIN queue' = DOMAIN queue
         /\ \A d \in Device : EventsOf(d)' = EventsOf(d)
<1>1. queue \in Seq(Queued) /\ Len(queue) \in Nat /\ DOMAIN queue = 1 .. Len(queue)
  BY DEF TypeOK
<1>2. queue' \in [1 .. Len(queue) -> Queued]
  BY <1>1 DEF OutboxStep
<1>3. queue' \in Seq(Queued) /\ DOMAIN queue' = 1 .. Len(queue) /\ Len(queue') = Len(queue)
  BY <1>1, <1>2
<1>4. QED
  BY <1>1, <1>3 DEF TypeOK, EventsOf, OutboxStep

LEMMA EventType ==
  ASSUME TypeOK, NEW e \in DOMAIN queue
  PROVE  /\ queue[e] \in Queued /\ queue[e].body \in Bodies
         /\ e \in Events /\ Len(queue) \in Nat /\ DOMAIN queue = 1 .. Len(queue)
<1>1. queue \in Seq(Queued) /\ Len(queue) \in Nat /\ DOMAIN queue = 1 .. Len(queue)
  BY DEF TypeOK
<1>2. queue[e] \in Queued
  BY <1>1
<1>3. e \in Events
  BY <1>1, SyncAssumption DEF TypeOK, Events
<1>4. QED
  BY <1>1, <1>2, <1>3 DEF Queued

LEMMA SentFact ==
  ASSUME TypeOK, QueueInv, NEW e \in DOMAIN queue
  PROVE  /\ queue[e] \in Queued /\ queue[e].body.event = e
         /\ queue[e].status # "PENDING" => queue[e].sent
BY EventType DEF QueueInv

\* The events of a batch that goes back into the outbox.
LEMMA DeferStep ==
  ASSUME TypeOK, NEW d \in Device, NEW due \in BOOLEAN, Defer(d, due)
  PROVE  /\ queue' = [e \in DOMAIN queue |-> queue'[e]]
         /\ \A e \in DOMAIN queue :
              /\ queue'[e] \in Queued
              /\ queue'[e].body = queue[e].body /\ queue'[e].sent = queue[e].sent
              /\ \/ queue'[e] = queue[e]
                 \/ /\ e \in batch[d] /\ queue'[e].status = "PENDING" /\ queue'[e].due = due
                    /\ queue'[e].delayed = (queue[e].delayed \/ ~due)
<1> DEFINE deferred(e) == [queue[e] EXCEPT !.status = "PENDING", !.due = due, !.delayed = @ \/ ~due]
<1>1. queue' = [e \in DOMAIN queue |-> IF e \in batch[d] THEN deferred(e) ELSE queue[e]]
  BY DEF Defer
<1>2. ASSUME NEW e \in DOMAIN queue
      PROVE  /\ queue[e] \in Queued
             /\ deferred(e) \in Queued
             /\ deferred(e).body = queue[e].body /\ deferred(e).sent = queue[e].sent
             /\ deferred(e).status = "PENDING" /\ deferred(e).due = due
             /\ deferred(e).delayed = (queue[e].delayed \/ ~due)
  <2>1. queue[e] \in Queued
    BY EventType
  <2>2. (queue[e].delayed \/ ~due) \in BOOLEAN
    OBVIOUS
  <2>3. QED
    BY <2>1, <2>2 DEF Queued
<1> HIDE DEF deferred
<1>3. \A e \in DOMAIN queue : queue'[e] = IF e \in batch[d] THEN deferred(e) ELSE queue[e]
  BY <1>1
<1>4. QED
  BY <1>1, <1>2, <1>3

LEMMA WithStatusStep ==
  ASSUME TypeOK, QueueInv, NEW events,
         NEW status \in {"PENDING", "SYNCING", "SYNCED", "CONFLICT", "FAILED"},
         queue' = WithStatus(events, status),
         status = "PENDING" \/ \A e \in events : queue[e].status # "PENDING"
  PROVE  OutboxStep
<1>1. SUFFICES ASSUME NEW e \in DOMAIN queue
               PROVE  /\ queue'[e] \in Queued /\ queue'[e].body = queue[e].body
                      /\ queue[e].sent => queue'[e].sent
                      /\ queue'[e].status # "PENDING" => queue'[e].sent
  BY DEF OutboxStep, WithStatus
<1>2. queue[e] \in Queued
  BY EventType
<1>3. queue[e].status # "PENDING" => queue[e].sent
  BY DEF QueueInv
<1>4. \/ queue'[e] = queue[e]
      \/ /\ queue'[e] = [queue[e] EXCEPT !.status = status]
         /\ status = "PENDING" \/ queue[e].status # "PENDING"
  BY DEF WithStatus
<1>5. QED
  BY <1>2, <1>3, <1>4 DEF Queued

\* The row of every adjustment keeps its contents; only the ownership of a
\* row with local work can change.
LEMMA WithOwnershipStep ==
  ASSUME TypeOK, NEW d \in Device, NEW events,
         NEW ownership \in {"LOCAL_PENDING", "SYNCING", "FAILED"},
         local' = WithOwnership(d, events, ownership)
  PROVE  /\ local' \in [Device -> [Adjustment -> LocalRows]]
         /\ \A c \in Device, a \in Adjustment :
              \/ local'[c][a] = local[c][a]
              \/ /\ local[c][a].ownership \in {"LOCAL_PENDING", "SYNCING"}
                 /\ local'[c][a] = [local[c][a] EXCEPT !.ownership = ownership]
<1> DEFINE mine == [a \in Adjustment |->
       IF /\ \E e \in events : queue[e].body.adjustment = a
          /\ local[d][a].ownership \in {"LOCAL_PENDING", "SYNCING"}
       THEN [local[d][a] EXCEPT !.ownership = ownership] ELSE local[d][a]]
<1>1. local \in [Device -> [Adjustment -> LocalRows]]
  BY DEF TypeOK
<1>2. \A a \in Adjustment : local[d][a] \in LocalRows
  BY <1>1
<1>3. \A a \in Adjustment :
        \/ mine[a] = local[d][a]
        \/ /\ local[d][a].ownership \in {"LOCAL_PENDING", "SYNCING"}
           /\ mine[a] = [local[d][a] EXCEPT !.ownership = ownership]
  OBVIOUS
<1>4. \A a \in Adjustment : mine[a] \in LocalRows
  BY <1>2, <1>3 DEF LocalRows
<1>5. mine \in [Adjustment -> LocalRows]
  BY <1>4
<1>6. local' = [local EXCEPT ![d] = mine]
  BY DEF WithOwnership
<1> HIDE DEF mine
<1>7. local' \in [Device -> [Adjustment -> LocalRows]]
  BY <1>1, <1>5, <1>6
<1>8. \A c \in Device : local'[c] = IF c = d THEN mine ELSE local[c]
  BY <1>1, <1>6
<1>9. QED
  BY <1>3, <1>7, <1>8

-----------------------------------------------------------------------------
(* Types.                                                                  *)

LEMMA RowType ==
  ASSUME NEW ownership \in {"none", "LOCAL_PENDING", "SYNCING", "SERVER_SYNCED", "FAILED"},
         NEW version \in Nat, NEW quantity \in Nat, NEW trashed \in BOOLEAN, NEW sequence \in Nat
  PROVE  Row(ownership, version, quantity, trashed, sequence) \in LocalRows
BY DEF Row, LocalRows

\* What a change of an adjustment starts from.
LEMMA MutationVersionsType ==
  ASSUME TypeOK, NEW d \in Device, NEW a \in Adjustment, NEW v \in MutationVersions(d, a)
  PROVE  /\ v.base \in Nat /\ v.next \in Nat
         /\ \/ /\ local[d][a].ownership = "SERVER_SYNCED"
               /\ v.base = local[d][a].version /\ v.next = local[d][a].version + 1
            \/ /\ local[d][a].ownership = "LOCAL_PENDING" /\ v.next = local[d][a].version
               /\ \E e \in OpenEvents(d, a) :
                    /\ v.base = queue[e].body.base
                    /\ queue[e].body.operation = "CREATE" => local[d][a].version = 0
<1> DEFINE row == local[d][a]
<1>1. row \in LocalRows
  BY DEF TypeOK
<1>2. CASE row.ownership = "SERVER_SYNCED"
  <2>1. v = [base |-> row.version, next |-> row.version + 1]
    BY <1>2 DEF MutationVersions
  <2>2. QED
    BY <1>1, <1>2, <2>1 DEF LocalRows
<1>3. CASE row.ownership = "LOCAL_PENDING"
  <2>1. PICK e \in OpenEvents(d, a) :
          /\ queue[e].body.operation = "CREATE" => row.version = 0
          /\ v = [base |-> queue[e].body.base, next |-> row.version]
    BY <1>3 DEF MutationVersions
  <2>2. e \in DOMAIN queue
    BY DEF OpenEvents, EventsOf
  <2>3. queue[e].body.base \in Nat
    BY <2>2, EventType DEF Bodies
  <2>4. QED
    BY <1>1, <1>3, <2>1, <2>3 DEF LocalRows
<1>4. CASE row.ownership \notin {"SERVER_SYNCED", "LOCAL_PENDING"}
  BY <1>4 DEF MutationVersions
<1>5. QED
  BY <1>2, <1>3, <1>4

\* The outbox after a new event, and after one took new contents.
LEMMA EnqueueStep ==
  ASSUME TypeOK, NEW d \in Device, NEW a \in Adjustment, NEW operation \in Operations,
         NEW base \in Nat, NEW quantity \in Nat, NEW trashed \in BOOLEAN,
         Enqueue(d, a, operation, base, quantity, trashed)
  PROVE  LET n == Len(queue) + 1
         IN /\ queue' \in Seq(Queued) /\ Len(queue') <= MaxEvents
            /\ n \in Events /\ n \notin DOMAIN queue
            /\ \A e : e \in DOMAIN queue' <=> e \in DOMAIN queue \/ e = n
            /\ \A e \in DOMAIN queue : queue'[e] = queue[e]
            /\ queue'[n].body.event = n
            /\ queue'[n].body.device = d /\ queue'[n].body.adjustment = a
            /\ queue'[n].body.operation = operation /\ queue'[n].body.base = base
            /\ queue'[n].body.quantity = quantity /\ queue'[n].body.trashed = trashed
            /\ queue'[n].status = "PENDING"
<1> DEFINE n    == Len(queue) + 1
           body == [event |-> n, device |-> d, adjustment |-> a, operation |-> operation,
                    base |-> base, quantity |-> quantity, trashed |-> trashed]
           new  == [body |-> body, status |-> "PENDING", sent |-> FALSE, due |-> TRUE, delayed |-> FALSE]
<1>1. queue \in Seq(Queued) /\ Len(queue) \in Nat /\ DOMAIN queue = 1 .. Len(queue)
  BY DEF TypeOK
<1>2. n \in Events /\ n <= MaxEvents
  BY <1>1, SyncAssumption DEF Enqueue, Events
<1>3. body \in Bodies
  BY <1>2 DEF Bodies
<1>4. new \in Queued
  BY <1>3 DEF Queued
<1>5. /\ new.body = body /\ new.status = "PENDING"
      /\ body.event = n /\ body.device = d /\ body.adjustment = a /\ body.operation = operation
      /\ body.base = base /\ body.quantity = quantity /\ body.trashed = trashed
  OBVIOUS
<1>6. queue' = Append(queue, new)
  BY DEF Enqueue
<1> HIDE DEF new, body
<1>7. /\ queue' \in Seq(Queued) /\ Len(queue') = n /\ queue'[n] = new
      /\ DOMAIN queue' = 1 .. n
      /\ \A e \in DOMAIN queue : queue'[e] = queue[e]
  BY <1>1, <1>4, <1>6
<1>8. n \notin DOMAIN queue /\ \A e : e \in 1 .. n <=> e \in 1 .. Len(queue) \/ e = n
  BY <1>1
<1>9. QED
  BY <1>1, <1>2, <1>5, <1>7, <1>8

LEMMA CoalesceStep ==
  ASSUME TypeOK, NEW e \in DOMAIN queue, NEW base \in Nat, NEW quantity \in Nat, NEW trashed \in BOOLEAN,
         Coalesce(e, base, quantity, trashed)
  PROVE  /\ queue' \in Seq(Queued) /\ Len(queue') <= MaxEvents
         /\ DOMAIN queue' = DOMAIN queue
         /\ \A f \in DOMAIN queue : f # e => queue'[f] = queue[f]
         /\ queue'[e].body.event = queue[e].body.event
         /\ queue'[e].body.device = queue[e].body.device
         /\ queue'[e].body.adjustment = queue[e].body.adjustment
         /\ queue'[e].body.operation = queue[e].body.operation
         /\ queue'[e].body.base = queue[e].body.base
         /\ queue'[e].body.quantity = quantity /\ queue'[e].body.trashed = trashed
         /\ queue'[e].status = "PENDING" /\ queue[e].status = "PENDING"
         /\ ~queue[e].sent /\ ~queue'[e].sent
         /\ queue[e].body.operation = "UPDATE" => base = queue[e].body.base
<1> DEFINE body == [queue[e].body EXCEPT !.quantity = quantity, !.trashed = trashed]
           new  == [queue[e] EXCEPT !.body = body]
<1>1. queue \in Seq(Queued) /\ Len(queue) \in Nat /\ DOMAIN queue = 1 .. Len(queue)
  BY DEF TypeOK
<1>2. queue[e] \in Queued /\ queue[e].body \in Bodies
  BY EventType
<1>3. body \in Bodies
  BY <1>2 DEF Bodies
<1>4. new \in Queued /\ new.body = body /\ new.status = queue[e].status /\ new.sent = queue[e].sent
  BY <1>2, <1>3 DEF Queued
<1>5. queue' = [queue EXCEPT ![e] = new]
  BY DEF Coalesce
<1> HIDE DEF new
<1>6. /\ queue' \in Seq(Queued) /\ Len(queue') = Len(queue) /\ DOMAIN queue' = DOMAIN queue
      /\ queue'[e] = new /\ \A f \in DOMAIN queue : f # e => queue'[f] = queue[f]
  BY <1>1, <1>4, <1>5
<1>7. /\ body.event = queue[e].body.event /\ body.device = queue[e].body.device
      /\ body.adjustment = queue[e].body.adjustment /\ body.operation = queue[e].body.operation
      /\ body.base = queue[e].body.base /\ body.quantity = quantity /\ body.trashed = trashed
  BY <1>2 DEF Bodies
<1> HIDE DEF body
<1>8. QED
  BY <1>4, <1>6, <1>7 DEF Coalesce, NeverSent, TypeOK

LEMMA ServerTypeStep ==
  ASSUME TypeOK, QueueInv, [Next]_vars
  PROVE  /\ rows' \in [Adjustment -> Rows]
         /\ ledger' \in [Events -> {Undecided} \cup Results]
         /\ feed' \in Seq(Changes)
         /\ Len(feed) \in Nat /\ Len(feed') \in Nat /\ Len(feed) <= Len(feed')
         /\ \A i \in DOMAIN feed : i \in DOMAIN feed' /\ feed'[i] = feed[i]
         /\ \A e \in Events : ledger[e] # Undecided => ledger'[e] = ledger[e]
<1>1. feed \in Seq(Changes)
  BY DEF TypeOK
<1>2. CASE UNCHANGED server
  BY <1>1, <1>2 DEF TypeOK, server
<1>3. CASE \E b \in Bodies : b \in Travelling /\ Decide(b) /\ UNCHANGED sqlite
  BY <1>1, <1>3, DecideStep
<1>4. QED
  BY <1>2, <1>3, ServerStep

\* A change of an adjustment is a new event, or new contents for the only one.
LEMMA MutateCases ==
  ASSUME TypeOK, NEW d \in Device, NEW a \in Adjustment, NEW quantity \in Nat,
         NEW trashed \in BOOLEAN, Mutate(d, a, quantity, trashed)
  PROVE  \E base, next \in Nat :
           /\ local' = [local EXCEPT ![d][a] = Row("LOCAL_PENDING", next, quantity, trashed, 0)]
           /\ \/ /\ local[d][a].ownership = "SERVER_SYNCED" /\ next = local[d][a].version + 1
                 /\ base = local[d][a].version
              \/ /\ local[d][a].ownership = "LOCAL_PENDING" /\ next = local[d][a].version
           /\ \/ /\ OpenEvents(d, a) = {} /\ local[d][a].ownership = "SERVER_SYNCED"
                 /\ Enqueue(d, a, "UPDATE", base, quantity, trashed)
              \/ \E e \in OpenEvents(d, a) : /\ OpenEvents(d, a) = {e}
                                             /\ Coalesce(e, base, quantity, trashed)
<1>1. PICK v \in MutationVersions(d, a) :
        /\ local' = [local EXCEPT ![d][a] = Row("LOCAL_PENDING", v.next, quantity, trashed, 0)]
        /\ \/ /\ OpenEvents(d, a) = {}
              /\ Enqueue(d, a, "UPDATE", v.base, quantity, trashed)
           \/ \E e \in OpenEvents(d, a) : /\ OpenEvents(d, a) = {e}
                                          /\ Coalesce(e, v.base, quantity, trashed)
  BY DEF Mutate
<1>2. /\ v.base \in Nat /\ v.next \in Nat
      /\ \/ /\ local[d][a].ownership = "SERVER_SYNCED"
            /\ v.base = local[d][a].version /\ v.next = local[d][a].version + 1
         \/ /\ local[d][a].ownership = "LOCAL_PENDING" /\ v.next = local[d][a].version
            /\ \E e \in OpenEvents(d, a) :
                 /\ v.base = queue[e].body.base
                 /\ queue[e].body.operation = "CREATE" => local[d][a].version = 0
  BY MutationVersionsType
<1>3. QED
  BY <1>1, <1>2

LEMMA LocalChange ==
  ASSUME local \in [Device -> [Adjustment -> LocalRows]],
         NEW d \in Device, NEW a \in Adjustment, NEW row \in LocalRows,
         local' = [local EXCEPT ![d][a] = row]
  PROVE  /\ local' \in [Device -> [Adjustment -> LocalRows]]
         /\ local'[d][a] = row
         /\ \A c \in Device, b \in Adjustment : c # d \/ b # a => local'[c][b] = local[c][b]
OBVIOUS

\* What users do is to create an adjustment or to change one.
LEMMA UserKinds ==
  ASSUME TypeOK, NEW d \in Device, UserStep(d)
  PROVE  \/ \E a \in Adjustment, quantity \in Quantity : Create(d, a, quantity)
         \/ \E a \in Adjustment, quantity \in Nat, trashed \in BOOLEAN :
              Mutate(d, a, quantity, trashed)
<1>1. ASSUME NEW e \in Device, NEW a \in Adjustment, NEW quantity \in Quantity, Edit(e, a, quantity)
      PROVE  \E n \in Nat, trashed \in BOOLEAN : Mutate(e, a, n, trashed)
  BY <1>1, SyncAssumption DEF Edit
<1>2. ASSUME NEW e \in Device, NEW a \in Adjustment, NEW trashed \in BOOLEAN,
             SetTrashed(e, a, trashed)
      PROVE  \E n \in Nat, gone \in BOOLEAN : Mutate(e, a, n, gone)
  <2>1. local[e][a].quantity \in Nat
    BY DEF TypeOK, LocalRows
  <2>2. QED
    BY <1>2, <2>1 DEF SetTrashed
<1>3. QED
  BY <1>1, <1>2 DEF UserStep

\* The steps that leave the outbox as it is, and those that only move events
\* from one status to another.
LEMMA OutboxKinds ==
  ASSUME TypeOK, QueueInv, BatchInv, [Next]_vars
  PROVE  \/ UNCHANGED queue
         \/ OutboxStep
         \/ \E d \in Device, a \in Adjustment, quantity \in Quantity : Create(d, a, quantity)
         \/ \E d \in Device, a \in Adjustment, quantity \in Nat, trashed \in BOOLEAN :
              Mutate(d, a, quantity, trashed)
<1> USE DEF sqlite
<1>1. ASSUME NEW d \in Device, UserStep(d)
      PROVE  \/ \E a \in Adjustment, quantity \in Quantity : Create(d, a, quantity)
             \/ \E a \in Adjustment, quantity \in Nat, trashed \in BOOLEAN :
                  Mutate(d, a, quantity, trashed)
  BY <1>1, UserKinds
<1>2. ASSUME NEW d \in Device, CycleStep(d) PROVE UNCHANGED queue \/ OutboxStep
  <2>1. CASE StartCycle(d)
    BY <2>1, WithStatusStep DEF StartCycle
  <2>2. CASE ClaimPendingBatch(d)
    <3>1. \A e \in DOMAIN queue : queue[e] \in Queued /\ (queue[e].status # "PENDING" => queue[e].sent)
      BY SentFact
    <3>2. \A e \in DOMAIN queue :
            queue'[e] = [queue[e] EXCEPT !.status = "SYNCING", !.sent = TRUE] \/ queue'[e] = queue[e]
      BY <2>2 DEF ClaimPendingBatch
    <3>3. \A e \in DOMAIN queue :
            /\ queue'[e] \in Queued /\ queue'[e].body = queue[e].body
            /\ queue[e].sent => queue'[e].sent
            /\ queue'[e].status # "PENDING" => queue'[e].sent
      <4> SUFFICES ASSUME NEW e \in DOMAIN queue
                   PROVE  /\ queue'[e] \in Queued /\ queue'[e].body = queue[e].body
                          /\ queue[e].sent => queue'[e].sent
                          /\ queue'[e].status # "PENDING" => queue'[e].sent
        OBVIOUS
      <4>1. CASE queue'[e] = queue[e]
        BY <3>1, <4>1
      <4>2. CASE queue'[e] = [queue[e] EXCEPT !.status = "SYNCING", !.sent = TRUE]
        <5>1. queue[e] \in Queued
          BY <3>1
        <5>2. queue'[e] \in Queued
          BY <4>2, <5>1 DEF Queued
        <5>3. queue'[e].body = queue[e].body /\ queue'[e].sent = TRUE
          BY <4>2, <5>1 DEF Queued
        <5>4. QED
          BY <5>2, <5>3
      <4>3. QED
        BY <3>2, <4>1, <4>2
    <3>4. QED
      BY <2>2, <3>3 DEF ClaimPendingBatch, OutboxStep
  <2>3. CASE ReceiveResults(d)
    <3>1. \A e \in DOMAIN queue : queue[e] \in Queued /\ e \in Events
      BY EventType
    <3>2. \A e \in batch[d] \cap DOMAIN queue : Answer(e).status \in {"SYNCED", "CONFLICT", "FAILED"}
      <4> SUFFICES ASSUME NEW e \in batch[d] \cap DOMAIN queue
                   PROVE  Answer(e).status \in {"SYNCED", "CONFLICT", "FAILED"}
        OBVIOUS
      <4>1. CASE ledger[e].body # queue[e].body
        BY <4>1 DEF Answer
      <4>2. CASE ledger[e] \in Results
        BY <4>2 DEF Answer, Results
      <4>3. ledger[e] # Undecided
        BY <2>3 DEF ReceiveResults, Answered, BatchInv
      <4>4. QED
        BY <3>1, <4>1, <4>2, <4>3 DEF TypeOK
    <3>3. \A e \in DOMAIN queue :
            \/ e \in batch[d] /\ queue'[e] = [queue[e] EXCEPT !.status = Answer(e).status]
            \/ queue'[e] = queue[e]
      BY <2>3 DEF ReceiveResults
    <3>4. \A e \in DOMAIN queue : queue[e].status # "PENDING" => queue[e].sent
      BY DEF QueueInv
    <3>5. \A e \in batch[d] : queue[e].status = "SYNCING"
      BY DEF BatchInv
    <3>6. \A e \in DOMAIN queue :
            /\ queue'[e] \in Queued /\ queue'[e].body = queue[e].body
            /\ queue[e].sent => queue'[e].sent
            /\ queue'[e].status # "PENDING" => queue'[e].sent
      <4> SUFFICES ASSUME NEW e \in DOMAIN queue
                   PROVE  /\ queue'[e] \in Queued /\ queue'[e].body = queue[e].body
                          /\ queue[e].sent => queue'[e].sent
                          /\ queue'[e].status # "PENDING" => queue'[e].sent
        OBVIOUS
      <4>1. CASE queue'[e] = queue[e]
        BY <3>1, <3>4, <4>1
      <4>2. CASE e \in batch[d] /\ queue'[e] = [queue[e] EXCEPT !.status = Answer(e).status]
        BY <3>1, <3>2, <3>4, <3>5, <4>2 DEF Queued
      <4>3. QED
        BY <3>3, <4>1, <4>2
    <3>7. QED
      BY <2>3, <3>6 DEF ReceiveResults, OutboxStep
  <2>4. CASE RejectResults(d)
    BY <2>4, WithStatusStep DEF RejectResults, FailBatch, BatchInv
  <2>5. CASE NothingPending(d) \/ Pull(d) \/ ApplyPullPage(d)
    BY <2>5 DEF NothingPending, Pull, ApplyPullPage
  <2>6. QED
    BY <1>2, <2>1, <2>2, <2>3, <2>4, <2>5 DEF CycleStep
<1>3. ASSUME NEW d \in Device, FaultStep(d) PROVE UNCHANGED queue \/ OutboxStep
  <2>1. CASE ServerError(d)
    BY <2>1, WithStatusStep DEF ServerError, FailBatch, BatchInv
  <2>2. ASSUME NEW due \in BOOLEAN, Defer(d, due) PROVE OutboxStep
    BY <2>2, DeferStep, SentFact DEF OutboxStep
  <2>3. CASE Crash(d) \/ PullFails(d)
    BY <2>3 DEF Crash, PullFails
  <2>4. QED
    BY <1>3, <2>1, <2>2, <2>3 DEF FaultStep, LoseRequest, AuthRequired
<1>4. ASSUME NEW e \in DOMAIN queue, BecomesDue(e) PROVE OutboxStep
  <2>1. \A f \in DOMAIN queue : queue[f] \in Queued /\ (queue[f].status # "PENDING" => queue[f].sent)
    BY SentFact
  <2>2. queue' = [f \in DOMAIN queue |-> IF f = e THEN [queue[e] EXCEPT !.due = TRUE] ELSE queue[f]]
    BY <1>4, <2>1 DEF BecomesDue
  <2>3. \A f \in DOMAIN queue :
          /\ queue'[f] \in Queued /\ queue'[f].body = queue[f].body
          /\ queue[f].sent => queue'[f].sent
          /\ queue'[f].status # "PENDING" => queue'[f].sent
    BY <2>1, <2>2 DEF Queued
  <2>4. QED
    BY <2>2, <2>3 DEF OutboxStep
<1>5. ASSUME NEW d \in Device, Process(d) PROVE UNCHANGED queue
  BY <1>5 DEF Process
<1>6. ASSUME NEW bodies \in late, ProcessLate(bodies) \/ LoseLate(bodies) PROVE UNCHANGED queue
  BY <1>6 DEF ProcessLate, LoseLate
<1>7. CASE UNCHANGED vars
  BY <1>7 DEF vars
<1>8. QED
  BY <1>1, <1>2, <1>3, <1>4, <1>5, <1>6, <1>7 DEF Next

\* The events of an answered batch are decided, as they are in the outbox.
LEMMA AnswerDecided ==
  ASSUME TypeOK, QueueInv, LedgerInv, BatchInv, NEW d \in Device, Answered(d),
         NEW e \in batch[d]
  PROVE  /\ e \in EventsOf(d) /\ e \in DOMAIN queue /\ queue[e].status = "SYNCING"
         /\ ledger[e] # Undecided /\ ledger[e] \in Results
         /\ ledger[e].body = queue[e].body
         /\ Answer(e) = ledger[e]
<1>1. e \in EventsOf(d) /\ queue[e].status = "SYNCING" /\ ledger[e] # Undecided
  BY DEF Answered, BatchInv
<1>2. e \in DOMAIN queue
  BY <1>1 DEF EventsOf
<1>3. e \in Events
  BY <1>2, EventType
<1>4. ledger[e] \in Results /\ ledger[e].body.event = e
  BY <1>1, <1>3 DEF TypeOK, LedgerInv
<1>5. ledger[e].body \in Travelling
  BY <1>1, <1>3 DEF Travelling
<1>6. ledger[e].body = queue[e].body
  BY <1>4, <1>5 DEF QueueInv
<1>7. QED
  BY <1>1, <1>2, <1>4, <1>6 DEF Answer

LEMMA AfterAnswerType ==
  ASSUME NEW row \in LocalRows, NEW answer \in Results
  PROVE  AfterAnswer(row, answer) \in LocalRows
<1>1. CASE answer.status = "SYNCED"
  <2>1. /\ answer.row.version \in Nat /\ answer.sequence \in Nat
        /\ row.quantity \in Nat /\ row.trashed \in BOOLEAN
    BY DEF Results, Rows, LocalRows
  <2>2. AfterAnswer(row, answer) =
          Row("SERVER_SYNCED", answer.row.version, row.quantity, row.trashed, answer.sequence)
    BY <1>1 DEF AfterAnswer
  <2>3. QED
    BY <2>1, <2>2, RowType
<1>2. CASE /\ answer.status = "FAILED"
           /\ AfterAnswer(row, answer) = [row EXCEPT !.ownership = "FAILED"]
  BY <1>2 DEF LocalRows
<1>3. CASE AfterAnswer(row, answer) = row
  BY <1>3
<1>4. QED
  BY <1>1, <1>2, <1>3 DEF AfterAnswer

\* The last change of an adjustment in the pulled page exists.
LEMMA LastPulled ==
  ASSUME TypeOK, CursorInv, NEW d \in Device, phase[d] = "applying", NEW a \in Adjustment,
         Pulled(d, a) # {}
  PROVE  LET last == CHOOSE i \in Pulled(d, a) : \A j \in Pulled(d, a) : j <= i
         IN /\ last \in Pulled(d, a) /\ \A j \in Pulled(d, a) : j <= last
            /\ last \in DOMAIN feed /\ last \in Nat /\ last <= upto[d]
            /\ feed[last].adjustment = a /\ feed[last].row \in Rows
<1>1. /\ upto[d] \in Nat /\ cursor[d] \in Nat /\ upto[d] <= Len(feed)
      /\ feed \in Seq(Changes) /\ Len(feed) \in Nat /\ DOMAIN feed = 1 .. Len(feed)
  BY DEF TypeOK, CursorInv
<1>2. Pulled(d, a) \subseteq cursor[d] + 1 .. upto[d]
  BY DEF Pulled
<1> DEFINE T == {upto[d] - i : i \in Pulled(d, a)}
<1>3. T \subseteq Nat /\ T # {}
  BY <1>1, <1>2
<1>4. PICK x \in T : \A y \in T : x <= y
  <2> HIDE DEF T
  <2> QED
    BY <1>3, LeastExists
<1>5. PICK i \in Pulled(d, a) : x = upto[d] - i
  BY DEF T
<1>6. \A j \in Pulled(d, a) : upto[d] - i <= upto[d] - j
  BY <1>4, <1>5
<1>7. \A j \in Pulled(d, a) : j <= i
  BY <1>1, <1>2, <1>6
<1> DEFINE last == CHOOSE k \in Pulled(d, a) : \A j \in Pulled(d, a) : j <= k
<1>8. last \in Pulled(d, a) /\ \A j \in Pulled(d, a) : j <= last
  BY <1>7
<1> HIDE DEF last
<1>9. last \in DOMAIN feed /\ last \in Nat /\ last <= upto[d] /\ feed[last].adjustment = a
  BY <1>1, <1>2, <1>8 DEF Pulled
<1>10. feed[last].row \in Rows
  <2>1. feed[last] \in Changes
    BY <1>1, <1>9
  <2>2. QED
    BY <2>1 DEF Changes
<1>11. QED
  BY <1>8, <1>9, <1>10 DEF last

\* A pulled page changes only rows without local work, to what the feed says.
LEMMA MirroredCases ==
  ASSUME TypeOK, CursorInv, NEW d \in Device, phase[d] = "applying", NEW a \in Adjustment
  PROVE  \/ Mirrored(d, a) = local[d][a]
         \/ /\ local[d][a].ownership \in {"none", "SERVER_SYNCED"}
            /\ \E last \in DOMAIN feed :
                 /\ last \in Nat /\ feed[last].adjustment = a /\ feed[last].row \in Rows
                 /\ Mirrored(d, a) = Row("SERVER_SYNCED", feed[last].row.version,
                      feed[last].row.quantity, feed[last].row.trashed, last)
<1>1. CASE /\ local[d][a].ownership \in {"none", "SERVER_SYNCED"}
           /\ \E i \in Pulled(d, a) : i > local[d][a].sequence
  <2> DEFINE last == CHOOSE i \in Pulled(d, a) : \A j \in Pulled(d, a) : j <= i
  <2>1. last \in DOMAIN feed /\ last \in Nat /\ feed[last].adjustment = a /\ feed[last].row \in Rows
    BY <1>1, LastPulled
  <2>2. Mirrored(d, a) = Row("SERVER_SYNCED", feed[last].row.version,
                             feed[last].row.quantity, feed[last].row.trashed, last)
    BY <1>1 DEF Mirrored
  <2> HIDE DEF last
  <2>3. QED
    BY <1>1, <2>1, <2>2
<1>2. CASE ~ /\ local[d][a].ownership \in {"none", "SERVER_SYNCED"}
             /\ \E i \in Pulled(d, a) : i > local[d][a].sequence
  BY <1>2 DEF Mirrored
<1>3. QED
  BY <1>1, <1>2

\* The kinds of steps that change rows of devices.
LEMMA LocalKinds ==
  ASSUME TypeOK, [Next]_vars
  PROVE  \/ UNCHANGED local
         \/ \E d \in Device, a \in Adjustment, quantity \in Quantity : Create(d, a, quantity)
         \/ \E d \in Device, a \in Adjustment, quantity \in Nat, trashed \in BOOLEAN :
              Mutate(d, a, quantity, trashed)
         \/ \E d \in Device : \/ ClaimPendingBatch(d) \/ FailBatch(d)
                              \/ \E due \in BOOLEAN : Defer(d, due)
                              \/ ReceiveResults(d) \/ ApplyPullPage(d)
<1> USE DEF sqlite
<1>1. ASSUME NEW d \in Device, UserStep(d)
      PROVE  \/ \E a \in Adjustment, quantity \in Quantity : Create(d, a, quantity)
             \/ \E a \in Adjustment, quantity \in Nat, trashed \in BOOLEAN :
                  Mutate(d, a, quantity, trashed)
  BY <1>1, UserKinds
<1>2. ASSUME NEW d \in Device, CycleStep(d)
      PROVE  \/ UNCHANGED local
             \/ ClaimPendingBatch(d) \/ FailBatch(d) \/ ReceiveResults(d) \/ ApplyPullPage(d)
  BY <1>2 DEF CycleStep, StartCycle, NothingPending, RejectResults, Pull
<1>3. ASSUME NEW d \in Device, FaultStep(d)
      PROVE  UNCHANGED local \/ FailBatch(d) \/ \E due \in BOOLEAN : Defer(d, due)
  BY <1>3 DEF FaultStep, ServerError, LoseRequest, AuthRequired, Crash, PullFails
<1>4. ASSUME NEW e \in DOMAIN queue, BecomesDue(e) PROVE UNCHANGED local
  BY <1>4 DEF BecomesDue
<1>5. ASSUME NEW d \in Device, Process(d) PROVE UNCHANGED local
  BY <1>5 DEF Process
<1>6. ASSUME NEW bodies \in late, ProcessLate(bodies) \/ LoseLate(bodies) PROVE UNCHANGED local
  BY <1>6 DEF ProcessLate, LoseLate
<1>7. CASE UNCHANGED vars
  BY <1>7 DEF vars
<1>8. QED
  BY <1>1, <1>2, <1>3, <1>4, <1>5, <1>6, <1>7 DEF Next

LEMMA OutboxTypeStep ==
  ASSUME TypeOK, QueueInv, BatchInv, [Next]_vars
  PROVE  queue' \in Seq(Queued) /\ Len(queue') <= MaxEvents
<1>1. CASE UNCHANGED queue
  BY <1>1 DEF TypeOK
<1>2. CASE OutboxStep
  BY <1>2, OutboxShape
<1>3. ASSUME NEW d \in Device, NEW a \in Adjustment, NEW quantity \in Quantity, Create(d, a, quantity)
      PROVE  queue' \in Seq(Queued) /\ Len(queue') <= MaxEvents
  BY <1>3, EnqueueStep, SyncAssumption DEF Create, Operations
<1>4. ASSUME NEW d \in Device, NEW a \in Adjustment, NEW quantity \in Nat, NEW trashed \in BOOLEAN,
             Mutate(d, a, quantity, trashed)
      PROVE  queue' \in Seq(Queued) /\ Len(queue') <= MaxEvents
  <2>1. PICK base, next \in Nat :
          \/ Enqueue(d, a, "UPDATE", base, quantity, trashed)
          \/ \E e \in OpenEvents(d, a) : Coalesce(e, base, quantity, trashed)
    BY <1>4, MutateCases
  <2>2. OpenEvents(d, a) \subseteq DOMAIN queue
    BY DEF OpenEvents, EventsOf
  <2>3. QED
    BY <2>1, <2>2, EnqueueStep, CoalesceStep DEF Operations
<1>5. QED
  BY <1>1, <1>2, <1>3, <1>4, OutboxKinds

LEMMA LocalTypeStep ==
  ASSUME TypeOK, QueueInv, LedgerInv, BatchInv, CursorInv, [Next]_vars
  PROVE  local' \in [Device -> [Adjustment -> LocalRows]]
<1>1. local \in [Device -> [Adjustment -> LocalRows]]
  BY DEF TypeOK
<1>2. ASSUME NEW d \in Device, NEW a \in Adjustment, NEW quantity \in Quantity, Create(d, a, quantity)
      PROVE  local' \in [Device -> [Adjustment -> LocalRows]]
  <2>1. Row("LOCAL_PENDING", 0, quantity, FALSE, 0) \in LocalRows
    BY SyncAssumption, RowType
  <2>2. QED
    BY <1>1, <1>2, <2>1 DEF Create
<1>3. ASSUME NEW d \in Device, NEW a \in Adjustment, NEW quantity \in Nat, NEW trashed \in BOOLEAN,
             Mutate(d, a, quantity, trashed)
      PROVE  local' \in [Device -> [Adjustment -> LocalRows]]
  <2>1. PICK next \in Nat :
          local' = [local EXCEPT ![d][a] = Row("LOCAL_PENDING", next, quantity, trashed, 0)]
    BY <1>3, MutateCases
  <2>2. Row("LOCAL_PENDING", next, quantity, trashed, 0) \in LocalRows
    BY RowType
  <2>3. QED
    BY <1>1, <2>1, <2>2
<1>4. ASSUME NEW d \in Device, ClaimPendingBatch(d) \/ FailBatch(d) \/ \E due \in BOOLEAN : Defer(d, due)
      PROVE  local' \in [Device -> [Adjustment -> LocalRows]]
  BY <1>4, WithOwnershipStep DEF ClaimPendingBatch, FailBatch, Defer
<1>5. ASSUME NEW d \in Device, ReceiveResults(d)
      PROVE  local' \in [Device -> [Adjustment -> LocalRows]]
  <2> DEFINE Sent(a) == {e \in batch[d] : queue[e].body.adjustment = a}
             mine == [a \in Adjustment |->
               IF Sent(a) = {} THEN local[d][a]
               ELSE AfterAnswer(local[d][a], Answer(CHOOSE e \in Sent(a) : TRUE))]
  <2>1. \A e \in batch[d] : Answer(e) \in Results
    BY <1>5, AnswerDecided DEF ReceiveResults
  <2>2. \A a \in Adjustment : mine[a] \in LocalRows
    <3> SUFFICES ASSUME NEW a \in Adjustment PROVE mine[a] \in LocalRows
      OBVIOUS
    <3>1. local[d][a] \in LocalRows
      BY <1>1
    <3>2. Sent(a) # {} => (CHOOSE e \in Sent(a) : TRUE) \in batch[d]
      OBVIOUS
    <3>3. QED
      BY <2>1, <3>1, <3>2, AfterAnswerType
  <2>3. local' = [local EXCEPT ![d] = mine]
    BY <1>5 DEF ReceiveResults
  <2>4. mine \in [Adjustment -> LocalRows]
    BY <2>2
  <2> HIDE DEF mine
  <2>5. QED
    BY <1>1, <2>3, <2>4
<1>6. ASSUME NEW d \in Device, ApplyPullPage(d)
      PROVE  local' \in [Device -> [Adjustment -> LocalRows]]
  <2>1. \A a \in Adjustment : Mirrored(d, a) \in LocalRows
    <3> SUFFICES ASSUME NEW a \in Adjustment PROVE Mirrored(d, a) \in LocalRows
      OBVIOUS
    <3>1. local[d][a] \in LocalRows /\ phase[d] = "applying"
      BY <1>1, <1>6 DEF ApplyPullPage
    <3>2. CASE \E last \in DOMAIN feed :
                 /\ last \in Nat /\ feed[last].row \in Rows
                 /\ Mirrored(d, a) = Row("SERVER_SYNCED", feed[last].row.version,
                      feed[last].row.quantity, feed[last].row.trashed, last)
      BY <3>2, RowType DEF Rows
    <3>3. QED
      BY <3>1, <3>2, MirroredCases
  <2>2. QED
    BY <1>1, <1>6, <2>1 DEF ApplyPullPage
<1>7. QED
  BY <1>1, <1>2, <1>3, <1>4, <1>5, <1>6, LocalKinds

\* The steps of a device's cycle, as far as the cycle itself is concerned.
LEMMA CycleTypeStep ==
  ASSUME TypeOK, QueueInv, [Next]_vars
  PROVE  /\ cursor' \in [Device -> Nat]
         /\ phase' \in [Device -> {"idle", "claiming", "pushing", "pulling", "applying"}]
         /\ batch' \in [Device -> SUBSET Events]
         /\ request' \in [Device -> SUBSET Bodies]
         /\ upto' \in [Device -> Nat]
         /\ late' \subseteq SUBSET Bodies
         /\ faults' \in Nat
<1> DEFINE Goal == /\ cursor' \in [Device -> Nat]
                   /\ phase' \in [Device -> {"idle", "claiming", "pushing", "pulling", "applying"}]
                   /\ batch' \in [Device -> SUBSET Events]
                   /\ request' \in [Device -> SUBSET Bodies]
                   /\ upto' \in [Device -> Nat]
                   /\ late' \subseteq SUBSET Bodies
                   /\ faults' \in Nat
<1> SUFFICES Goal
  OBVIOUS
<1>1. /\ cursor \in [Device -> Nat]
      /\ phase \in [Device -> {"idle", "claiming", "pushing", "pulling", "applying"}]
      /\ batch \in [Device -> SUBSET Events]
      /\ request \in [Device -> SUBSET Bodies]
      /\ upto \in [Device -> Nat]
      /\ late \subseteq SUBSET Bodies
      /\ faults \in Nat /\ Len(feed) \in Nat
  BY DEF TypeOK
<1>2. CASE UNCHANGED <<cursor, cycle, late, faults>>
  BY <1>1, <1>2 DEF cycle
<1>3. ASSUME NEW d \in Device, UserStep(d) PROVE UNCHANGED <<cursor, cycle, late, faults>>
  BY <1>3 DEF UserStep, Create, Edit, SetTrashed, Mutate
<1>4. ASSUME NEW d \in Device,
             StartCycle(d) \/ NothingPending(d) \/ ReceiveResults(d) \/ Pull(d)
      PROVE  Goal
  BY <1>1, <1>4 DEF StartCycle, NothingPending, ReceiveResults, Pull, sqlite
<1>5. ASSUME NEW d \in Device, ClaimPendingBatch(d) PROVE Goal
  <2>1. PendingBatch(d) \subseteq DOMAIN queue
    BY DEF PendingBatch, Ready, EventsOf
  <2>2. PendingBatch(d) \subseteq Events /\ {queue[e].body : e \in PendingBatch(d)} \subseteq Bodies
    BY <2>1, EventType
  <2>3. QED
    BY <1>1, <1>5, <2>2 DEF ClaimPendingBatch
<1>6. ASSUME NEW d \in Device, EndCycle(d)
      PROVE  /\ phase' \in [Device -> {"idle", "claiming", "pushing", "pulling", "applying"}]
             /\ batch' \in [Device -> SUBSET Events]
             /\ request' \in [Device -> SUBSET Bodies]
             /\ upto' \in [Device -> Nat]
  BY <1>1, <1>6 DEF EndCycle
<1>7. ASSUME NEW d \in Device, ApplyPullPage(d) PROVE Goal
  BY <1>1, <1>6, <1>7 DEF ApplyPullPage
<1>8. ASSUME NEW d \in Device, RejectResults(d) \/ FaultStep(d) PROVE Goal
  <2>1. UNCHANGED cursor /\ EndCycle(d)
    BY <1>8 DEF RejectResults, FaultStep, ServerError, FailBatch, LoseRequest, AuthRequired,
      Defer, Crash, PullFails, sqlite
  <2>2. late' \subseteq late \cup {request[d]}
    BY <1>8 DEF RejectResults, FaultStep, ServerError, FailBatch, LoseRequest, AuthRequired,
      Defer, Crash, PullFails
  <2>3. faults' = faults \/ faults' = faults + 1
    <3>1. CASE RejectResults(d)
      BY <3>1 DEF RejectResults
    <3>2. CASE FaultStep(d)
      BY <3>2 DEF FaultStep, ServerError, LoseRequest, AuthRequired, Crash, PullFails, Fault
    <3>3. QED
      BY <1>8, <3>1, <3>2
  <2>4. late' \subseteq SUBSET Bodies
    BY <1>1, <2>2
  <2>5. QED
    BY <1>1, <1>6, <2>1, <2>3, <2>4
<1>9. ASSUME NEW d \in Device, Process(d) PROVE Goal
  BY <1>1, <1>9 DEF Process, sqlite
<1>10. ASSUME NEW bodies \in late, ProcessLate(bodies) \/ LoseLate(bodies) PROVE Goal
  <2>1. UNCHANGED <<cursor, cycle, faults>>
    BY <1>10 DEF ProcessLate, LoseLate, sqlite
  <2>2. late' \subseteq late \cup {bodies \ {First(bodies)}}
    BY <1>10 DEF ProcessLate, LoseLate
  <2>3. late' \subseteq SUBSET Bodies
    BY <1>1, <2>2
  <2>4. QED
    BY <1>1, <2>1, <2>3 DEF cycle
<1>11. ASSUME NEW e \in DOMAIN queue, BecomesDue(e) PROVE UNCHANGED <<cursor, cycle, late, faults>>
  BY <1>11 DEF BecomesDue
<1>12. CASE UNCHANGED vars
  BY <1>2, <1>12 DEF vars, sqlite
<1> HIDE DEF Goal
<1>13. QED
  BY <1>2, <1>3, <1>4, <1>5, <1>7, <1>8, <1>9, <1>10, <1>11, <1>12 DEF Next, CycleStep

LEMMA TypeStep ==
  ASSUME TypeOK, QueueInv, LedgerInv, BatchInv, CursorInv, [Next]_vars
  PROVE  TypeOK'
BY ServerTypeStep, OutboxTypeStep, LocalTypeStep, CycleTypeStep DEF TypeOK

-----------------------------------------------------------------------------
(* The events of the outbox, and their copies on the way.                  *)

\* Users change only events that never left the device.
LEMMA UserKeeps ==
  ASSUME TypeOK, NEW d \in Device, NEW a \in Adjustment, NEW quantity \in Nat,
         NEW trashed \in BOOLEAN,
         \/ quantity \in Quantity /\ Create(d, a, quantity)
         \/ Mutate(d, a, quantity, trashed),
         NEW e \in DOMAIN queue, queue[e].sent
  PROVE  e \in DOMAIN queue' /\ queue'[e] = queue[e]
<1>1. CASE Create(d, a, quantity)
  BY <1>1, EnqueueStep DEF Create, Operations
<1>2. CASE Mutate(d, a, quantity, trashed)
  <2>1. PICK base, next \in Nat :
          \/ Enqueue(d, a, "UPDATE", base, quantity, trashed)
          \/ \E f \in OpenEvents(d, a) : Coalesce(f, base, quantity, trashed)
    BY <1>2, MutateCases
  <2>2. OpenEvents(d, a) \subseteq DOMAIN queue
    BY DEF OpenEvents, EventsOf
  <2>3. CASE Enqueue(d, a, "UPDATE", base, quantity, trashed)
    BY <2>3, EnqueueStep DEF Operations
  <2>4. ASSUME NEW f \in OpenEvents(d, a), Coalesce(f, base, quantity, trashed)
        PROVE  e \in DOMAIN queue' /\ queue'[e] = queue[e]
    BY <2>2, <2>4, CoalesceStep
  <2>5. QED
    BY <2>1, <2>3, <2>4
<1>3. QED
  BY <1>1, <1>2

LEMMA SentKept ==
  ASSUME TypeOK, QueueInv, BatchInv, [Next]_vars,
         NEW e \in DOMAIN queue, queue[e].sent
  PROVE  e \in DOMAIN queue' /\ queue'[e].body = queue[e].body /\ queue'[e].sent
<1>1. CASE UNCHANGED queue
  BY <1>1
<1>2. CASE OutboxStep
  BY <1>2, OutboxShape DEF OutboxStep
<1>3. ASSUME NEW d \in Device, NEW a \in Adjustment, NEW quantity \in Quantity, Create(d, a, quantity)
      PROVE  e \in DOMAIN queue' /\ queue'[e] = queue[e]
  BY <1>3, UserKeeps, SyncAssumption
<1>4. ASSUME NEW d \in Device, NEW a \in Adjustment, NEW quantity \in Nat, NEW trashed \in BOOLEAN,
             Mutate(d, a, quantity, trashed)
      PROVE  e \in DOMAIN queue' /\ queue'[e] = queue[e]
  BY <1>4, UserKeeps
<1>5. QED
  BY <1>1, <1>2, <1>3, <1>4, OutboxKinds

\* Only a claim puts new bodies on the way.
LEMMA TravellingStep ==
  ASSUME TypeOK, QueueInv, [Next]_vars, NEW b \in Travelling'
  PROVE  \/ b \in Travelling
         \/ \E d \in Device : /\ ClaimPendingBatch(d)
                              /\ \E e \in PendingBatch(d) : b = queue[e].body
<1> DEFINE Goal == \/ b \in Travelling
                   \/ \E d \in Device : /\ ClaimPendingBatch(d)
                                        /\ \E e \in PendingBatch(d) : b = queue[e].body
<1> SUFFICES Goal
  OBVIOUS
<1>1. \/ \E bodies \in late' : b \in bodies
      \/ \E d \in Device : b \in request'[d]
      \/ \E e \in Events : ledger'[e] # Undecided /\ b = ledger'[e].body
  BY DEF Travelling
<1>2. /\ \A bodies \in late : bodies \subseteq Travelling
      /\ \A d \in Device : request[d] \subseteq Travelling
      /\ \A e \in Events : ledger[e] # Undecided => ledger[e].body \in Travelling
  BY DEF Travelling
<1> HIDE DEF Goal
<1>3. request \in [Device -> SUBSET Bodies]
  BY DEF TypeOK
<1>4. ASSUME NEW e \in Events, ledger'[e] # Undecided, b = ledger'[e].body
      PROVE  b \in Travelling
  <2>1. CASE UNCHANGED server
    BY <1>2, <1>4, <2>1 DEF server
  <2>2. ASSUME NEW c \in Bodies, c \in Travelling, Decide(c) PROVE b \in Travelling
    BY <1>2, <1>4, <2>2, DecideStep
  <2>3. QED
    BY <2>1, <2>2, ServerStep
<1>5. ASSUME NEW d \in Device, b \in request'[d] PROVE Goal
  <2>1. CASE UNCHANGED request
    BY <1>2, <1>5, <2>1 DEF Goal
  <2>2. ASSUME NEW c \in Device, UserStep(c) PROVE UNCHANGED request
    BY <2>2 DEF UserStep, Create, Edit, SetTrashed, Mutate, cycle
  <2>3. ASSUME NEW c \in Device, ClaimPendingBatch(c) PROVE Goal
    <3>1. request' = [request EXCEPT ![c] = {queue[e].body : e \in PendingBatch(c)}]
      BY <2>3 DEF ClaimPendingBatch
    <3>2. CASE c = d
      BY <1>3, <1>5, <2>3, <3>1, <3>2 DEF Goal
    <3>3. CASE c # d
      BY <1>2, <1>3, <1>5, <3>1, <3>3 DEF Goal
    <3>4. QED
      BY <3>2, <3>3
  <2>4. ASSUME NEW c \in Device, EndCycle(c) PROVE request'[d] \subseteq request[d]
    BY <1>3, <2>4 DEF EndCycle
  <2>5. ASSUME NEW c \in Device, Process(c) PROVE request'[d] \subseteq request[d]
    BY <1>3, <2>5 DEF Process
  <2>6. ASSUME NEW c \in Device, CycleStep(c), ~ClaimPendingBatch(c)
        PROVE  UNCHANGED request \/ EndCycle(c)
    BY <2>6 DEF CycleStep, StartCycle, NothingPending, ReceiveResults, RejectResults, FailBatch,
      Pull, ApplyPullPage
  <2>7. ASSUME NEW c \in Device, FaultStep(c) PROVE EndCycle(c)
    BY <2>7 DEF FaultStep, ServerError, FailBatch, LoseRequest, AuthRequired, Defer, Crash, PullFails
  <2>8. ASSUME NEW e \in DOMAIN queue, BecomesDue(e) PROVE UNCHANGED request
    BY <2>8 DEF BecomesDue, cycle
  <2>9. ASSUME NEW bodies \in late, ProcessLate(bodies) \/ LoseLate(bodies) PROVE UNCHANGED request
    BY <2>9 DEF ProcessLate, LoseLate, cycle
  <2>10. CASE UNCHANGED vars
    BY <2>1, <2>10 DEF vars, cycle
  <2>11. request'[d] \subseteq request[d] => Goal
    BY <1>2, <1>5 DEF Goal
  <2>12. QED
    BY <2>1, <2>2, <2>3, <2>4, <2>5, <2>6, <2>7, <2>8, <2>9, <2>10, <2>11 DEF Next
<1>6. ASSUME NEW bodies \in late', b \in bodies PROVE Goal
  <2>1. \/ late' \subseteq late
        \/ \E d \in Device : late' \subseteq late \cup {request[d]}
        \/ \E old \in late : late' \subseteq late \cup {old \ {First(old)}}
    <3>1. ASSUME NEW d \in Device, UserStep(d) PROVE late' = late
      BY <3>1 DEF UserStep, Create, Edit, SetTrashed, Mutate
    <3>2. ASSUME NEW d \in Device, CycleStep(d) \/ Process(d) PROVE late' = late
      BY <3>2 DEF CycleStep, Process, StartCycle, ClaimPendingBatch, NothingPending,
        ReceiveResults, RejectResults, FailBatch, Pull, ApplyPullPage
    <3>3. ASSUME NEW d \in Device, FaultStep(d) PROVE late' \subseteq late \cup {request[d]}
      BY <3>3 DEF FaultStep, ServerError, FailBatch, LoseRequest, AuthRequired, Crash, PullFails
    <3>4. ASSUME NEW old \in late, ProcessLate(old) \/ LoseLate(old)
          PROVE  late' \subseteq late \cup {old \ {First(old)}}
      BY <3>4 DEF ProcessLate, LoseLate
    <3>5. ASSUME NEW e \in DOMAIN queue, BecomesDue(e) PROVE late' = late
      BY <3>5 DEF BecomesDue
    <3>6. CASE UNCHANGED vars
      BY <3>6 DEF vars
    <3>7. QED
      BY <3>1, <3>2, <3>3, <3>4, <3>5, <3>6 DEF Next
  <2>2. QED
    BY <1>2, <1>6, <2>1 DEF Goal
<1>7. QED
  BY <1>1, <1>4, <1>5, <1>6 DEF Goal

LEMMA QueueStep ==
  ASSUME TypeOK, QueueInv, BatchInv, [Next]_vars
  PROVE  QueueInv'
<1>1. ASSUME NEW e \in DOMAIN queue'
      PROVE  queue'[e].body.event = e /\ (queue'[e].status # "PENDING" => queue'[e].sent)
  <2>1. CASE UNCHANGED queue
    BY <1>1, <2>1 DEF QueueInv
  <2>2. CASE OutboxStep
    BY <1>1, <2>2, OutboxShape DEF QueueInv, OutboxStep
  <2>3. ASSUME NEW d \in Device, NEW a \in Adjustment, NEW operation \in Operations,
               NEW base \in Nat, NEW quantity \in Nat, NEW trashed \in BOOLEAN,
               Enqueue(d, a, operation, base, quantity, trashed)
        PROVE  queue'[e].body.event = e /\ (queue'[e].status # "PENDING" => queue'[e].sent)
    <3>1. CASE e \in DOMAIN queue
      <4>1. queue'[e] = queue[e]
        BY <2>3, <3>1, EnqueueStep
      <4>2. QED
        BY <3>1, <4>1, SentFact
    <3>2. CASE e = Len(queue) + 1
      <4>1. queue'[e].body.event = e /\ queue'[e].status = "PENDING"
        BY <2>3, <3>2, EnqueueStep
      <4>2. QED
        BY <4>1
    <3>3. QED
      BY <1>1, <2>3, <3>1, <3>2, EnqueueStep
  <2>4. ASSUME NEW f \in DOMAIN queue, NEW base \in Nat, NEW quantity \in Nat, NEW trashed \in BOOLEAN,
               Coalesce(f, base, quantity, trashed)
        PROVE  queue'[e].body.event = e /\ (queue'[e].status # "PENDING" => queue'[e].sent)
    <3>1. CASE e # f
      <4>1. e \in DOMAIN queue /\ queue'[e] = queue[e]
        BY <1>1, <2>4, <3>1, CoalesceStep
      <4>2. QED
        BY <4>1, SentFact
    <3>2. CASE e = f
      <4>1. queue[f].body \in Bodies /\ queue[f].body.event = f
        BY EventType, SentFact
      <4>2. queue'[f].body.event = queue[f].body.event /\ queue'[f].status = "PENDING"
        BY <2>4, CoalesceStep
      <4>3. QED
        BY <3>2, <4>1, <4>2
    <3>3. QED
      BY <3>1, <3>2
  <2>5. ASSUME NEW d \in Device, NEW a \in Adjustment, NEW quantity \in Quantity, Create(d, a, quantity)
        PROVE  queue'[e].body.event = e /\ (queue'[e].status # "PENDING" => queue'[e].sent)
    BY <2>3, <2>5, SyncAssumption DEF Create, Operations
  <2>6. ASSUME NEW d \in Device, NEW a \in Adjustment, NEW quantity \in Nat,
               NEW trashed \in BOOLEAN, Mutate(d, a, quantity, trashed)
        PROVE  queue'[e].body.event = e /\ (queue'[e].status # "PENDING" => queue'[e].sent)
    <3>1. PICK base, next \in Nat :
            \/ Enqueue(d, a, "UPDATE", base, quantity, trashed)
            \/ \E f \in OpenEvents(d, a) : Coalesce(f, base, quantity, trashed)
      BY <2>6, MutateCases
    <3>2. OpenEvents(d, a) \subseteq DOMAIN queue
      BY DEF OpenEvents, EventsOf
    <3>3. QED
      BY <2>3, <2>4, <3>1, <3>2 DEF Operations
  <2>7. QED
    BY <2>1, <2>2, <2>5, <2>6, OutboxKinds
<1>2. ASSUME NEW b \in Travelling'
      PROVE  b.event \in DOMAIN queue' /\ queue'[b.event].body = b /\ queue'[b.event].sent
  <2>1. CASE b \in Travelling
    <3>1. b.event \in DOMAIN queue /\ queue[b.event].body = b /\ queue[b.event].sent
      BY <2>1 DEF QueueInv
    <3>2. QED
      BY <3>1, SentKept
  <2>2. ASSUME NEW d \in Device, ClaimPendingBatch(d), NEW e \in PendingBatch(d), b = queue[e].body
        PROVE  b.event \in DOMAIN queue' /\ queue'[b.event].body = b /\ queue'[b.event].sent
    <3>1. e \in DOMAIN queue
      BY DEF PendingBatch, Ready, EventsOf
    <3>2. b.event = e
      BY <2>2, <3>1 DEF QueueInv
    <3>3. queue' = [f \in DOMAIN queue |->
            IF f \in PendingBatch(d)
            THEN [queue[f] EXCEPT !.status = "SYNCING", !.sent = TRUE] ELSE queue[f]]
      BY <2>2 DEF ClaimPendingBatch
    <3>4. queue[e] \in Queued
      BY <3>1, EventType
    <3>5. queue'[e] = [queue[e] EXCEPT !.status = "SYNCING", !.sent = TRUE]
      BY <3>1, <3>3
    <3>6. QED
      BY <2>2, <3>1, <3>2, <3>3, <3>4, <3>5 DEF Queued
  <2>3. QED
    BY <2>1, <2>2, TravellingStep
<1>3. {} \notin late'
  <2>1. {} \notin late
    BY DEF QueueInv
  <2>2. ASSUME NEW d \in Device, UserStep(d) PROVE late' = late
    BY <2>2 DEF UserStep, Create, Edit, SetTrashed, Mutate
  <2>3. ASSUME NEW d \in Device, CycleStep(d) \/ Process(d) PROVE late' = late
    BY <2>3 DEF CycleStep, Process, StartCycle, ClaimPendingBatch, NothingPending,
      ReceiveResults, RejectResults, FailBatch, Pull, ApplyPullPage
  <2>4. ASSUME NEW d \in Device, FaultStep(d) PROVE {} \notin late'
    BY <2>1, <2>4 DEF FaultStep, ServerError, FailBatch, LoseRequest, AuthRequired, Crash, PullFails
  <2>5. ASSUME NEW old \in late, ProcessLate(old) \/ LoseLate(old) PROVE {} \notin late'
    BY <2>1, <2>5 DEF ProcessLate, LoseLate
  <2>6. ASSUME NEW e \in DOMAIN queue, BecomesDue(e) PROVE late' = late
    BY <2>6 DEF BecomesDue
  <2>7. CASE UNCHANGED vars
    BY <2>1, <2>7 DEF vars
  <2>8. QED
    BY <2>1, <2>2, <2>3, <2>4, <2>5, <2>6, <2>7 DEF Next
<1>4. QED
  BY <1>1, <1>2, <1>3 DEF QueueInv

-----------------------------------------------------------------------------
(* The server's results, the batches under way and the cursors.            *)

LEMMA LedgerStep ==
  ASSUME TypeOK, QueueInv, LedgerInv, [Next]_vars
  PROVE  LedgerInv'
<1>1. CASE UNCHANGED server
  BY <1>1 DEF LedgerInv, server
<1>2. ASSUME NEW b \in Bodies, Decide(b) PROVE LedgerInv'
  <2>1. SUFFICES ASSUME NEW e \in Events, ledger'[e] # Undecided
                 PROVE  /\ ledger'[e].body.event = e
                        /\ ledger'[e].status = "SYNCED" =>
                             /\ ledger'[e].sequence \in DOMAIN feed'
                             /\ feed'[ledger'[e].sequence] =
                                  [adjustment |-> ledger'[e].body.adjustment, row |-> ledger'[e].row]
    BY DEF LedgerInv
  <2>2. CASE ledger'[e] = ledger[e]
    <3>1. \A i \in DOMAIN feed : i \in DOMAIN feed' /\ feed'[i] = feed[i]
      BY <1>2, DecideStep
    <3>2. QED
      BY <2>1, <2>2, <3>1 DEF LedgerInv
  <2>3. CASE ledger'[e] # ledger[e]
    <3>1. e = b.event /\ ledger'[e].body = b
      BY <1>2, <2>3, DecideStep
    <3>2. ledger'[e].status = "SYNCED" =>
            /\ ledger'[e].sequence \in DOMAIN feed'
            /\ feed'[ledger'[e].sequence] = [adjustment |-> b.adjustment, row |-> ledger'[e].row]
      BY <1>2, <2>3, DecideStep
    <3>3. QED
      BY <3>1, <3>2
  <2>4. QED
    BY <2>2, <2>3
<1>3. QED
  BY <1>1, <1>2, ServerStep

\* Of the events of d, only steps of d and of its user change any.
LEMMA ForeignKept ==
  ASSUME TypeOK, QueueInv, BatchInv, NEW c \in Device, NEW d \in Device, c # d,
         CycleStep(c) \/ FaultStep(c) \/ Process(c), NEW e \in EventsOf(d)
  PROVE  e \in DOMAIN queue /\ e \in DOMAIN queue' /\ queue'[e] = queue[e]
<1>1. e \in DOMAIN queue /\ e \notin EventsOf(c)
  BY DEF EventsOf
<1>2. PendingBatch(c) \subseteq EventsOf(c) /\ batch[c] \subseteq EventsOf(c)
  BY DEF PendingBatch, Ready, BatchInv
<1>3. CASE CycleStep(c)
  <2>1. CASE StartCycle(c)
    BY <1>1, <2>1 DEF StartCycle, WithStatus
  <2>2. CASE ClaimPendingBatch(c)
    BY <1>1, <1>2, <2>2 DEF ClaimPendingBatch
  <2>3. CASE ReceiveResults(c)
    BY <1>1, <1>2, <2>3 DEF ReceiveResults
  <2>4. CASE RejectResults(c)
    BY <1>1, <1>2, <2>4 DEF RejectResults, FailBatch, WithStatus
  <2>5. CASE NothingPending(c) \/ Pull(c) \/ ApplyPullPage(c)
    BY <1>1, <2>5 DEF NothingPending, Pull, ApplyPullPage, sqlite
  <2>6. QED
    BY <1>3, <2>1, <2>2, <2>3, <2>4, <2>5 DEF CycleStep
<1>4. CASE FaultStep(c)
  <2>1. CASE ServerError(c)
    BY <1>1, <1>2, <2>1 DEF ServerError, FailBatch, WithStatus
  <2>2. ASSUME NEW due \in BOOLEAN, Defer(c, due) PROVE e \in DOMAIN queue' /\ queue'[e] = queue[e]
    BY <1>1, <1>2, <2>2 DEF Defer
  <2>3. CASE Crash(c) \/ PullFails(c)
    BY <1>1, <2>3 DEF Crash, PullFails, sqlite
  <2>4. QED
    BY <1>1, <1>4, <2>1, <2>2, <2>3 DEF FaultStep, LoseRequest, AuthRequired
<1>5. CASE Process(c)
  BY <1>1, <1>5 DEF Process, sqlite
<1>6. QED
  BY <1>1, <1>3, <1>4, <1>5

LEMMA BatchStep ==
  ASSUME TypeOK, QueueInv, LedgerInv, BatchInv, [Next]_vars
  PROVE  BatchInv'
<1> SUFFICES ASSUME NEW d \in Device
             PROVE  /\ phase'[d] # "pushing" => batch'[d] = {} /\ request'[d] = {}
                    /\ \A e \in batch'[d] :
                         /\ e \in EventsOf(d)' /\ queue'[e].status = "SYNCING"
                         /\ queue'[e].body \in request'[d] \/ ledger'[e] # Undecided
                    /\ \A b \in request'[d] : b.event \in batch'[d]
  BY DEF BatchInv
<1> DEFINE Goal == /\ phase'[d] # "pushing" => batch'[d] = {} /\ request'[d] = {}
                   /\ \A e \in batch'[d] :
                        /\ e \in EventsOf(d)' /\ queue'[e].status = "SYNCING"
                        /\ queue'[e].body \in request'[d] \/ ledger'[e] # Undecided
                   /\ \A b \in request'[d] : b.event \in batch'[d]
<1> SUFFICES Goal
  OBVIOUS
<1>1. /\ phase[d] # "pushing" => batch[d] = {} /\ request[d] = {}
      /\ \A e \in batch[d] :
           /\ e \in EventsOf(d) /\ queue[e].status = "SYNCING"
           /\ queue[e].body \in request[d] \/ ledger[e] # Undecided
      /\ \A b \in request[d] : b.event \in batch[d]
  BY DEF BatchInv
<1>2. \A e \in batch[d] : e \in DOMAIN queue /\ queue[e].body.device = d /\ e \in Events
  BY <1>1, EventType DEF EventsOf
<1>3. \A e \in batch[d] : queue[e].sent
  BY <1>1, <1>2, SentFact
<1>4. \A e \in Events : ledger[e] # Undecided => ledger'[e] # Undecided
  BY ServerTypeStep
<1>5. /\ DOMAIN phase = Device /\ DOMAIN batch = Device /\ DOMAIN request = Device
  BY DEF TypeOK
\* A step that touches neither the cycle of d nor its claimed events.
<1>6. ASSUME phase'[d] = phase[d], batch'[d] = batch[d], request'[d] = request[d],
             \A e \in batch[d] : e \in DOMAIN queue' /\ queue'[e].body = queue[e].body
                                   /\ queue'[e].status = queue[e].status
      PROVE  Goal
  <2>1. \A e \in batch[d] : e \in EventsOf(d)'
    BY <1>2, <1>6 DEF EventsOf
  <2>2. QED
    BY <1>1, <1>2, <1>4, <1>6, <2>1
<1>7. ASSUME batch'[d] = {}, request'[d] = {} PROVE Goal
  BY <1>7
<1> HIDE DEF Goal
<1>8. ASSUME NEW c \in Device, UserStep(c) PROVE Goal
  <2>1. UNCHANGED cycle
    BY <1>8 DEF UserStep, Create, Edit, SetTrashed, Mutate
  <2>2. \A e \in batch[d] : e \in DOMAIN queue' /\ queue'[e] = queue[e]
    <3>1. ASSUME NEW a \in Adjustment, NEW quantity \in Quantity, Create(c, a, quantity),
                 NEW e \in batch[d]
          PROVE  e \in DOMAIN queue' /\ queue'[e] = queue[e]
      BY <1>2, <1>3, <3>1, SyncAssumption, UserKeeps
    <3>2. ASSUME NEW a \in Adjustment, NEW quantity \in Nat, NEW trashed \in BOOLEAN,
                 Mutate(c, a, quantity, trashed), NEW e \in batch[d]
          PROVE  e \in DOMAIN queue' /\ queue'[e] = queue[e]
      BY <1>2, <1>3, <3>2, UserKeeps
    <3>3. QED
      BY <1>8, <3>1, <3>2, UserKinds
  <2>3. QED
    BY <1>6, <2>1, <2>2 DEF cycle
<1>9. ASSUME NEW c \in Device, c # d, CycleStep(c) \/ FaultStep(c) \/ Process(c) PROVE Goal
  <2>1. \A e \in batch[d] : e \in DOMAIN queue' /\ queue'[e] = queue[e]
    BY <1>1, <1>9, ForeignKept
  <2>2. ASSUME EndCycle(c)
        PROVE  phase'[d] = phase[d] /\ batch'[d] = batch[d] /\ request'[d] = request[d]
    BY <1>5, <1>9, <2>2 DEF EndCycle
  <2>3. CASE CycleStep(c)
    <3>1. phase'[d] = phase[d]
      BY <1>5, <1>9, <2>2, <2>3 DEF CycleStep, StartCycle, ClaimPendingBatch, NothingPending,
        ReceiveResults, RejectResults, FailBatch, Pull, ApplyPullPage
    <3>2. batch'[d] = batch[d] /\ request'[d] = request[d]
      BY <1>5, <1>9, <2>2, <2>3 DEF CycleStep, StartCycle, ClaimPendingBatch, NothingPending,
        ReceiveResults, RejectResults, FailBatch, Pull, ApplyPullPage
    <3>3. QED
      BY <1>6, <2>1, <3>1, <3>2
  <2>4. CASE FaultStep(c)
    <3>1. EndCycle(c)
      BY <2>4 DEF FaultStep, ServerError, FailBatch, LoseRequest, AuthRequired, Defer, Crash, PullFails
    <3>2. QED
      BY <1>6, <2>1, <2>2, <3>1
  <2>5. CASE Process(c)
    <3>1. phase'[d] = phase[d] /\ batch'[d] = batch[d] /\ request'[d] = request[d]
      BY <1>5, <1>9, <2>5 DEF Process
    <3>2. QED
      BY <1>6, <2>1, <3>1
  <2>6. QED
    BY <1>9, <2>3, <2>4, <2>5
<1>10. CASE StartCycle(d) \/ NothingPending(d) \/ Pull(d) \/ ReceiveResults(d)
  <2>1. phase[d] # "pushing" => batch[d] = {} /\ request[d] = {}
    BY <1>1
  <2>2. batch'[d] = {} /\ request'[d] = {}
    BY <1>5, <1>10, <2>1 DEF StartCycle, NothingPending, Pull, ReceiveResults, Answered
  <2>3. QED
    BY <1>7, <2>2
<1>11. CASE RejectResults(d) \/ ApplyPullPage(d) \/ FaultStep(d)
  <2>1. EndCycle(d)
    BY <1>11 DEF RejectResults, ApplyPullPage, FaultStep, ServerError, FailBatch, LoseRequest,
      AuthRequired, Defer, Crash, PullFails
  <2>2. batch'[d] = {} /\ request'[d] = {}
    BY <1>5, <2>1 DEF EndCycle
  <2>3. QED
    BY <1>7, <2>2
<1>12. CASE ClaimPendingBatch(d)
  <2>1. /\ phase'[d] = "pushing" /\ batch'[d] = PendingBatch(d)
        /\ request'[d] = {queue[e].body : e \in PendingBatch(d)}
        /\ queue' = [e \in DOMAIN queue |->
             IF e \in PendingBatch(d)
             THEN [queue[e] EXCEPT !.status = "SYNCING", !.sent = TRUE] ELSE queue[e]]
    BY <1>5, <1>12 DEF ClaimPendingBatch
  <2>2. PendingBatch(d) \subseteq DOMAIN queue /\ \A e \in PendingBatch(d) : queue[e].body.device = d
    BY DEF PendingBatch, Ready, EventsOf
  <2>3. \A e \in PendingBatch(d) : queue[e] \in Queued /\ queue[e].body.event = e
    BY <2>2, SentFact
  <2>4. \A e \in PendingBatch(d) : /\ e \in DOMAIN queue' /\ queue'[e].body = queue[e].body
                                   /\ queue'[e].status = "SYNCING"
    <3> SUFFICES ASSUME NEW e \in PendingBatch(d)
                 PROVE  /\ e \in DOMAIN queue' /\ queue'[e].body = queue[e].body
                        /\ queue'[e].status = "SYNCING"
      OBVIOUS
    <3>1. e \in DOMAIN queue' /\ queue'[e] = [queue[e] EXCEPT !.status = "SYNCING", !.sent = TRUE]
      BY <2>1, <2>2
    <3>2. QED
      BY <2>3, <3>1 DEF Queued
  <2>5. ASSUME NEW e \in PendingBatch(d) PROVE e \in EventsOf(d)'
    <3>1. e \in DOMAIN queue' /\ queue'[e].body.device = d
      BY <2>2, <2>4
    <3>2. QED
      BY <3>1 DEF EventsOf
  <2>6. QED
    BY <2>1, <2>3, <2>4, <2>5 DEF Goal
<1>13. CASE Process(d)
  <2> DEFINE b == First(request[d])
  <2>1. request[d] \subseteq Bodies /\ request[d] # {}
    BY <1>13 DEF TypeOK, Process
  <2>2. b \in request[d] /\ b \in Bodies
    BY <2>1, FirstIsElement
  <2>3. /\ Decide(b) /\ UNCHANGED <<queue, phase, batch>>
        /\ request'[d] = request[d] \ {b}
    BY <1>5, <1>13 DEF Process, sqlite
  <2>4. ledger'[b.event] # Undecided
    BY <2>2, <2>3, DecideStep
  <2>5. \A e \in batch[d] : queue[e].body.event = e
    BY <1>2, SentFact
  <2> HIDE DEF b
  <2>6. \A e \in batch[d] : queue[e].body \in request'[d] \/ ledger'[e] # Undecided
    BY <1>1, <1>2, <1>4, <2>3, <2>4, <2>5
  <2>7. \A e \in batch[d] : e \in EventsOf(d)'
    BY <1>1, <2>3 DEF EventsOf
  <2>8. phase[d] = "pushing"
    BY <1>1, <2>2
  <2>9. QED
    BY <1>1, <2>3, <2>6, <2>7, <2>8 DEF Goal
<1>14. ASSUME NEW e \in DOMAIN queue, BecomesDue(e) PROVE Goal
  <2>1. UNCHANGED cycle
    BY <1>14 DEF BecomesDue
  <2>2. \A f \in batch[d] : /\ f \in DOMAIN queue' /\ queue'[f].body = queue[f].body
                            /\ queue'[f].status = queue[f].status
    <3>1. \A f \in DOMAIN queue : queue[f] \in Queued
      BY EventType
    <3>2. queue' = [queue EXCEPT ![e] = [queue[e] EXCEPT !.due = TRUE]]
      BY <1>14 DEF BecomesDue
    <3>3. QED
      BY <1>2, <3>1, <3>2 DEF Queued
  <2>3. QED
    BY <1>6, <2>1, <2>2 DEF cycle
<1>15. ASSUME NEW bodies \in late, ProcessLate(bodies) \/ LoseLate(bodies) PROVE Goal
  BY <1>2, <1>6, <1>15 DEF ProcessLate, LoseLate, sqlite, cycle
<1>16. CASE UNCHANGED vars
  <2>1. UNCHANGED queue /\ UNCHANGED <<phase, batch, request>>
    BY <1>16 DEF vars, sqlite, cycle
  <2>2. QED
    BY <1>2, <1>6, <2>1
<1>17. ASSUME NEW c \in Device, CycleStep(c) \/ FaultStep(c) \/ Process(c) PROVE Goal
  BY <1>9, <1>10, <1>11, <1>12, <1>13, <1>17 DEF CycleStep
<1>18. QED
  BY <1>8, <1>14, <1>15, <1>16, <1>17 DEF Next

LEMMA CursorStep ==
  ASSUME TypeOK, QueueInv, CursorInv, [Next]_vars
  PROVE  CursorInv'
<1> SUFFICES ASSUME NEW d \in Device
             PROVE  /\ cursor'[d] <= Len(feed')
                    /\ phase'[d] = "applying" => upto'[d] <= Len(feed')
  BY DEF CursorInv
<1>1. /\ cursor \in [Device -> Nat] /\ upto \in [Device -> Nat] /\ DOMAIN phase = Device
      /\ cursor[d] <= Len(feed) /\ (phase[d] = "applying" => upto[d] <= Len(feed))
  BY DEF TypeOK, CursorInv
<1>2. Len(feed) \in Nat /\ Len(feed') \in Nat /\ Len(feed) <= Len(feed')
  BY ServerTypeStep
<1> DEFINE Goal == /\ cursor'[d] <= Len(feed')
                   /\ phase'[d] = "applying" => upto'[d] <= Len(feed')
<1> SUFFICES Goal
  OBVIOUS
<1>3. ASSUME cursor'[d] = cursor[d],
             phase'[d] # "applying" \/ (phase'[d] = phase[d] /\ upto'[d] = upto[d])
      PROVE  Goal
  BY <1>1, <1>2, <1>3
<1>4. ASSUME NEW c \in Device, UserStep(c) PROVE UNCHANGED <<cursor, cycle>>
  BY <1>4 DEF UserStep, Create, Edit, SetTrashed, Mutate
<1>5. ASSUME NEW c \in Device, EndCycle(c), UNCHANGED cursor PROVE Goal
  <2>1. phase'[d] # "applying" \/ (phase'[d] = phase[d] /\ upto'[d] = upto[d])
    BY <1>1, <1>5 DEF EndCycle
  <2>2. QED
    BY <1>3, <1>5, <2>1
<1>6. ASSUME NEW c \in Device,
             \/ StartCycle(c) \/ ClaimPendingBatch(c) \/ NothingPending(c) \/ ReceiveResults(c)
             \/ Process(c)
      PROVE  Goal
  <2>1. cursor' = cursor
    BY <1>6 DEF StartCycle, ClaimPendingBatch, NothingPending, ReceiveResults, Process, sqlite
  <2>2. phase'[d] # "applying" \/ (phase'[d] = phase[d] /\ upto'[d] = upto[d])
    BY <1>1, <1>6 DEF StartCycle, ClaimPendingBatch, NothingPending, ReceiveResults, Process
  <2>3. QED
    BY <1>3, <2>1, <2>2
<1>7. ASSUME NEW c \in Device, RejectResults(c) \/ FaultStep(c) PROVE Goal
  BY <1>5, <1>7 DEF RejectResults, FaultStep, ServerError, FailBatch, LoseRequest, AuthRequired,
    Defer, Crash, PullFails, sqlite
<1>8. ASSUME NEW c \in Device, Pull(c) PROVE Goal
  <2>1. UNCHANGED <<feed, cursor>> /\ phase' = [phase EXCEPT ![c] = "applying"]
        /\ upto' = [upto EXCEPT ![c] = Len(feed)]
    BY <1>8 DEF Pull, server, sqlite
  <2>2. QED
    BY <1>1, <1>2, <2>1
<1>9. ASSUME NEW c \in Device, ApplyPullPage(c) PROVE Goal
  <2>1. /\ phase[c] = "applying" /\ UNCHANGED feed /\ phase' = [phase EXCEPT ![c] = "idle"]
        /\ cursor' = [cursor EXCEPT ![c] = upto[c]] /\ upto' = [upto EXCEPT ![c] = 0]
    BY <1>9 DEF ApplyPullPage, EndCycle, server
  <2>2. QED
    BY <1>1, <1>2, <2>1
<1>10. ASSUME NEW e \in DOMAIN queue, BecomesDue(e) PROVE UNCHANGED <<cursor, cycle>>
  BY <1>10 DEF BecomesDue
<1>11. ASSUME NEW bodies \in late, ProcessLate(bodies) \/ LoseLate(bodies)
       PROVE  UNCHANGED <<cursor, cycle>>
  BY <1>11 DEF ProcessLate, LoseLate, sqlite
<1>12. CASE UNCHANGED vars
  BY <1>3, <1>12 DEF vars, sqlite, cycle
<1>13. CASE UNCHANGED <<cursor, cycle>>
  BY <1>3, <1>13 DEF cycle
<1> HIDE DEF Goal
<1>14. ASSUME NEW c \in Device, CycleStep(c) PROVE Goal
  BY <1>6, <1>7, <1>8, <1>9, <1>14 DEF CycleStep
<1>15. ASSUME NEW c \in Device, UserStep(c) \/ FaultStep(c) \/ Process(c) PROVE Goal
  BY <1>4, <1>6, <1>7, <1>13, <1>15
<1>16. QED
  BY <1>10, <1>11, <1>12, <1>13, <1>14, <1>15 DEF Next

-----------------------------------------------------------------------------
(* What the outbox says of an event, and what the server decided.          *)

\* Where the status of an event comes from.
LEMMA StatusCases ==
  ASSUME TypeOK, QueueInv, BatchInv, [Next]_vars, NEW e \in DOMAIN queue'
  PROVE  \/ queue'[e].status \in {"PENDING", "SYNCING"}
         \/ e \in DOMAIN queue /\ queue'[e].status = queue[e].status
         \/ \E d \in Device : /\ Answered(d) /\ e \in batch[d]
                              /\ queue'[e].status = Answer(e).status
         \/ /\ queue'[e].status = "FAILED"
            /\ \E d \in Device : e \in batch[d] /\ (Answered(d) \/ "error" \in Faults)
<1> DEFINE Goal ==
         \/ queue'[e].status \in {"PENDING", "SYNCING"}
         \/ e \in DOMAIN queue /\ queue'[e].status = queue[e].status
         \/ \E d \in Device : /\ Answered(d) /\ e \in batch[d]
                              /\ queue'[e].status = Answer(e).status
         \/ /\ queue'[e].status = "FAILED"
            /\ \E d \in Device : e \in batch[d] /\ (Answered(d) \/ "error" \in Faults)
<1> SUFFICES Goal
  OBVIOUS
<1>1. e \in DOMAIN queue => queue[e] \in Queued
  BY EventType
<1>2. UNCHANGED queue => Goal
  OBVIOUS
<1>3. ASSUME NEW d \in Device, NEW a \in Adjustment, NEW operation \in Operations,
             NEW base \in Nat, NEW quantity \in Nat, NEW trashed \in BOOLEAN,
             Enqueue(d, a, operation, base, quantity, trashed)
      PROVE  Goal
  <2>1. CASE e \in DOMAIN queue
    BY <1>3, <2>1, EnqueueStep
  <2>2. CASE e = Len(queue) + 1
    <3>1. queue'[e].status = "PENDING"
      BY <1>3, <2>2, EnqueueStep
    <3>2. QED
      BY <3>1
  <2>3. QED
    BY <1>3, <2>1, <2>2, EnqueueStep
<1>4. ASSUME NEW f \in DOMAIN queue, NEW base \in Nat, NEW quantity \in Nat, NEW trashed \in BOOLEAN,
             Coalesce(f, base, quantity, trashed)
      PROVE  Goal
  <2>1. e \in DOMAIN queue
    BY <1>4, CoalesceStep
  <2>2. queue'[e].status = queue[e].status
    BY <1>4, <2>1, CoalesceStep
  <2>3. QED
    BY <2>1, <2>2
<1>5. ASSUME NEW events, NEW status \in {"PENDING", "SYNCING", "FAILED"},
             queue' = WithStatus(events, status)
      PROVE  /\ e \in DOMAIN queue
             /\ queue'[e].status = queue[e].status \/ (e \in events /\ queue'[e].status = status)
  BY <1>1, <1>5 DEF WithStatus, Queued
<1>6. ASSUME NEW d \in Device, StartCycle(d) PROVE Goal
  BY <1>5, <1>6 DEF StartCycle
<1>7. ASSUME NEW d \in Device, ClaimPendingBatch(d) PROVE Goal
  BY <1>1, <1>7 DEF ClaimPendingBatch, Queued
<1>8. ASSUME NEW d \in Device, ReceiveResults(d) PROVE Goal
  <2>1. e \in DOMAIN queue /\ Answered(d)
    BY <1>8 DEF ReceiveResults
  <2>2. queue'[e] = queue[e] \/ (e \in batch[d] /\ queue'[e] = [queue[e] EXCEPT !.status = Answer(e).status])
    BY <1>8 DEF ReceiveResults
  <2>3. QED
    BY <1>1, <2>1, <2>2 DEF Queued
<1>9. ASSUME NEW d \in Device, FailBatch(d), Answered(d) \/ "error" \in Faults PROVE Goal
  BY <1>5, <1>9 DEF FailBatch
<1>10. ASSUME NEW d \in Device, NEW due \in BOOLEAN, Defer(d, due) PROVE Goal
  BY <1>1, <1>10, DeferStep
<1>11. ASSUME NEW f \in DOMAIN queue, BecomesDue(f) PROVE Goal
  <2>1. queue' = [queue EXCEPT ![f] = [queue[f] EXCEPT !.due = TRUE]]
    BY <1>11 DEF BecomesDue
  <2>2. e \in DOMAIN queue /\ (queue'[e] = queue[e] \/ queue'[e] = [queue[e] EXCEPT !.due = TRUE])
    BY <2>1
  <2>3. QED
    BY <1>1, <2>2 DEF Queued
<1> HIDE DEF Goal
<1>12. ASSUME NEW d \in Device, UserStep(d) PROVE Goal
  <2>1. ASSUME NEW a \in Adjustment, NEW quantity \in Quantity, Create(d, a, quantity) PROVE Goal
    BY <1>3, <2>1, SyncAssumption DEF Create, Operations
  <2>2. ASSUME NEW a \in Adjustment, NEW quantity \in Nat, NEW trashed \in BOOLEAN,
               Mutate(d, a, quantity, trashed)
        PROVE  Goal
    <3>1. PICK base, next \in Nat :
            \/ Enqueue(d, a, "UPDATE", base, quantity, trashed)
            \/ \E f \in OpenEvents(d, a) : Coalesce(f, base, quantity, trashed)
      BY <2>2, MutateCases
    <3>2. OpenEvents(d, a) \subseteq DOMAIN queue
      BY DEF OpenEvents, EventsOf
    <3>3. QED
      BY <1>3, <1>4, <3>1, <3>2 DEF Operations
  <2>3. QED
    BY <1>12, <2>1, <2>2, UserKinds
<1>13. ASSUME NEW d \in Device, CycleStep(d) PROVE Goal
  <2>1. ASSUME NothingPending(d) \/ Pull(d) \/ ApplyPullPage(d) PROVE UNCHANGED queue
    BY <2>1 DEF NothingPending, Pull, ApplyPullPage, sqlite
  <2>2. ASSUME RejectResults(d) PROVE Goal
    BY <1>9, <2>2 DEF RejectResults
  <2>3. QED
    BY <1>2, <1>6, <1>7, <1>8, <1>13, <2>1, <2>2 DEF CycleStep
<1>14. ASSUME NEW d \in Device, FaultStep(d) PROVE Goal
  <2>1. ASSUME ServerError(d) PROVE Goal
    BY <1>9, <2>1 DEF ServerError, Fault
  <2>2. ASSUME LoseRequest(d) \/ AuthRequired(d) PROVE Goal
    BY <1>10, <2>2 DEF LoseRequest, AuthRequired
  <2>3. ASSUME Crash(d) \/ PullFails(d) PROVE Goal
    BY <1>2, <2>3 DEF Crash, PullFails, sqlite
  <2>4. QED
    BY <1>14, <2>1, <2>2, <2>3 DEF FaultStep
<1>15. ASSUME NEW d \in Device, Process(d) PROVE Goal
  BY <1>2, <1>15 DEF Process, sqlite
<1>16. ASSUME NEW bodies \in late, ProcessLate(bodies) \/ LoseLate(bodies) PROVE Goal
  BY <1>2, <1>16 DEF ProcessLate, LoseLate, sqlite
<1>17. CASE UNCHANGED vars
  BY <1>2, <1>17 DEF vars, sqlite
<1>18. QED
  BY <1>11, <1>12, <1>13, <1>14, <1>15, <1>16, <1>17 DEF Next

LEMMA VerdictsStep ==
  ASSUME TypeOK, QueueInv, LedgerInv, BatchInv, VerdictsAgree, [Next]_vars
  PROVE  VerdictsAgree'
<1> SUFFICES ASSUME NEW e \in DOMAIN queue', queue'[e].status \in {"SYNCED", "CONFLICT"}
             PROVE  ledger'[e].status = queue'[e].status
  BY DEF VerdictsAgree
<1>1. \A f \in DOMAIN queue : ledger[f] # Undecided => ledger'[f] = ledger[f]
  BY ServerTypeStep, EventType
<1>2. CASE e \in DOMAIN queue /\ queue'[e].status = queue[e].status
  <2>1. ledger[e].status = queue[e].status /\ ledger[e] # Undecided
    BY <1>2 DEF VerdictsAgree, Undecided
  <2>2. QED
    BY <1>1, <1>2, <2>1
<1>3. CASE \E d \in Device : Answered(d) /\ e \in batch[d] /\ queue'[e].status = Answer(e).status
  <2>1. PICK d \in Device : Answered(d) /\ e \in batch[d] /\ queue'[e].status = Answer(e).status
    BY <1>3
  <2>2. e \in DOMAIN queue /\ Answer(e) = ledger[e] /\ ledger[e] # Undecided
    BY <2>1, AnswerDecided
  <2>3. QED
    BY <1>1, <2>1, <2>2
<1>4. QED
  BY <1>2, <1>3, StatusCases

LEMMA UndecidedStep ==
  ASSUME TypeOK, QueueInv, LedgerInv, BatchInv, UndecidedStaysQueued, [Next]_vars,
         "error" \notin Faults
  PROVE  UndecidedStaysQueued'
<1> SUFFICES ASSUME NEW e \in DOMAIN queue', ledger'[e] = Undecided
             PROVE  queue'[e].status \in {"PENDING", "SYNCING"}
  BY DEF UndecidedStaysQueued
<1>1. \A f \in DOMAIN queue : ledger[f] # Undecided => ledger'[f] = ledger[f]
  BY ServerTypeStep, EventType
<1>2. \A d \in Device : Answered(d) => \A f \in batch[d] : f \in DOMAIN queue /\ ledger[f] # Undecided
  BY AnswerDecided
<1>3. e \in DOMAIN queue => ledger[e] = Undecided
  BY <1>1
<1>4. ~\E d \in Device : Answered(d) /\ e \in batch[d]
  BY <1>2, <1>3
<1>5. CASE e \in DOMAIN queue /\ queue'[e].status = queue[e].status
  BY <1>3, <1>5 DEF UndecidedStaysQueued
<1>6. QED
  BY <1>4, <1>5, StatusCases

-----------------------------------------------------------------------------
(* The rows the devices show.                                              *)

\* What the answers do to the rows of d.
LEMMA AnsweredRows ==
  ASSUME TypeOK, QueueInv, LedgerInv, BatchInv, NEW d \in Device, ReceiveResults(d),
         NEW a \in Adjustment
  PROVE  \/ local'[d][a] = local[d][a] /\ \A e \in batch[d] : queue[e].body.adjustment # a
         \/ \E e \in batch[d] :
              /\ queue[e].body.adjustment = a
              /\ local'[d][a] = AfterAnswer(local[d][a], ledger[e])
              /\ ledger[e].status = "SYNCED" => EchoMatches(d, e)
<1> DEFINE Sent(b) == {e \in batch[d] : queue[e].body.adjustment = b}
           mine == [b \in Adjustment |->
             IF Sent(b) = {} THEN local[d][b]
             ELSE AfterAnswer(local[d][b], Answer(CHOOSE e \in Sent(b) : TRUE))]
<1>1. \A e \in batch[d] : Answer(e) = ledger[e]
  BY AnswerDecided DEF ReceiveResults
<1>2. \A e \in batch[d] : ledger[e].status = "SYNCED" => EchoMatches(d, e)
  BY <1>1 DEF ReceiveResults, ResultsFit
<1>3. local' = [local EXCEPT ![d] = mine]
  BY DEF ReceiveResults
<1>4. local'[d][a] = mine[a]
  BY <1>3 DEF TypeOK
<1>5. CASE Sent(a) = {}
  BY <1>4, <1>5
<1>6. CASE Sent(a) # {}
  <2> DEFINE e == CHOOSE e \in Sent(a) : TRUE
  <2>1. e \in Sent(a)
    BY <1>6
  <2>2. mine[a] = AfterAnswer(local[d][a], Answer(e))
    BY <1>6
  <2>3. e \in batch[d] /\ queue[e].body.adjustment = a
    BY <2>1
  <2> HIDE DEF e, mine
  <2>4. QED
    BY <1>1, <1>2, <1>4, <2>2, <2>3
<1>7. QED
  BY <1>5, <1>6

\* Rows of other devices stay.
LEMMA OtherRows ==
  ASSUME TypeOK, NEW c \in Device, NEW d \in Device, c # d,
         ReceiveResults(c) \/ ApplyPullPage(c)
  PROVE  local'[d] = local[d]
BY DEF TypeOK, ReceiveResults, ApplyPullPage

LEMMA ShownStep ==
  ASSUME TypeOK, QueueInv, LedgerInv, BatchInv, CursorInv, ShownIsRecorded, [Next]_vars
  PROVE  ShownIsRecorded'
<1> SUFFICES ASSUME NEW d \in Device, NEW a \in Adjustment,
                    local'[d][a].ownership = "SERVER_SYNCED"
             PROVE  /\ local'[d][a].sequence \in DOMAIN feed'
                    /\ feed'[local'[d][a].sequence] = [adjustment |-> a,
                         row |-> [version |-> local'[d][a].version, quantity |-> local'[d][a].quantity,
                                  trashed |-> local'[d][a].trashed]]
  BY DEF ShownIsRecorded
<1>1. \A i \in DOMAIN feed : i \in DOMAIN feed' /\ feed'[i] = feed[i]
  BY ServerTypeStep
<1>2. CASE local'[d][a] = local[d][a]
  BY <1>1, <1>2 DEF ShownIsRecorded
<1>3. local \in [Device -> [Adjustment -> LocalRows]]
  BY DEF TypeOK
<1>4. CASE UNCHANGED local
  BY <1>2, <1>4
<1>5. ASSUME NEW c \in Device, NEW b \in Adjustment, NEW version \in Nat, NEW quantity \in Nat,
             NEW trashed \in BOOLEAN,
             local' = [local EXCEPT ![c][b] = Row("LOCAL_PENDING", version, quantity, trashed, 0)]
      PROVE  local'[d][a] = local[d][a]
  <2> DEFINE row == Row("LOCAL_PENDING", version, quantity, trashed, 0)
  <2>1. row \in LocalRows /\ row.ownership # "SERVER_SYNCED"
    BY RowType DEF Row
  <2>2. local' = [local EXCEPT ![c][b] = row]
    BY <1>5
  <2> HIDE DEF row
  <2>3. /\ local'[c][b] = row
        /\ \A e \in Device, f \in Adjustment : e # c \/ f # b => local'[e][f] = local[e][f]
    BY <1>3, <2>1, <2>2, LocalChange
  <2>4. QED
    BY <2>1, <2>3
<1>6. ASSUME NEW c \in Device, NEW b \in Adjustment, NEW quantity \in Quantity, Create(c, b, quantity)
      PROVE  local'[d][a] = local[d][a]
  BY <1>5, <1>6, SyncAssumption DEF Create
<1>7. ASSUME NEW c \in Device, NEW b \in Adjustment, NEW quantity \in Nat, NEW trashed \in BOOLEAN,
             Mutate(c, b, quantity, trashed)
      PROVE  local'[d][a] = local[d][a]
  BY <1>5, <1>7, MutateCases
<1>8. ASSUME NEW c \in Device,
             ClaimPendingBatch(c) \/ FailBatch(c) \/ \E due \in BOOLEAN : Defer(c, due)
      PROVE  local'[d][a] = local[d][a]
  <2>1. \/ local' = WithOwnership(c, PendingBatch(c), "SYNCING")
        \/ \E ownership \in {"LOCAL_PENDING", "FAILED"} :
             local' = WithOwnership(c, batch[c], ownership)
    BY <1>8 DEF ClaimPendingBatch, FailBatch, Defer
  <2>2. \/ local'[d][a] = local[d][a]
        \/ \E ownership \in {"LOCAL_PENDING", "SYNCING", "FAILED"} :
             local'[d][a] = [local[d][a] EXCEPT !.ownership = ownership]
    BY <2>1, WithOwnershipStep
  <2>3. local[d][a] \in LocalRows
    BY <1>3
  <2>4. QED
    BY <2>2, <2>3 DEF LocalRows
<1>9. CASE ReceiveResults(d)
  <2>1. ASSUME NEW e \in batch[d], queue[e].body.adjustment = a,
               local'[d][a] = AfterAnswer(local[d][a], ledger[e]),
               ledger[e].status = "SYNCED" => EchoMatches(d, e)
        PROVE  /\ local'[d][a].sequence \in DOMAIN feed'
               /\ feed'[local'[d][a].sequence] = [adjustment |-> a,
                    row |-> [version |-> local'[d][a].version, quantity |-> local'[d][a].quantity,
                             trashed |-> local'[d][a].trashed]]
    <3>1. /\ e \in DOMAIN queue /\ ledger[e] # Undecided /\ ledger[e] \in Results
          /\ ledger[e].body = queue[e].body /\ Answer(e) = ledger[e]
      BY <1>9, AnswerDecided DEF ReceiveResults
    <3>2. e \in Events
      BY <3>1, EventType
    <3>3. CASE ledger[e].status = "SYNCED"
      <4>1. ledger[e].row \in Rows
        BY <3>1 DEF Results
      <4>2. /\ ledger[e].row.quantity = local[d][a].quantity
            /\ ledger[e].row.trashed = local[d][a].trashed
        BY <2>1, <3>1, <3>3 DEF EchoMatches
      <4>3. /\ ledger[e].sequence \in DOMAIN feed
            /\ feed[ledger[e].sequence] = [adjustment |-> a, row |-> ledger[e].row]
        BY <2>1, <3>1, <3>2, <3>3 DEF LedgerInv
      <4>4. local'[d][a] = Row("SERVER_SYNCED", ledger[e].row.version, local[d][a].quantity,
                               local[d][a].trashed, ledger[e].sequence)
        BY <2>1, <3>3 DEF AfterAnswer
      <4>5. /\ local'[d][a].version = ledger[e].row.version
            /\ local'[d][a].quantity = ledger[e].row.quantity
            /\ local'[d][a].trashed = ledger[e].row.trashed
            /\ local'[d][a].sequence = ledger[e].sequence
        BY <4>2, <4>4 DEF Row
      <4>6. ledger[e].row = [version |-> ledger[e].row.version, quantity |-> ledger[e].row.quantity,
                             trashed |-> ledger[e].row.trashed]
        BY <4>1 DEF Rows
      <4>7. QED
        BY <1>1, <4>3, <4>5, <4>6
    <3>4. CASE ledger[e].status # "SYNCED"
      <4>1. local[d][a] \in LocalRows
        BY <1>3
      <4>2. \/ local'[d][a] = local[d][a]
            \/ local'[d][a] = [local[d][a] EXCEPT !.ownership = "FAILED"]
        BY <2>1, <3>4 DEF AfterAnswer
      <4>3. local'[d][a] = local[d][a]
        BY <4>1, <4>2 DEF LocalRows
      <4>4. QED
        BY <1>2, <4>3
    <3>5. QED
      BY <3>3, <3>4
  <2>2. QED
    BY <1>2, <1>9, <2>1, AnsweredRows
<1>10. CASE ApplyPullPage(d)
  <2>1. local'[d][a] = Mirrored(d, a) /\ phase[d] = "applying"
    BY <1>3, <1>10 DEF ApplyPullPage
  <2>2. ASSUME NEW last \in DOMAIN feed, last \in Nat, feed[last].adjustment = a,
               feed[last].row \in Rows,
               Mirrored(d, a) = Row("SERVER_SYNCED", feed[last].row.version,
                                    feed[last].row.quantity, feed[last].row.trashed, last)
        PROVE  /\ local'[d][a].sequence \in DOMAIN feed'
               /\ feed'[local'[d][a].sequence] = [adjustment |-> a,
                    row |-> [version |-> local'[d][a].version, quantity |-> local'[d][a].quantity,
                             trashed |-> local'[d][a].trashed]]
    <3>1. /\ local'[d][a].version = feed[last].row.version
          /\ local'[d][a].quantity = feed[last].row.quantity
          /\ local'[d][a].trashed = feed[last].row.trashed
          /\ local'[d][a].sequence = last
      BY <2>1, <2>2 DEF Row
    <3>2. feed[last].row = [version |-> feed[last].row.version, quantity |-> feed[last].row.quantity,
                            trashed |-> feed[last].row.trashed]
      BY <2>2 DEF Rows
    <3>3. feed[last] \in Changes
      BY <2>2 DEF TypeOK
    <3>4. feed[last] = [adjustment |-> a, row |-> feed[last].row]
      BY <2>2, <3>3 DEF Changes
    <3>5. QED
      BY <1>1, <2>2, <3>1, <3>2, <3>4
  <2>3. QED
    BY <1>2, <2>1, <2>2, MirroredCases
<1>11. ASSUME NEW c \in Device, c # d, ReceiveResults(c) \/ ApplyPullPage(c)
       PROVE  local'[d][a] = local[d][a]
  BY <1>11, OtherRows
<1>12. QED
  BY <1>2, <1>4, <1>6, <1>7, <1>8, <1>9, <1>10, <1>11, LocalKinds

\* Local work of d on a: the relation LocalWorkIsQueued states of every row.
WorkQueued(d, a) ==
  LET row  == local[d][a]
      open == OpenEvents(d, a)
  IN IF row.ownership \in {"none", "SERVER_SYNCED"} THEN open = {}
     ELSE \E e \in open :
            /\ open = {e}
            /\ queue[e].body.quantity = row.quantity /\ queue[e].body.trashed = row.trashed
            /\ row.version = IF queue[e].body.operation = "CREATE" THEN 0
                             ELSE queue[e].body.base + 1

\* The relation outlives a step that keeps the open events and their bodies,
\* and of the row all but its ownership.
LEMMA WorkKept ==
  ASSUME TypeOK, NEW d \in Device, NEW a \in Adjustment, WorkQueued(d, a),
         OpenEvents(d, a)' = OpenEvents(d, a),
         \A e \in OpenEvents(d, a) : queue'[e].body = queue[e].body,
         \/ local'[d][a] = local[d][a]
         \/ /\ local[d][a].ownership \in {"LOCAL_PENDING", "SYNCING"}
            /\ \E ownership \in {"LOCAL_PENDING", "SYNCING", "FAILED"} :
                 local'[d][a] = [local[d][a] EXCEPT !.ownership = ownership]
  PROVE  WorkQueued(d, a)'
<1>1. local[d][a] \in LocalRows
  BY DEF TypeOK
<1>2. /\ local'[d][a].quantity = local[d][a].quantity /\ local'[d][a].trashed = local[d][a].trashed
      /\ local'[d][a].version = local[d][a].version
      /\ local'[d][a].ownership \in {"none", "SERVER_SYNCED"}
           <=> local[d][a].ownership \in {"none", "SERVER_SYNCED"}
  BY <1>1 DEF LocalRows
<1>3. CASE local[d][a].ownership \in {"none", "SERVER_SYNCED"}
  BY <1>2, <1>3 DEF WorkQueued
<1>4. CASE local[d][a].ownership \notin {"none", "SERVER_SYNCED"}
  <2>1. PICK e \in OpenEvents(d, a) :
          /\ OpenEvents(d, a) = {e}
          /\ queue[e].body.quantity = local[d][a].quantity
          /\ queue[e].body.trashed = local[d][a].trashed
          /\ local[d][a].version = IF queue[e].body.operation = "CREATE" THEN 0
                                   ELSE queue[e].body.base + 1
    BY <1>4 DEF WorkQueued
  <2>2. /\ OpenEvents(d, a)' = {e} /\ queue'[e].body = queue[e].body
    BY <2>1
  <2>3. QED
    BY <1>2, <1>4, <2>1, <2>2 DEF WorkQueued
<1>5. QED
  BY <1>3, <1>4

\* A step of the outbox in which no event becomes SYNCED or stops being it.
LEMMA OpenKept ==
  ASSUME TypeOK, NEW d \in Device, NEW a \in Adjustment,
         DOMAIN queue' = DOMAIN queue,
         \A e \in DOMAIN queue :
           /\ queue'[e].body.device = queue[e].body.device
           /\ queue'[e].body.adjustment = queue[e].body.adjustment
           /\ queue'[e].status = "SYNCED" <=> queue[e].status = "SYNCED"
  PROVE  OpenEvents(d, a)' = OpenEvents(d, a)
BY DEF OpenEvents, EventsOf

LEMMA StatusKeepsWork ==
  ASSUME TypeOK, NEW d \in Device, NEW a \in Adjustment, WorkQueued(d, a),
         DOMAIN queue' = DOMAIN queue,
         \A e \in DOMAIN queue :
           /\ queue'[e].body = queue[e].body
           /\ queue'[e].status = "SYNCED" <=> queue[e].status = "SYNCED",
         \/ local'[d][a] = local[d][a]
         \/ /\ local[d][a].ownership \in {"LOCAL_PENDING", "SYNCING"}
            /\ \E ownership \in {"LOCAL_PENDING", "SYNCING", "FAILED"} :
                 local'[d][a] = [local[d][a] EXCEPT !.ownership = ownership]
  PROVE  WorkQueued(d, a)'
<1>1. OpenEvents(d, a)' = OpenEvents(d, a)
  BY OpenKept
<1>2. OpenEvents(d, a) \subseteq DOMAIN queue
  BY DEF OpenEvents, EventsOf
<1>3. \A e \in OpenEvents(d, a) : queue'[e].body = queue[e].body
  BY <1>2
<1>4. QED
  BY <1>1, <1>3, WorkKept

\* A step that changes the row of b on c, and no other.
OnlyRow(c, b) ==
  \A d \in Device, a \in Adjustment : d # c \/ a # b => local'[d][a] = local[d][a]

\* Event e says what the row of b on c says.
Says(e, c, b) ==
  /\ queue[e].body.quantity = local[c][b].quantity /\ queue[e].body.trashed = local[c][b].trashed
  /\ local[c][b].version = IF queue[e].body.operation = "CREATE" THEN 0
                           ELSE queue[e].body.base + 1

\* After a user's change the row waits with a new event, or with the one it had.
LEMMA EnqueueWork ==
  ASSUME TypeOK, NEW c \in Device, NEW b \in Adjustment, NEW n, n \notin DOMAIN queue,
         \A e : e \in DOMAIN queue' <=> e \in DOMAIN queue \/ e = n,
         \A e \in DOMAIN queue : queue'[e] = queue[e],
         queue'[n].body.device = c, queue'[n].body.adjustment = b, queue'[n].status = "PENDING",
         OpenEvents(c, b) = {}, OnlyRow(c, b), local'[c][b].ownership = "LOCAL_PENDING",
         Says(n, c, b)',
         NEW d \in Device, NEW a \in Adjustment, WorkQueued(d, a)
  PROVE  WorkQueued(d, a)'
<1>1. CASE d = c /\ a = b
  <2>1. \A e : e \in OpenEvents(d, a)' <=> e = n
    BY <1>1 DEF OpenEvents, EventsOf
  <2>2. OpenEvents(d, a)' = {n}
    BY <2>1
  <2>3. QED
    BY <1>1, <2>2 DEF WorkQueued, Says
<1>2. CASE ~(d = c /\ a = b)
  <2>1. \A e : e \in OpenEvents(d, a)' <=> e \in OpenEvents(d, a)
    BY <1>2 DEF OpenEvents, EventsOf
  <2>2. OpenEvents(d, a)' = OpenEvents(d, a)
    BY <2>1
  <2>3. \A e \in OpenEvents(d, a) : queue'[e].body = queue[e].body
    BY DEF OpenEvents, EventsOf
  <2>4. local'[d][a] = local[d][a]
    BY <1>2 DEF OnlyRow
  <2>5. QED
    BY <2>2, <2>3, <2>4, WorkKept
<1>3. QED
  BY <1>1, <1>2

LEMMA CoalesceWork ==
  ASSUME TypeOK, NEW c \in Device, NEW b \in Adjustment, NEW e, OpenEvents(c, b) = {e},
         DOMAIN queue' = DOMAIN queue,
         \A f \in DOMAIN queue : f # e => queue'[f] = queue[f],
         queue'[e].body.device = queue[e].body.device,
         queue'[e].body.adjustment = queue[e].body.adjustment,
         queue'[e].status = "PENDING",
         OnlyRow(c, b), local'[c][b].ownership = "LOCAL_PENDING", Says(e, c, b)',
         NEW d \in Device, NEW a \in Adjustment, WorkQueued(d, a)
  PROVE  WorkQueued(d, a)'
<1>1. e \in DOMAIN queue /\ queue[e].body.device = c /\ queue[e].body.adjustment = b
      /\ queue[e].status # "SYNCED"
  BY DEF OpenEvents, EventsOf
<1>2. OpenEvents(d, a)' = OpenEvents(d, a)
  <2>1. \A f \in DOMAIN queue :
          /\ queue'[f].body.device = queue[f].body.device
          /\ queue'[f].body.adjustment = queue[f].body.adjustment
          /\ queue'[f].status = "SYNCED" <=> queue[f].status = "SYNCED"
    BY <1>1
  <2>2. QED
    BY <2>1, OpenKept
<1>3. CASE d = c /\ a = b
  BY <1>2, <1>3 DEF WorkQueued, Says
<1>4. CASE ~(d = c /\ a = b)
  <2>1. e \notin OpenEvents(d, a)
    BY <1>1, <1>4 DEF OpenEvents, EventsOf
  <2>2. \A f \in OpenEvents(d, a) : queue'[f].body = queue[f].body
    BY <2>1 DEF OpenEvents, EventsOf
  <2>3. local'[d][a] = local[d][a]
    BY <1>4 DEF OnlyRow
  <2>4. QED
    BY <1>2, <2>2, <2>3, WorkKept
<1>5. QED
  BY <1>3, <1>4

\* The row a user changes.
LEMMA ChangedRow ==
  ASSUME TypeOK, NEW c \in Device, NEW b \in Adjustment, NEW next \in Nat,
         NEW quantity \in Nat, NEW trashed \in BOOLEAN,
         local' = [local EXCEPT ![c][b] = Row("LOCAL_PENDING", next, quantity, trashed, 0)]
  PROVE  /\ OnlyRow(c, b) /\ local'[c][b].ownership = "LOCAL_PENDING"
         /\ local'[c][b].version = next /\ local'[c][b].quantity = quantity
         /\ local'[c][b].trashed = trashed
<1> DEFINE row == Row("LOCAL_PENDING", next, quantity, trashed, 0)
<1>1. /\ row.ownership = "LOCAL_PENDING" /\ row.version = next
      /\ row.quantity = quantity /\ row.trashed = trashed
  BY DEF Row
<1>2. row \in LocalRows
  BY RowType
<1>3. local' = [local EXCEPT ![c][b] = row]
  OBVIOUS
<1> HIDE DEF row
<1>4. /\ local'[c][b] = row
      /\ \A d \in Device, a \in Adjustment : d # c \/ a # b => local'[d][a] = local[d][a]
  BY <1>2, <1>3, LocalChange DEF TypeOK
<1>5. QED
  BY <1>1, <1>4 DEF OnlyRow

LEMMA CreateWork ==
  ASSUME TypeOK, NEW c \in Device, NEW b \in Adjustment, NEW quantity \in Quantity,
         Create(c, b, quantity), WorkQueued(c, b),
         NEW d \in Device, NEW a \in Adjustment, WorkQueued(d, a)
  PROVE  WorkQueued(d, a)'
<1>0. PICK n : n = Len(queue) + 1
  OBVIOUS
<1>1. OpenEvents(c, b) = {}
  BY DEF Create, Missing, WorkQueued
<1>2. quantity \in Nat /\ Enqueue(c, b, "CREATE", 0, quantity, FALSE) /\ "CREATE" \in Operations
  BY SyncAssumption DEF Create, Operations
<1>3. /\ n \notin DOMAIN queue
      /\ \A e \in DOMAIN queue : queue'[e] = queue[e]
      /\ queue'[n].body.device = c /\ queue'[n].body.adjustment = b /\ queue'[n].status = "PENDING"
      /\ queue'[n].body.operation = "CREATE" /\ queue'[n].body.quantity = quantity
      /\ queue'[n].body.trashed = FALSE
  BY <1>0, <1>2, EnqueueStep
<1>4. \A e : e \in DOMAIN queue' <=> e \in DOMAIN queue \/ e = n
  BY <1>0, <1>2, EnqueueStep
<1>5. /\ OnlyRow(c, b) /\ local'[c][b].ownership = "LOCAL_PENDING"
      /\ local'[c][b].version = 0 /\ local'[c][b].quantity = quantity
      /\ local'[c][b].trashed = FALSE
  BY <1>2, ChangedRow DEF Create
<1>6. Says(n, c, b)'
  BY <1>3, <1>5 DEF Says
<1>7. QED
  BY <1>1, <1>3, <1>4, <1>5, <1>6, EnqueueWork

LEMMA MutateWork ==
  ASSUME TypeOK, NEW c \in Device, NEW b \in Adjustment, NEW quantity \in Nat,
         NEW trashed \in BOOLEAN, Mutate(c, b, quantity, trashed), WorkQueued(c, b),
         NEW d \in Device, NEW a \in Adjustment, WorkQueued(d, a)
  PROVE  WorkQueued(d, a)'
<1>1. PICK base, next \in Nat :
        /\ local' = [local EXCEPT ![c][b] = Row("LOCAL_PENDING", next, quantity, trashed, 0)]
        /\ \/ /\ local[c][b].ownership = "SERVER_SYNCED" /\ next = local[c][b].version + 1
              /\ base = local[c][b].version
           \/ /\ local[c][b].ownership = "LOCAL_PENDING" /\ next = local[c][b].version
        /\ \/ /\ OpenEvents(c, b) = {} /\ local[c][b].ownership = "SERVER_SYNCED"
              /\ Enqueue(c, b, "UPDATE", base, quantity, trashed)
           \/ \E e \in OpenEvents(c, b) : /\ OpenEvents(c, b) = {e}
                                          /\ Coalesce(e, base, quantity, trashed)
  BY MutateCases
<1>2. /\ OnlyRow(c, b) /\ local'[c][b].ownership = "LOCAL_PENDING"
      /\ local'[c][b].version = next /\ local'[c][b].quantity = quantity
      /\ local'[c][b].trashed = trashed
  <2>1. PICK row : row = Row("LOCAL_PENDING", next, quantity, trashed, 0)
    OBVIOUS
  <2>2. /\ row.ownership = "LOCAL_PENDING" /\ row.version = next
        /\ row.quantity = quantity /\ row.trashed = trashed
    BY <2>1 DEF Row
  <2>3. row \in LocalRows
    BY <1>1, <2>1, RowType
  <2>4. local' = [local EXCEPT ![c][b] = row]
    BY <1>1, <2>1
  <2>5. /\ local'[c][b] = row
        /\ \A e \in Device, f \in Adjustment : e # c \/ f # b => local'[e][f] = local[e][f]
    BY <2>3, <2>4, LocalChange DEF TypeOK
  <2>6. OnlyRow(c, b)
    BY <2>5 DEF OnlyRow
  <2>7. QED
    BY <2>2, <2>5, <2>6
<1>3. CASE /\ OpenEvents(c, b) = {} /\ local[c][b].ownership = "SERVER_SYNCED"
           /\ Enqueue(c, b, "UPDATE", base, quantity, trashed)
  <2>0. PICK n : n = Len(queue) + 1
    OBVIOUS
  <2>1. "UPDATE" \in Operations
    BY DEF Operations
  <2>2. /\ n \notin DOMAIN queue
        /\ \A e \in DOMAIN queue : queue'[e] = queue[e]
        /\ queue'[n].body.device = c /\ queue'[n].body.adjustment = b /\ queue'[n].status = "PENDING"
        /\ queue'[n].body.operation = "UPDATE" /\ queue'[n].body.base = base
        /\ queue'[n].body.quantity = quantity /\ queue'[n].body.trashed = trashed
    BY <1>3, <2>0, <2>1, EnqueueStep
  <2>3. \A e : e \in DOMAIN queue' <=> e \in DOMAIN queue \/ e = n
    BY <1>3, <2>0, <2>1, EnqueueStep
  <2>4. next = base + 1
    BY <1>1, <1>3
  <2>5. Says(n, c, b)'
    BY <1>2, <2>2, <2>4 DEF Says
  <2>6. QED
    BY <1>2, <1>3, <2>2, <2>3, <2>5, EnqueueWork
<1>4. ASSUME NEW e \in OpenEvents(c, b), OpenEvents(c, b) = {e},
             Coalesce(e, base, quantity, trashed)
      PROVE  WorkQueued(d, a)'
  <2>1. e \in DOMAIN queue
    BY DEF OpenEvents, EventsOf
  <2>2. /\ DOMAIN queue' = DOMAIN queue
        /\ \A f \in DOMAIN queue : f # e => queue'[f] = queue[f]
        /\ queue'[e].body.device = queue[e].body.device
        /\ queue'[e].body.adjustment = queue[e].body.adjustment
        /\ queue'[e].body.operation = queue[e].body.operation
        /\ queue'[e].body.base = queue[e].body.base
        /\ queue'[e].body.quantity = quantity /\ queue'[e].body.trashed = trashed
        /\ queue'[e].status = "PENDING"
    <3>1. DOMAIN queue' = DOMAIN queue /\ \A f \in DOMAIN queue : f # e => queue'[f] = queue[f]
      BY <1>4, <2>1, CoalesceStep
    <3>2. queue'[e].body.device = queue[e].body.device
      BY <1>4, <2>1, CoalesceStep
    <3>3. queue'[e].body.trashed = trashed
      BY <1>4, <2>1, CoalesceStep
    <3>4. queue'[e].body.adjustment = queue[e].body.adjustment
      BY <1>4, <2>1, CoalesceStep
    <3>5. queue'[e].body.operation = queue[e].body.operation
      BY <1>4, <2>1, CoalesceStep
    <3>6. queue'[e].body.base = queue[e].body.base
      BY <1>4, <2>1, CoalesceStep
    <3>7. queue'[e].body.quantity = quantity
      BY <1>4, <2>1, CoalesceStep
    <3>8. queue'[e].status = "PENDING"
      BY <1>4, <2>1, CoalesceStep
    <3>9. QED
      BY <3>1, <3>2, <3>3, <3>4, <3>5, <3>6, <3>7, <3>8
  <2>3. /\ local[c][b].ownership \notin {"none", "SERVER_SYNCED"}
        /\ local[c][b].version = IF queue[e].body.operation = "CREATE" THEN 0
                                 ELSE queue[e].body.base + 1
    BY <1>4 DEF WorkQueued
  <2>4. next = local[c][b].version
    BY <1>1, <2>3
  <2>5. Says(e, c, b)'
    BY <1>2, <2>2, <2>3, <2>4 DEF Says
  <2>6. QED
    BY <1>2, <1>4, <2>2, <2>5, CoalesceWork
<1>5. QED
  BY <1>1, <1>3, <1>4

LEMMA AnsweredWork ==
  ASSUME TypeOK, QueueInv, LedgerInv, BatchInv, NEW c \in Device, ReceiveResults(c),
         NEW d \in Device, NEW a \in Adjustment, WorkQueued(d, a)
  PROVE  WorkQueued(d, a)'
<1>1. /\ DOMAIN queue' = DOMAIN queue
      /\ \A e \in DOMAIN queue :
           queue'[e] = IF e \in batch[c] THEN [queue[e] EXCEPT !.status = Answer(e).status]
                       ELSE queue[e]
  BY DEF ReceiveResults
<1>2. \A e \in batch[c] : /\ e \in DOMAIN queue /\ queue[e].body.device = c
                          /\ queue[e].status = "SYNCING" /\ Answer(e) = ledger[e]
                          /\ ledger[e] \in Results
  BY AnswerDecided DEF ReceiveResults, EventsOf
<1>3. \A e \in DOMAIN queue : queue[e] \in Queued
  BY EventType
<1>4. \A e \in DOMAIN queue :
        /\ queue'[e].body = queue[e].body
        /\ e \in batch[c] => queue'[e].status = ledger[e].status
        /\ e \notin batch[c] => queue'[e].status = queue[e].status
  BY <1>1, <1>2, <1>3 DEF Queued
\* The answers leave the events of the row alone.
<1>5. ASSUME local'[d][a] = local[d][a], \A e \in batch[c] : e \notin OpenEvents(d, a)
      PROVE  WorkQueued(d, a)'
  <2>1. \A e \in batch[c] : ~(queue[e].body.device = d /\ queue[e].body.adjustment = a)
    BY <1>2, <1>5 DEF OpenEvents, EventsOf
  <2>2. \A e : e \in OpenEvents(d, a)' <=> e \in OpenEvents(d, a)
    BY <1>1, <1>4, <2>1 DEF OpenEvents, EventsOf
  <2>3. OpenEvents(d, a)' = OpenEvents(d, a)
    BY <2>2
  <2>4. \A e \in OpenEvents(d, a) : queue'[e].body = queue[e].body
    BY <1>4 DEF OpenEvents, EventsOf
  <2>5. QED
    BY <1>5, <2>3, <2>4, WorkKept
<1>6. CASE c # d
  <2>1. local'[d][a] = local[d][a]
    BY <1>6, OtherRows
  <2>2. \A e \in batch[c] : e \notin OpenEvents(d, a)
    BY <1>2, <1>6 DEF OpenEvents, EventsOf
  <2>3. QED
    BY <1>5, <2>1, <2>2
<1>7. CASE c = d /\ local'[d][a] = local[d][a] /\ \A e \in batch[d] : queue[e].body.adjustment # a
  <2>1. \A e \in batch[c] : e \notin OpenEvents(d, a)
    BY <1>7 DEF OpenEvents
  <2>2. QED
    BY <1>5, <1>7, <2>1
<1>8. ASSUME c = d, NEW e \in batch[d], queue[e].body.adjustment = a,
             local'[d][a] = AfterAnswer(local[d][a], ledger[e])
      PROVE  WorkQueued(d, a)'
  <2>1. e \in OpenEvents(d, a) /\ e \in DOMAIN queue
    BY <1>2, <1>8 DEF OpenEvents, EventsOf
  <2>2. local[d][a].ownership \notin {"none", "SERVER_SYNCED"} /\ OpenEvents(d, a) = {e}
    BY <2>1 DEF WorkQueued
  <2>3. queue'[e].status = ledger[e].status /\ ledger[e].status \in {"SYNCED", "CONFLICT", "FAILED"}
    BY <1>2, <1>4, <1>8, <2>1 DEF Results
  <2>4. \A f \in DOMAIN queue : f # e =>
          ~(queue[f].body.device = d /\ queue[f].body.adjustment = a /\ queue[f].status # "SYNCED")
    BY <2>2 DEF OpenEvents, EventsOf
  <2>5. \A f \in batch[c] : f # e => queue[f].body.adjustment # a
    BY <1>2, <1>8, <2>4
  <2>6. \A f : f \in OpenEvents(d, a)' <=> f = e /\ ledger[e].status # "SYNCED"
    BY <1>1, <1>4, <2>1, <2>3, <2>4, <2>5 DEF OpenEvents, EventsOf
  <2>7. CASE ledger[e].status = "SYNCED"
    <3>1. OpenEvents(d, a)' = {}
      BY <2>6, <2>7
    <3>2. local'[d][a].ownership = "SERVER_SYNCED"
      BY <1>8, <2>7 DEF AfterAnswer, Row
    <3>3. QED
      BY <3>1, <3>2 DEF WorkQueued
  <2>8. CASE ledger[e].status # "SYNCED"
    <3>1. OpenEvents(d, a)' = OpenEvents(d, a)
      BY <2>2, <2>6, <2>8
    <3>2. \A f \in OpenEvents(d, a) : queue'[f].body = queue[f].body
      BY <1>4, <2>1, <2>2
    <3>3. \/ local'[d][a] = local[d][a]
          \/ /\ local[d][a].ownership \in {"LOCAL_PENDING", "SYNCING"}
             /\ local'[d][a] = [local[d][a] EXCEPT !.ownership = "FAILED"]
      BY <1>8, <2>8 DEF AfterAnswer
    <3>4. QED
      BY <3>1, <3>2, <3>3, WorkKept
  <2>9. QED
    BY <2>7, <2>8
<1>9. QED
  BY <1>6, <1>7, <1>8, AnsweredRows

LEMMA PulledWork ==
  ASSUME TypeOK, CursorInv, NEW c \in Device, ApplyPullPage(c),
         NEW d \in Device, NEW a \in Adjustment, WorkQueued(d, a)
  PROVE  WorkQueued(d, a)'
<1>1. UNCHANGED queue
  BY DEF ApplyPullPage
<1>2. OpenEvents(d, a)' = OpenEvents(d, a) /\ \A e \in OpenEvents(d, a) : queue'[e].body = queue[e].body
  BY <1>1 DEF OpenEvents, EventsOf
<1>3. CASE local'[d][a] = local[d][a]
  BY <1>2, <1>3, WorkKept
<1>4. CASE c # d
  BY <1>3, <1>4, OtherRows
<1>5. CASE c = d
  <2>1. local'[d][a] = Mirrored(d, a) /\ phase[d] = "applying"
    BY <1>5 DEF ApplyPullPage, TypeOK
  <2>2. CASE Mirrored(d, a) = local[d][a]
    BY <1>3, <2>1, <2>2
  <2>3. CASE /\ local[d][a].ownership \in {"none", "SERVER_SYNCED"}
             /\ Mirrored(d, a).ownership = "SERVER_SYNCED"
    BY <1>2, <2>1, <2>3 DEF WorkQueued
  <2>4. QED
    BY <2>1, <2>2, <2>3, MirroredCases DEF Row
<1>6. QED
  BY <1>4, <1>5

LEMMA LocalWorkStep ==
  ASSUME TypeOK, QueueInv, LedgerInv, BatchInv, CursorInv, LocalWorkIsQueued, [Next]_vars
  PROVE  LocalWorkIsQueued'
<1>1. \A d \in Device, a \in Adjustment : WorkQueued(d, a)
  BY DEF LocalWorkIsQueued, WorkQueued
<1> SUFFICES ASSUME NEW d \in Device, NEW a \in Adjustment
             PROVE  WorkQueued(d, a)'
  BY DEF LocalWorkIsQueued, WorkQueued
<1>2. WorkQueued(d, a)
  BY <1>1
<1>3. \A e \in DOMAIN queue : queue[e] \in Queued
  BY EventType
<1>4. CASE UNCHANGED <<local, queue>>
  BY <1>2, <1>4 DEF WorkQueued, OpenEvents, EventsOf
<1>5. ASSUME NEW c \in Device, NEW b \in Adjustment, NEW quantity \in Quantity, Create(c, b, quantity)
      PROVE  WorkQueued(d, a)'
  BY <1>1, <1>5, CreateWork
<1>6. ASSUME NEW c \in Device, NEW b \in Adjustment, NEW quantity \in Nat, NEW trashed \in BOOLEAN,
             Mutate(c, b, quantity, trashed)
      PROVE  WorkQueued(d, a)'
  BY <1>1, <1>6, MutateWork
\* Steps of the cycle that move events and rows from one status to another.
<1>7. ASSUME NEW events, NEW ownership \in {"LOCAL_PENDING", "SYNCING", "FAILED"}, NEW c \in Device,
             local' = WithOwnership(c, events, ownership)
      PROVE  \/ local'[d][a] = local[d][a]
             \/ /\ local[d][a].ownership \in {"LOCAL_PENDING", "SYNCING"}
                /\ local'[d][a] = [local[d][a] EXCEPT !.ownership = ownership]
  BY <1>7, WithOwnershipStep
<1>8. ASSUME NEW c \in Device, StartCycle(c) PROVE WorkQueued(d, a)'
  <2>1. /\ DOMAIN queue' = DOMAIN queue
        /\ \A e \in DOMAIN queue :
             \/ queue'[e] = queue[e]
             \/ queue[e].status = "SYNCING" /\ queue'[e] = [queue[e] EXCEPT !.status = "PENDING"]
    BY <1>8 DEF StartCycle, WithStatus
  <2>2. \A e \in DOMAIN queue : /\ queue'[e].body = queue[e].body
                                /\ queue'[e].status = "SYNCED" <=> queue[e].status = "SYNCED"
    BY <1>3, <2>1 DEF Queued
  <2>3. local'[d][a] = local[d][a]
    BY <1>8 DEF StartCycle
  <2>4. QED
    BY <1>2, <2>1, <2>2, <2>3, StatusKeepsWork
<1>9. ASSUME NEW c \in Device, ClaimPendingBatch(c) PROVE WorkQueued(d, a)'
  <2>1. \A e \in PendingBatch(c) : queue[e].status = "PENDING"
    BY DEF PendingBatch, Ready
  <2>2. /\ DOMAIN queue' = DOMAIN queue
        /\ \A e \in DOMAIN queue :
             \/ queue'[e] = queue[e]
             \/ /\ queue[e].status = "PENDING"
                /\ queue'[e] = [queue[e] EXCEPT !.status = "SYNCING", !.sent = TRUE]
    BY <1>9, <2>1 DEF ClaimPendingBatch
  <2>3. \A e \in DOMAIN queue : /\ queue'[e].body = queue[e].body
                                /\ queue'[e].status = "SYNCED" <=> queue[e].status = "SYNCED"
    <3> SUFFICES ASSUME NEW e \in DOMAIN queue
                 PROVE  /\ queue'[e].body = queue[e].body
                        /\ queue'[e].status = "SYNCED" <=> queue[e].status = "SYNCED"
      OBVIOUS
    <3>1. CASE /\ queue[e].status = "PENDING"
               /\ queue'[e] = [queue[e] EXCEPT !.status = "SYNCING", !.sent = TRUE]
      BY <1>3, <3>1 DEF Queued
    <3>2. QED
      BY <2>2, <3>1
  <2>4. local' = WithOwnership(c, PendingBatch(c), "SYNCING")
    BY <1>9 DEF ClaimPendingBatch
  <2>5. QED
    BY <1>2, <1>7, <2>2, <2>3, <2>4, StatusKeepsWork
<1>10. ASSUME NEW c \in Device, FailBatch(c) \/ \E due \in BOOLEAN : Defer(c, due)
       PROVE  WorkQueued(d, a)'
  <2>1. \A e \in batch[c] : queue[e].status = "SYNCING"
    BY DEF BatchInv
  <2>2. /\ DOMAIN queue' = DOMAIN queue
        /\ \A e \in DOMAIN queue :
             \/ queue'[e] = queue[e]
             \/ /\ queue[e].status = "SYNCING"
                /\ \/ queue'[e] = [queue[e] EXCEPT !.status = "FAILED"]
                   \/ queue'[e].body = queue[e].body /\ queue'[e].status = "PENDING"
    <3>1. CASE FailBatch(c)
      BY <2>1, <3>1 DEF FailBatch, WithStatus
    <3>2. ASSUME NEW due \in BOOLEAN, Defer(c, due)
          PROVE  /\ DOMAIN queue' = DOMAIN queue
                 /\ \A e \in DOMAIN queue :
                      \/ queue'[e] = queue[e]
                      \/ /\ queue[e].status = "SYNCING"
                         /\ queue'[e].body = queue[e].body /\ queue'[e].status = "PENDING"
      BY <1>3, <2>1, <3>2, DeferStep
    <3>3. QED
      BY <1>10, <3>1, <3>2
  <2>3. \A e \in DOMAIN queue : /\ queue'[e].body = queue[e].body
                                /\ queue'[e].status = "SYNCED" <=> queue[e].status = "SYNCED"
    <3> SUFFICES ASSUME NEW e \in DOMAIN queue
                 PROVE  /\ queue'[e].body = queue[e].body
                        /\ queue'[e].status = "SYNCED" <=> queue[e].status = "SYNCED"
      OBVIOUS
    <3>1. CASE /\ queue[e].status = "SYNCING"
               /\ queue'[e] = [queue[e] EXCEPT !.status = "FAILED"]
      BY <1>3, <3>1 DEF Queued
    <3>2. QED
      BY <2>2, <3>1
  <2>4. \E ownership \in {"LOCAL_PENDING", "FAILED"} : local' = WithOwnership(c, batch[c], ownership)
    BY <1>10 DEF FailBatch, Defer
  <2>5. \/ local'[d][a] = local[d][a]
        \/ /\ local[d][a].ownership \in {"LOCAL_PENDING", "SYNCING"}
           /\ \E ownership \in {"LOCAL_PENDING", "SYNCING", "FAILED"} :
                local'[d][a] = [local[d][a] EXCEPT !.ownership = ownership]
    BY <1>7, <2>4
  <2>6. QED
    BY <1>2, <2>2, <2>3, <2>5, StatusKeepsWork
<1>11. ASSUME NEW f \in DOMAIN queue, BecomesDue(f) PROVE WorkQueued(d, a)'
  <2>1. queue' = [queue EXCEPT ![f] = [queue[f] EXCEPT !.due = TRUE]] /\ UNCHANGED local
    BY <1>11 DEF BecomesDue
  <2>2. /\ DOMAIN queue' = DOMAIN queue
        /\ \A e \in DOMAIN queue :
             queue'[e] = queue[e] \/ queue'[e] = [queue[e] EXCEPT !.due = TRUE]
    BY <2>1
  <2>3. \A e \in DOMAIN queue : /\ queue'[e].body = queue[e].body
                                /\ queue'[e].status = "SYNCED" <=> queue[e].status = "SYNCED"
    BY <1>3, <2>2 DEF Queued
  <2>4. QED
    BY <1>2, <2>1, <2>2, <2>3, StatusKeepsWork
<1>12. ASSUME NEW c \in Device, UserStep(c) PROVE WorkQueued(d, a)'
  BY <1>5, <1>6, <1>12, UserKinds
<1>13. ASSUME NEW c \in Device, CycleStep(c) PROVE WorkQueued(d, a)'
  <2>1. ASSUME NothingPending(c) \/ Pull(c) PROVE UNCHANGED <<local, queue>>
    BY <2>1 DEF NothingPending, Pull, sqlite
  <2>2. ASSUME RejectResults(c) PROVE FailBatch(c)
    BY <2>2 DEF RejectResults
  <2>3. ASSUME ReceiveResults(c) PROVE WorkQueued(d, a)'
    BY <1>2, <2>3, AnsweredWork
  <2>4. ASSUME ApplyPullPage(c) PROVE WorkQueued(d, a)'
    BY <1>2, <2>4, PulledWork
  <2>5. QED
    BY <1>4, <1>8, <1>9, <1>10, <1>13, <2>1, <2>2, <2>3, <2>4 DEF CycleStep
<1>14. ASSUME NEW c \in Device, FaultStep(c) PROVE WorkQueued(d, a)'
  <2>1. FailBatch(c) \/ (\E due \in BOOLEAN : Defer(c, due)) \/ UNCHANGED <<local, queue>>
    BY <1>14 DEF FaultStep, ServerError, LoseRequest, AuthRequired, Crash, PullFails, sqlite
  <2>2. QED
    BY <1>4, <1>10, <2>1
<1>15. ASSUME NEW c \in Device, Process(c) PROVE UNCHANGED <<local, queue>>
  BY <1>15 DEF Process, sqlite
<1>16. ASSUME NEW bodies \in late, ProcessLate(bodies) \/ LoseLate(bodies)
       PROVE  UNCHANGED <<local, queue>>
  BY <1>16 DEF ProcessLate, LoseLate, sqlite
<1>17. CASE UNCHANGED vars
  BY <1>4, <1>17 DEF vars, sqlite
<1>18. QED
  BY <1>4, <1>11, <1>12, <1>13, <1>14, <1>15, <1>16, <1>17 DEF Next

-----------------------------------------------------------------------------
(* The theorems.                                                           *)

LEMMA InitInv == Init => IInv
<1> SUFFICES ASSUME Init PROVE IInv
  OBVIOUS
<1>1. /\ DOMAIN queue = {} /\ Len(queue) = 0 /\ queue \in Seq(Queued)
      /\ DOMAIN feed = {} /\ Len(feed) = 0 /\ feed \in Seq(Changes)
  BY DEF Init
<1>2. \A e \in Events : ledger[e] = Undecided
  BY DEF Init
<1>3. \A d \in Device :
        /\ phase[d] = "idle" /\ batch[d] = {} /\ request[d] = {} /\ cursor[d] = 0
        /\ \A a \in Adjustment : local[d][a] = Missing
  BY DEF Init
<1>4. TypeOK
  <2>1. rows \in [Adjustment -> Rows]
    BY DEF Init, Rows, Absent
  <2>2. ledger \in [Events -> {Undecided} \cup Results]
    BY DEF Init
  <2>3. local \in [Device -> [Adjustment -> LocalRows]]
    BY DEF Init, Missing, LocalRows
  <2>4. Len(queue) <= MaxEvents
    BY <1>1, SyncAssumption
  <2>5. QED
    BY <1>1, <2>1, <2>2, <2>3, <2>4 DEF TypeOK, Init
<1>5. \A b : b \notin Travelling
  BY <1>2, <1>3 DEF Travelling, Init
<1>6. QueueInv
  BY <1>1, <1>5 DEF QueueInv, Init
<1>7. LedgerInv
  BY <1>2 DEF LedgerInv
<1>8. BatchInv
  BY <1>3 DEF BatchInv
<1>9. CursorInv
  BY <1>1, <1>3 DEF CursorInv
<1>10. LocalWorkIsQueued
  BY <1>1, <1>3 DEF LocalWorkIsQueued, Missing, OpenEvents, EventsOf
<1>11. VerdictsAgree
  BY <1>1 DEF VerdictsAgree
<1>12. ShownIsRecorded
  BY <1>3 DEF ShownIsRecorded, Missing
<1>13. QED
  BY <1>4, <1>6, <1>7, <1>8, <1>9, <1>10, <1>11, <1>12 DEF IInv

LEMMA IInvStep == IInv /\ [Next]_vars => IInv'
BY TypeStep, QueueStep, LedgerStep, BatchStep, CursorStep, LocalWorkStep, VerdictsStep, ShownStep
   DEF IInv

\* The inductive invariant holds whatever users do, and whatever is lost,
\* repeated, refused or interrupted.
THEOREM SyncInvariant == Spec => []IInv
<1>1. Init => IInv
  BY InitInv
<1>2. IInv /\ [Next]_vars => IInv'
  BY IInvStep
<1>3. QED
  BY <1>1, <1>2, PTL DEF Spec

\* Every variable stays in its type: no answer leaves a row without a meaning.
THEOREM TypeCorrect == Spec => []TypeOK
<1>1. IInv => TypeOK
  BY DEF IInv
<1>2. QED
  BY <1>1, SyncInvariant, PTL

\* What a request carries and what the server stored is what the outbox holds:
\* changes are coalesced only into events that never left the device.
THEOREM SentIsFixed == Spec => []SentNeverChanges
<1>1. IInv => SentNeverChanges
  BY DEF IInv, QueueInv, SentNeverChanges
<1>2. QED
  BY <1>1, SyncInvariant, PTL

\* A changed row waits with exactly one event, which says what the row says;
\* a row of the server's waits with none.
THEOREM WorkIsQueued == Spec => []LocalWorkIsQueued
<1>1. IInv => LocalWorkIsQueued
  BY DEF IInv
<1>2. QED
  BY <1>1, SyncInvariant, PTL

\* An outbox event is SYNCED or CONFLICT only if that is what the ledger says.
THEOREM VerdictsCorrect == Spec => []VerdictsAgree
<1>1. IInv => VerdictsAgree
  BY DEF IInv
<1>2. QED
  BY <1>1, SyncInvariant, PTL

\* A row shown as the server's is in the feed, at the row's sequence number.
THEOREM ShownCorrect == Spec => []ShownIsRecorded
<1>1. IInv => ShownIsRecorded
  BY DEF IInv
<1>2. QED
  BY <1>1, SyncInvariant, PTL

\* Where no request meets an unexpected server error, a device gives an event
\* up only after the server decided it.
THEOREM NothingGivenUp ==
  ASSUME "error" \notin Faults
  PROVE  Spec => []UndecidedStaysQueued
<1>1. Init => UndecidedStaysQueued
  BY DEF Init, UndecidedStaysQueued
<1>2. IInv /\ UndecidedStaysQueued /\ [Next]_vars => UndecidedStaysQueued'
  BY UndecidedStep DEF IInv
<1>3. QED
  BY <1>1, <1>2, SyncInvariant, PTL DEF Spec
-----------------------------------------------------------------------------
(* What is sent again, and what is pulled.                                 *)

\* Of fewer events fewer come before e.
LEMMA FewerBefore ==
  ASSUME TypeOK, NEW d \in Device, NEW fewer, fewer \subseteq Unsettled(d), NEW e,
         Cardinality({f \in Unsettled(d) : f < e}) < PushMaxEvents
  PROVE  Cardinality({f \in fewer : f < e}) < PushMaxEvents
<1> DEFINE all  == {f \in Unsettled(d) : f < e}
           some == {f \in fewer : f < e}
<1>1. Len(queue) \in Nat /\ DOMAIN queue = 1 .. Len(queue)
  BY DEF TypeOK
<1>2. all \subseteq 1 .. Len(queue) /\ some \subseteq all
  BY <1>1 DEF Unsettled, EventsOf
<1>3. IsFiniteSet(1 .. Len(queue))
  BY <1>1, FS_Interval
<1> HIDE DEF all, some
<1>4. IsFiniteSet(all)
  BY <1>2, <1>3, FS_Subset
<1>5. IsFiniteSet(some) /\ Cardinality(some) <= Cardinality(all)
  BY <1>2, <1>4, FS_Subset
<1>6. Cardinality(some) \in Nat /\ Cardinality(all) \in Nat /\ Cardinality(all) < PushMaxEvents
  BY <1>4, <1>5, FS_CardinalityType DEF all
<1>7. Cardinality(some) < PushMaxEvents
  BY <1>5, <1>6, SyncAssumption
<1>8. QED
  BY <1>7 DEF some

\* The cycle of d stays where it is; its outbox gets unsent events at most.
StandsStill(d) ==
  /\ phase'[d] = phase[d] /\ batch'[d] = batch[d]
  /\ \A e \in EventsOf(d) : /\ e \in EventsOf(d)'
                            /\ queue'[e].status = queue[e].status /\ queue'[e].sent = queue[e].sent
  /\ \A e \in EventsOf(d)' : \/ e \in EventsOf(d)
                             \/ e \notin DOMAIN queue /\ queue'[e].status = "PENDING" /\ ~queue'[e].sent

LEMMA StandingResends ==
  ASSUME TypeOK, TypeOK', NEW d \in Device, ResentOf(d), StandsStill(d), PutOff(d) \subseteq PutOff(d)'
  PROVE  ResentOf(d)'
<1>1. SentOut(d)' \subseteq SentOut(d)
  BY DEF StandsStill, SentOut, Unsettled
<1>2. /\ DOMAIN queue = 1 .. Len(queue) /\ Len(queue) \in Nat
      /\ DOMAIN queue' = 1 .. Len(queue') /\ Len(queue') \in Nat
  BY DEF TypeOK
<1>3. ASSUME NEW e \in SentOut(d)' PROVE Cardinality({f \in Unsettled(d)' : f < e}) < PushMaxEvents
  <2>1. e \in DOMAIN queue
    BY <1>1 DEF SentOut, Unsettled, EventsOf
  <2>2. \A f \in Unsettled(d)' : f < e => f \in DOMAIN queue
    BY <1>2, <2>1 DEF Unsettled, EventsOf
  <2>3. {f \in Unsettled(d)' : f < e} = {f \in Unsettled(d) : f < e}
    BY <2>2 DEF StandsStill, Unsettled, EventsOf
  <2>4. QED
    BY <1>1, <2>3 DEF ResentOf
<1>4. phase'[d] = "claiming" => \A e \in EventsOf(d)' : queue'[e].status # "SYNCING"
  BY DEF StandsStill, ResentOf
<1>5. QED
  BY <1>1, <1>3, <1>4 DEF ResentOf, StandsStill

\* The cycle of d moves events from one status to another, and none of them
\* back out of its last one.
MovesOn(d) ==
  /\ EventsOf(d)' = EventsOf(d)
  /\ \A e \in EventsOf(d) :
       /\ queue'[e].sent = queue[e].sent
       /\ queue'[e].status \in {"PENDING", "SYNCING"} => queue[e].status \in {"PENDING", "SYNCING"}

LEMMA MovingResends ==
  ASSUME TypeOK, NEW d \in Device, ResentOf(d), MovesOn(d), PutOff(d) \subseteq PutOff(d)'
  PROVE  /\ SentOut(d)' \subseteq SentOut(d)
         /\ \A e \in SentOut(d)' : Cardinality({f \in Unsettled(d)' : f < e}) < PushMaxEvents
<1>1. SentOut(d)' \subseteq SentOut(d) /\ Unsettled(d)' \subseteq Unsettled(d)
  BY DEF MovesOn, SentOut, Unsettled
<1>2. \A e \in SentOut(d)' : Cardinality({f \in Unsettled(d) : f < e}) < PushMaxEvents
  BY <1>1 DEF ResentOf
<1>3. QED
  BY <1>1, <1>2, FewerBefore

\* What a cycle does to the outbox.
LEMMA CycleOutbox ==
  ASSUME TypeOK, NEW d \in Device, CycleStep(d) \/ FaultStep(d)
  PROVE  /\ DOMAIN queue' = DOMAIN queue
         /\ \A e \in DOMAIN queue : queue'[e].body = queue[e].body
<1>1. \A e \in DOMAIN queue : queue[e] \in Queued
  BY EventType
<1>2. CASE UNCHANGED queue
  BY <1>2
<1>3. ASSUME NEW events, NEW status, queue' = WithStatus(events, status)
      PROVE  /\ DOMAIN queue' = DOMAIN queue
             /\ \A e \in DOMAIN queue : queue'[e].body = queue[e].body
  BY <1>1, <1>3 DEF WithStatus, Queued
<1>4. CASE ClaimPendingBatch(d)
  <2>1. \A e \in DOMAIN queue :
          queue'[e] = [queue[e] EXCEPT !.status = "SYNCING", !.sent = TRUE] \/ queue'[e] = queue[e]
    BY <1>4 DEF ClaimPendingBatch
  <2>2. QED
    BY <1>1, <1>4, <2>1 DEF ClaimPendingBatch, Queued
<1>5. CASE ReceiveResults(d)
  <2>1. \A e \in DOMAIN queue :
          queue'[e] = [queue[e] EXCEPT !.status = Answer(e).status] \/ queue'[e] = queue[e]
    BY <1>5 DEF ReceiveResults
  <2>2. QED
    BY <1>1, <1>5, <2>1 DEF ReceiveResults, Queued
<1>6. ASSUME NEW due \in BOOLEAN, Defer(d, due)
      PROVE  /\ DOMAIN queue' = DOMAIN queue
             /\ \A e \in DOMAIN queue : queue'[e].body = queue[e].body
  BY <1>6, DeferStep
<1>7. CASE NothingPending(d) \/ Pull(d) \/ ApplyPullPage(d) \/ Crash(d) \/ PullFails(d)
  BY <1>2, <1>7 DEF NothingPending, Pull, ApplyPullPage, Crash, PullFails, sqlite
<1>8. CASE StartCycle(d) \/ RejectResults(d) \/ ServerError(d)
  BY <1>3, <1>8 DEF StartCycle, RejectResults, ServerError, FailBatch
<1>9. CASE LoseRequest(d) \/ AuthRequired(d)
  BY <1>6, <1>9 DEF LoseRequest, AuthRequired
<1>10. QED
  BY <1>4, <1>5, <1>7, <1>8, <1>9 DEF CycleStep, FaultStep

\* Users, the server and the cycles of other devices leave the cycle of d alone.
LEMMA OthersStandStill ==
  ASSUME TypeOK, QueueInv, BatchInv, [Next]_vars, NEW d \in Device
  PROVE  StandsStill(d) \/ CycleStep(d) \/ FaultStep(d)
<1>1. ASSUME NEW c \in Device, NEW a \in Adjustment, NEW operation \in Operations,
             NEW base \in Nat, NEW quantity \in Nat, NEW trashed \in BOOLEAN,
             Enqueue(c, a, operation, base, quantity, trashed), UNCHANGED cycle
      PROVE  StandsStill(d)
  <2>1. Len(queue) \in Nat /\ DOMAIN queue = 1 .. Len(queue) /\ queue \in Seq(Queued)
    BY DEF TypeOK
  <2>2. /\ Len(queue) + 1 \notin DOMAIN queue
        /\ \A e : e \in DOMAIN queue' <=> e \in DOMAIN queue \/ e = Len(queue) + 1
        /\ \A e \in DOMAIN queue : queue'[e] = queue[e]
    BY <1>1, EnqueueStep
  <2>3. queue'[Len(queue) + 1].status = "PENDING" /\ ~queue'[Len(queue) + 1].sent
    BY <1>1, <2>1 DEF Enqueue
  <2>4. phase'[d] = phase[d] /\ batch'[d] = batch[d]
    BY <1>1 DEF cycle
  <2>5. QED
    BY <2>2, <2>3, <2>4 DEF StandsStill, EventsOf
<1>2. ASSUME NEW f \in DOMAIN queue, NEW base \in Nat, NEW quantity \in Nat, NEW trashed \in BOOLEAN,
             Coalesce(f, base, quantity, trashed), UNCHANGED cycle
      PROVE  StandsStill(d)
  <2>1. /\ DOMAIN queue' = DOMAIN queue
        /\ \A e \in DOMAIN queue : e # f => queue'[e] = queue[e]
        /\ queue'[f].body.device = queue[f].body.device
    BY <1>2, CoalesceStep
  <2>2. queue[f] \in Queued /\ queue' = [queue EXCEPT ![f] = [queue[f] EXCEPT !.body = queue'[f].body]]
    BY <1>2, EventType DEF Coalesce, Queued
  <2>3. queue'[f].status = queue[f].status /\ queue'[f].sent = queue[f].sent
    BY <1>2, <2>2 DEF Queued
  <2>4. phase'[d] = phase[d] /\ batch'[d] = batch[d]
    BY <1>2 DEF cycle
  <2>5. QED
    BY <2>1, <2>3, <2>4 DEF StandsStill, EventsOf
<1>3. ASSUME UNCHANGED queue, phase'[d] = phase[d], batch'[d] = batch[d] PROVE StandsStill(d)
  BY <1>3 DEF StandsStill, EventsOf
<1>4. ASSUME NEW c \in Device, UserStep(c) PROVE StandsStill(d)
  <2>1. ASSUME NEW a \in Adjustment, NEW quantity \in Quantity, Create(c, a, quantity) PROVE StandsStill(d)
    BY <1>1, <2>1, SyncAssumption DEF Create, Operations
  <2>2. ASSUME NEW a \in Adjustment, NEW quantity \in Nat, NEW trashed \in BOOLEAN,
               Mutate(c, a, quantity, trashed)
        PROVE  StandsStill(d)
    <3>1. PICK base, next \in Nat :
            \/ Enqueue(c, a, "UPDATE", base, quantity, trashed)
            \/ \E f \in OpenEvents(c, a) : Coalesce(f, base, quantity, trashed)
      BY <2>2, MutateCases
    <3>2. OpenEvents(c, a) \subseteq DOMAIN queue /\ UNCHANGED cycle
      BY <2>2 DEF OpenEvents, EventsOf, Mutate
    <3>3. QED
      BY <1>1, <1>2, <3>1, <3>2 DEF Operations
  <2>3. QED
    BY <1>4, <2>1, <2>2, UserKinds
<1>5. ASSUME NEW c \in Device, c # d, CycleStep(c) \/ FaultStep(c) PROVE StandsStill(d)
  <2>1. \A e \in EventsOf(d) : e \in DOMAIN queue /\ e \in DOMAIN queue' /\ queue'[e] = queue[e]
    BY <1>5, ForeignKept
  <2>2. DOMAIN queue' = DOMAIN queue /\ \A e \in DOMAIN queue : queue'[e].body = queue[e].body
    BY <1>5, CycleOutbox
  <2>3. phase'[d] = phase[d] /\ batch'[d] = batch[d]
    BY <1>5 DEF TypeOK, CycleStep, FaultStep, StartCycle, ClaimPendingBatch, NothingPending, ReceiveResults,
      RejectResults, FailBatch, EndCycle, Pull, ApplyPullPage, ServerError, LoseRequest, AuthRequired,
      Defer, Crash, PullFails
  <2>4. EventsOf(d)' = EventsOf(d)
    BY <2>2 DEF EventsOf
  <2>5. QED
    BY <2>1, <2>3, <2>4 DEF StandsStill
<1>6. ASSUME NEW c \in Device, Process(c) PROVE StandsStill(d)
  BY <1>3, <1>6 DEF Process, sqlite
<1>7. ASSUME NEW bodies \in late, ProcessLate(bodies) \/ LoseLate(bodies) PROVE StandsStill(d)
  BY <1>3, <1>7 DEF ProcessLate, LoseLate, sqlite, cycle
<1>8. ASSUME NEW f \in DOMAIN queue, BecomesDue(f) PROVE StandsStill(d)
  <2>1. queue[f] \in Queued /\ queue' = [queue EXCEPT ![f] = [queue[f] EXCEPT !.due = TRUE]]
    BY <1>8, EventType DEF BecomesDue
  <2>2. /\ queue'[f].body = queue[f].body /\ queue'[f].status = queue[f].status
        /\ queue'[f].sent = queue[f].sent
    BY <1>8, <2>1 DEF Queued
  <2>3. \A e \in DOMAIN queue : e # f => queue'[e] = queue[e]
    BY <2>1
  <2>4. DOMAIN queue' = DOMAIN queue
    BY <2>1
  <2>5. phase'[d] = phase[d] /\ batch'[d] = batch[d]
    BY <1>8 DEF BecomesDue, cycle
  <2>6. QED
    BY <2>2, <2>3, <2>4, <2>5 DEF StandsStill, EventsOf
<1>9. CASE UNCHANGED vars
  BY <1>3, <1>9 DEF vars, sqlite, cycle
<1>10. QED
  BY <1>4, <1>5, <1>6, <1>7, <1>8, <1>9 DEF Next

\* A cycle that ends, or waits for its next step, moves events on.
LEMMA CycleMovesOn ==
  ASSUME TypeOK, QueueInv, LedgerInv, BatchInv, NEW d \in Device,
         CycleStep(d) \/ FaultStep(d), ~ClaimPendingBatch(d)
  PROVE  MovesOn(d)
<1>1. /\ EventsOf(d)' = EventsOf(d) /\ EventsOf(d) \subseteq DOMAIN queue
      /\ \A e \in EventsOf(d) : queue[e] \in Queued
  BY CycleOutbox, EventType DEF EventsOf
<1>2. CASE UNCHANGED queue
  BY <1>1, <1>2 DEF MovesOn
<1>3. \A e \in batch[d] : queue[e].status = "SYNCING"
  BY DEF BatchInv
<1>4. ASSUME NEW events, \A e \in events : queue[e].status = "SYNCING",
             NEW status, queue' = WithStatus(events, status)
      PROVE  MovesOn(d)
  BY <1>1, <1>4 DEF WithStatus, MovesOn, Queued
<1>5. CASE StartCycle(d)
  BY <1>4, <1>5 DEF StartCycle
<1>6. CASE RejectResults(d) \/ ServerError(d)
  BY <1>3, <1>4, <1>6 DEF RejectResults, ServerError, FailBatch
<1>7. CASE ReceiveResults(d)
  <2>1. \A e \in EventsOf(d) :
          \/ queue'[e] = queue[e]
          \/ e \in batch[d] /\ queue'[e] = [queue[e] EXCEPT !.status = Answer(e).status]
    BY <1>1, <1>7 DEF ReceiveResults
  <2>2. QED
    BY <1>1, <1>3, <2>1 DEF MovesOn, Queued
<1>8. ASSUME NEW due \in BOOLEAN, Defer(d, due) PROVE MovesOn(d)
  BY <1>1, <1>3, <1>8, DeferStep DEF MovesOn
<1>9. CASE LoseRequest(d) \/ AuthRequired(d)
  BY <1>8, <1>9 DEF LoseRequest, AuthRequired
<1>10. CASE NothingPending(d) \/ Pull(d) \/ ApplyPullPage(d) \/ Crash(d) \/ PullFails(d)
  BY <1>2, <1>10 DEF NothingPending, Pull, ApplyPullPage, Crash, PullFails, sqlite
<1>11. QED
  BY <1>5, <1>6, <1>7, <1>9, <1>10 DEF CycleStep, FaultStep

\* What was sent and not put off is ready, and among the first that are: a
\* claim takes it.
LEMMA ClaimTakesSent ==
  ASSUME TypeOK, NEW d \in Device, ResentOf(d), phase[d] = "claiming",
         \A e \in DOMAIN queue : queue[e].due \/ queue[e].delayed
  PROVE  /\ Unsettled(d) \ PutOff(d) \subseteq Ready(d) /\ Ready(d) \subseteq Unsettled(d)
         /\ SentOut(d) \subseteq PendingBatch(d)
<1>1. \A e \in EventsOf(d) : e \in DOMAIN queue /\ e \in Nat /\ queue[e] \in Queued
  BY EventType DEF EventsOf
<1>2. Ready(d) \subseteq Unsettled(d)
  BY DEF Ready, Unsettled
<1>3. ASSUME NEW e \in Unsettled(d) \ PutOff(d) PROVE e \in Ready(d)
  <2>1. e \in EventsOf(d) /\ queue[e].status = "PENDING"
    BY <1>3 DEF ResentOf, Unsettled
  <2>2. ~queue[e].delayed
    BY <1>1, <1>3, <2>1 DEF PutOff
  <2>3. QED
    BY <1>1, <2>1, <2>2 DEF Ready
<1>4. ASSUME NEW e \in SentOut(d) PROVE e \in PendingBatch(d)
  <2>1. e \in Ready(d) /\ Cardinality({f \in Unsettled(d) : f < e}) < PushMaxEvents
    BY <1>3, <1>4 DEF SentOut, ResentOf
  <2>2. Cardinality({f \in Ready(d) : f < e}) < PushMaxEvents
    BY <1>2, <2>1, FewerBefore
  <2>3. QED
    BY <2>1, <2>2 DEF PendingBatch
<1>5. QED
  BY <1>2, <1>3, <1>4

LEMMA ClaimResends ==
  ASSUME TypeOK, QueueInv, NEW d \in Device, ResentOf(d), ClaimPendingBatch(d),
         \A e \in DOMAIN queue : queue[e].due \/ queue[e].delayed,
         PutOff(d) \subseteq PutOff(d)'
  PROVE  ResentOf(d)'
<1>1. /\ EventsOf(d)' = EventsOf(d) /\ EventsOf(d) \subseteq DOMAIN queue
      /\ \A e \in EventsOf(d) : queue[e] \in Queued /\ e \in Nat
  BY CycleOutbox, EventType DEF EventsOf, CycleStep
<1>2. /\ Unsettled(d) \ PutOff(d) \subseteq Ready(d) /\ Ready(d) \subseteq Unsettled(d)
      /\ SentOut(d) \subseteq PendingBatch(d)
  BY ClaimTakesSent DEF ClaimPendingBatch
<1>3. /\ \A e \in PendingBatch(d) : /\ e \in EventsOf(d) /\ e \in Unsettled(d)
                                    /\ Cardinality({f \in Ready(d) : f < e}) < PushMaxEvents
                                    /\ queue'[e].status = "SYNCING"
      /\ \A e \in EventsOf(d) \ PendingBatch(d) : queue'[e] = queue[e]
  <2>1. PendingBatch(d) \subseteq Ready(d) /\ Ready(d) \subseteq EventsOf(d)
    BY DEF PendingBatch, Ready
  <2>2. \A e \in PendingBatch(d) : Cardinality({f \in Ready(d) : f < e}) < PushMaxEvents
    BY DEF PendingBatch
  <2>3. \A e \in PendingBatch(d) : queue'[e] = [queue[e] EXCEPT !.status = "SYNCING", !.sent = TRUE]
    BY <1>1, <2>1 DEF ClaimPendingBatch
  <2>4. \A e \in EventsOf(d) \ PendingBatch(d) : queue'[e] = queue[e]
    BY <1>1 DEF ClaimPendingBatch
  <2>5. ASSUME NEW e \in PendingBatch(d) PROVE queue'[e].status = "SYNCING"
    <3>1. queue[e] \in Queued /\ queue'[e] = [queue[e] EXCEPT !.status = "SYNCING", !.sent = TRUE]
      BY <1>1, <2>1, <2>3
    <3>2. QED
      BY <3>1 DEF Queued
  <2>6. QED
    BY <1>2, <2>1, <2>2, <2>4, <2>5
<1>4. Unsettled(d)' = Unsettled(d)
  BY <1>1, <1>3 DEF Unsettled
<1>5. SentOut(d)' \subseteq PendingBatch(d)
  BY <1>1, <1>2, <1>3, <1>4 DEF SentOut, Unsettled
<1>6. phase'[d] = "pushing" /\ batch'[d] = PendingBatch(d)
  BY DEF ClaimPendingBatch, TypeOK
<1>7. ASSUME NEW e \in SentOut(d)'
      PROVE  Cardinality({f \in Unsettled(d)' : f < e}) < PushMaxEvents
  <2>1. e \in PendingBatch(d) /\ e \in EventsOf(d) /\ e \notin PutOff(d)
    BY <1>3, <1>5 DEF SentOut
  <2>2. ASSUME NEW f \in Unsettled(d), f < e PROVE f \in Ready(d)
    <3>1. f \in EventsOf(d) /\ f \in Nat /\ e \in Nat
      BY <1>1, <2>1 DEF Unsettled
    <3>2. f \notin PutOff(d)
      <4>1. SUFFICES ASSUME NEW g \in EventsOf(d), g <= f, queue[g].delayed PROVE FALSE
        BY DEF PutOff
      <4>2. g <= e
        BY <1>1, <2>2, <3>1, <4>1
      <4>3. QED
        BY <2>1, <4>1, <4>2 DEF PutOff
    <3>3. QED
      BY <1>2, <3>2
  <2>3. {f \in Unsettled(d) : f < e} = {f \in Ready(d) : f < e}
    BY <1>2, <2>2
  <2>4. QED
    BY <1>3, <1>4, <2>1, <2>3
<1>8. QED
  BY <1>5, <1>6, <1>7 DEF ResentOf

LEMMA CycleResends ==
  ASSUME TypeOK, QueueInv, LedgerInv, BatchInv, NEW d \in Device, ResentOf(d),
         CycleStep(d) \/ FaultStep(d), PutOff(d) \subseteq PutOff(d)',
         \A e \in DOMAIN queue : queue[e].due \/ queue[e].delayed
  PROVE  ResentOf(d)'
<1>1. CASE ClaimPendingBatch(d)
  BY <1>1, ClaimResends
<1>2. ASSUME ~ClaimPendingBatch(d)
      PROVE  /\ MovesOn(d) /\ SentOut(d)' \subseteq SentOut(d)
             /\ \A e \in SentOut(d)' : Cardinality({f \in Unsettled(d)' : f < e}) < PushMaxEvents
  BY <1>2, CycleMovesOn, MovingResends
<1>3. ASSUME ~ClaimPendingBatch(d), phase'[d] = "idle" PROVE ResentOf(d)'
  BY <1>2, <1>3 DEF ResentOf
<1>4. ASSUME ~ClaimPendingBatch(d), phase'[d] \in {"pulling", "applying"}, SentOut(d)' = {} PROVE ResentOf(d)'
  BY <1>4 DEF ResentOf
<1>5. DOMAIN phase = Device
  BY DEF TypeOK
<1>6. /\ EventsOf(d)' = EventsOf(d) /\ EventsOf(d) \subseteq DOMAIN queue
      /\ \A e \in EventsOf(d) : queue[e] \in Queued
  BY CycleOutbox, EventType DEF EventsOf
<1>7. CASE StartCycle(d)
  <2>1. phase'[d] = "claiming" /\ ~ClaimPendingBatch(d)
    BY <1>5, <1>7 DEF StartCycle, ClaimPendingBatch
  <2>2. \A e \in EventsOf(d)' : queue'[e].status # "SYNCING"
    BY <1>6, <1>7 DEF StartCycle, WithStatus, Queued
  <2>3. QED
    BY <1>2, <2>1, <2>2 DEF ResentOf
<1>8. CASE NothingPending(d)
  <2>1. phase'[d] = "pulling" /\ ~ClaimPendingBatch(d) /\ queue' = queue
    BY <1>5, <1>8 DEF NothingPending, ClaimPendingBatch, sqlite
  <2>2. SentOut(d) \subseteq PendingBatch(d)
    BY <1>8, ClaimTakesSent DEF NothingPending
  <2>3. QED
    BY <1>2, <1>4, <1>8, <2>1, <2>2 DEF NothingPending
<1>9. CASE ReceiveResults(d)
  <2>1. phase'[d] = "pulling" /\ phase[d] = "pushing" /\ ~ClaimPendingBatch(d)
    BY <1>5, <1>9 DEF ReceiveResults, Answered, ClaimPendingBatch
  <2>2. ASSUME NEW e \in batch[d] PROVE e \in EventsOf(d) /\ queue'[e].status \notin {"PENDING", "SYNCING"}
    <3>1. e \in EventsOf(d) /\ Answer(e) \in Results
      BY <1>9, AnswerDecided DEF ReceiveResults
    <3>2. queue'[e] = [queue[e] EXCEPT !.status = Answer(e).status]
      BY <1>6, <1>9, <3>1 DEF ReceiveResults
    <3>3. QED
      BY <1>6, <3>1, <3>2 DEF Results, Queued
  <2>3. SentOut(d) \subseteq batch[d]
    BY <2>1 DEF ResentOf
  <2>4. SentOut(d)' = {}
    BY <1>2, <2>1, <2>2, <2>3 DEF SentOut, Unsettled
  <2>5. QED
    BY <1>4, <2>1, <2>4
<1>10. CASE Pull(d)
  <2>1. phase'[d] = "applying" /\ phase[d] = "pulling" /\ ~ClaimPendingBatch(d)
    BY <1>5, <1>10 DEF Pull, ClaimPendingBatch
  <2>2. QED
    BY <1>2, <1>4, <2>1 DEF ResentOf
<1>11. CASE \/ RejectResults(d) \/ ServerError(d) \/ AuthRequired(d) \/ LoseRequest(d) \/ PullFails(d)
            \/ Crash(d) \/ ApplyPullPage(d)
  <2>1. phase'[d] = "idle" /\ ~ClaimPendingBatch(d)
    BY <1>5, <1>11 DEF RejectResults, ServerError, FailBatch, AuthRequired, LoseRequest, PullFails, Defer, Crash,
      ApplyPullPage, EndCycle, ClaimPendingBatch
  <2>2. QED
    BY <1>3, <2>1
<1>12. QED
  BY <1>1, <1>7, <1>8, <1>9, <1>10, <1>11 DEF CycleStep, FaultStep

\* An event that waits for its next attempt has been put off, and what has
\* been put off once stays so.
LEMMA DelaysKept ==
  ASSUME TypeOK, QueueInv, [Next]_vars, \A e \in DOMAIN queue : queue[e].due \/ queue[e].delayed
  PROVE  /\ \A e \in DOMAIN queue : /\ e \in DOMAIN queue' /\ queue'[e].body.device = queue[e].body.device
                                    /\ queue[e].delayed => queue'[e].delayed
         /\ \A e \in DOMAIN queue' : queue'[e].due \/ queue'[e].delayed
<1> DEFINE Goal ==
      /\ \A e \in DOMAIN queue : /\ e \in DOMAIN queue' /\ queue'[e].body.device = queue[e].body.device
                                 /\ queue[e].delayed => queue'[e].delayed
      /\ \A e \in DOMAIN queue' : queue'[e].due \/ queue'[e].delayed
<1> SUFFICES Goal
  OBVIOUS
<1>1. \A e \in DOMAIN queue : queue[e] \in Queued
  BY EventType
<1>2. CASE UNCHANGED queue
  BY <1>2
<1>3. ASSUME NEW events, NEW status, queue' = WithStatus(events, status) PROVE Goal
  BY <1>1, <1>3 DEF WithStatus, Queued
<1>4. ASSUME NEW d \in Device, NEW a \in Adjustment, NEW operation \in Operations,
             NEW base \in Nat, NEW quantity \in Nat, NEW trashed \in BOOLEAN,
             Enqueue(d, a, operation, base, quantity, trashed)
      PROVE  Goal
  <2>1. Len(queue) \in Nat /\ DOMAIN queue = 1 .. Len(queue) /\ queue \in Seq(Queued)
    BY DEF TypeOK
  <2>2. /\ \A e : e \in DOMAIN queue' <=> e \in DOMAIN queue \/ e = Len(queue) + 1
        /\ \A e \in DOMAIN queue : queue'[e] = queue[e]
    BY <1>4, EnqueueStep
  <2>3. queue'[Len(queue) + 1].due
    BY <1>4, <2>1 DEF Enqueue
  <2>4. QED
    BY <2>2, <2>3
<1>5. ASSUME NEW f \in DOMAIN queue, NEW base \in Nat, NEW quantity \in Nat, NEW trashed \in BOOLEAN,
             Coalesce(f, base, quantity, trashed)
      PROVE  Goal
  <2>1. /\ DOMAIN queue' = DOMAIN queue
        /\ \A e \in DOMAIN queue : e # f => queue'[e] = queue[e]
    <3>1. DOMAIN queue' = DOMAIN queue
      BY <1>5, CoalesceStep
    <3>2. ASSUME NEW e \in DOMAIN queue, e # f PROVE queue'[e] = queue[e]
      BY <1>5, <3>2, CoalesceStep
    <3>3. QED
      BY <3>1, <3>2
  <2>2. queue[f] \in Queued /\ queue' = [queue EXCEPT ![f] = [queue[f] EXCEPT !.body = queue'[f].body]]
    BY <1>5, EventType DEF Coalesce, Queued
  <2>3. /\ queue'[f].due = queue[f].due /\ queue'[f].delayed = queue[f].delayed
        /\ queue'[f].body.device = queue[f].body.device
    BY <1>5, <2>2, CoalesceStep DEF Queued
  <2>4. QED
    BY <2>1, <2>3
<1>6. ASSUME NEW d \in Device, ClaimPendingBatch(d) PROVE Goal
  <2>1. \A e \in DOMAIN queue :
          queue'[e] = [queue[e] EXCEPT !.status = "SYNCING", !.sent = TRUE] \/ queue'[e] = queue[e]
    BY <1>6 DEF ClaimPendingBatch
  <2>2. QED
    BY <1>1, <1>6, <2>1 DEF ClaimPendingBatch, Queued
<1>7. ASSUME NEW d \in Device, ReceiveResults(d) PROVE Goal
  <2>1. \A e \in DOMAIN queue :
          queue'[e] = [queue[e] EXCEPT !.status = Answer(e).status] \/ queue'[e] = queue[e]
    BY <1>7 DEF ReceiveResults
  <2>2. QED
    BY <1>1, <1>7, <2>1 DEF ReceiveResults, Queued
<1>8. ASSUME NEW d \in Device, NEW due \in BOOLEAN, Defer(d, due) PROVE Goal
  BY <1>1, <1>8, DeferStep
<1> HIDE DEF Goal
<1>9. ASSUME NEW d \in Device, UserStep(d) PROVE Goal
  <2>1. ASSUME NEW a \in Adjustment, NEW quantity \in Quantity, Create(d, a, quantity) PROVE Goal
    BY <1>4, <2>1, SyncAssumption DEF Create, Operations
  <2>2. ASSUME NEW a \in Adjustment, NEW quantity \in Nat, NEW trashed \in BOOLEAN,
               Mutate(d, a, quantity, trashed)
        PROVE  Goal
    <3>1. PICK base, next \in Nat :
            \/ Enqueue(d, a, "UPDATE", base, quantity, trashed)
            \/ \E f \in OpenEvents(d, a) : Coalesce(f, base, quantity, trashed)
      BY <2>2, MutateCases
    <3>2. OpenEvents(d, a) \subseteq DOMAIN queue
      BY DEF OpenEvents, EventsOf
    <3>3. QED
      BY <1>4, <1>5, <3>1, <3>2 DEF Operations
  <2>3. QED
    BY <1>9, <2>1, <2>2, UserKinds
<1>10. ASSUME NEW d \in Device, CycleStep(d) PROVE Goal
  <2>1. CASE NothingPending(d) \/ Pull(d) \/ ApplyPullPage(d)
    BY <1>2, <2>1 DEF NothingPending, Pull, ApplyPullPage, sqlite
  <2>2. CASE StartCycle(d) \/ RejectResults(d)
    BY <1>3, <2>2 DEF StartCycle, RejectResults, FailBatch
  <2>3. QED
    BY <1>6, <1>7, <1>10, <2>1, <2>2 DEF CycleStep
<1>11. ASSUME NEW d \in Device, FaultStep(d) PROVE Goal
  <2>1. CASE ServerError(d)
    BY <1>3, <2>1 DEF ServerError, FailBatch
  <2>2. CASE Crash(d) \/ PullFails(d)
    BY <1>2, <2>2 DEF Crash, PullFails, sqlite
  <2>3. CASE LoseRequest(d) \/ AuthRequired(d)
    BY <1>8, <2>3 DEF LoseRequest, AuthRequired
  <2>4. QED
    BY <1>11, <2>1, <2>2, <2>3 DEF FaultStep
<1>12. ASSUME NEW d \in Device, Process(d) PROVE Goal
  BY <1>2, <1>12 DEF Process, sqlite
<1>13. ASSUME NEW bodies \in late, ProcessLate(bodies) \/ LoseLate(bodies) PROVE Goal
  BY <1>2, <1>13 DEF ProcessLate, LoseLate, sqlite
<1>14. ASSUME NEW f \in DOMAIN queue, BecomesDue(f) PROVE Goal
  <2>1. queue[f] \in Queued /\ queue' = [queue EXCEPT ![f] = [queue[f] EXCEPT !.due = TRUE]]
    BY <1>1, <1>14 DEF BecomesDue
  <2>2. queue'[f].body = queue[f].body /\ queue'[f].delayed = queue[f].delayed /\ queue'[f].due = TRUE
    BY <1>14, <2>1 DEF Queued
  <2>3. DOMAIN queue' = DOMAIN queue /\ \A e \in DOMAIN queue : e # f => queue'[e] = queue[e]
    BY <2>1
  <2>4. QED
    BY <2>2, <2>3 DEF Goal
<1>15. CASE UNCHANGED vars
  BY <1>2, <1>15 DEF vars, sqlite
<1>16. QED
  BY <1>9, <1>10, <1>11, <1>12, <1>13, <1>14, <1>15 DEF Next

LEMMA PutOffGrows ==
  ASSUME TypeOK, QueueInv, [Next]_vars, \A e \in DOMAIN queue : queue[e].due \/ queue[e].delayed,
         NEW d \in Device
  PROVE  PutOff(d) \subseteq PutOff(d)'
BY DelaysKept DEF PutOff, EventsOf

LEMMA ResentStep ==
  ASSUME IInv, IInv', ResentInv, [Next]_vars
  PROVE  ResentInv'
<1>1. TypeOK /\ TypeOK' /\ QueueInv /\ LedgerInv /\ BatchInv
  BY DEF IInv
<1>2. \A e \in DOMAIN queue' : queue'[e].due \/ queue'[e].delayed
  BY <1>1, DelaysKept DEF ResentInv
<1>3. ASSUME NEW d \in Device PROVE ResentOf(d)'
  <2>1. PutOff(d) \subseteq PutOff(d)'
    BY <1>1, PutOffGrows DEF ResentInv
  <2>2. QED
    BY <1>1, <2>1, OthersStandStill, StandingResends, CycleResends DEF ResentInv
<1>4. QED
  BY <1>2, <1>3 DEF ResentInv

\* Only the end of a pull moves the cursor.
LEMMA CursorKinds ==
  ASSUME TypeOK, [Next]_vars, NEW d \in Device
  PROVE  \/ cursor'[d] = cursor[d]
         \/ phase[d] = "applying" /\ ApplyPullPage(d) /\ cursor'[d] = upto[d]
<1>1. ASSUME NEW c \in Device, ApplyPullPage(c)
      PROVE  (c = d /\ cursor'[d] = upto[d]) \/ cursor'[d] = cursor[d]
  BY <1>1 DEF ApplyPullPage, TypeOK
<1>2. ASSUME NEW c \in Device, UserStep(c) PROVE UNCHANGED cursor
  BY <1>2 DEF UserStep, Create, Edit, SetTrashed, Mutate
<1>3. ASSUME NEW c \in Device, CycleStep(c) PROVE UNCHANGED cursor \/ ApplyPullPage(c)
  BY <1>3 DEF CycleStep, StartCycle, ClaimPendingBatch, NothingPending, ReceiveResults,
    RejectResults, FailBatch, Pull, sqlite
<1>4. ASSUME NEW c \in Device, FaultStep(c) PROVE UNCHANGED cursor
  BY <1>4 DEF FaultStep, ServerError, FailBatch, LoseRequest, AuthRequired, Defer, Crash, PullFails, sqlite
<1>5. ASSUME NEW c \in Device, Process(c) PROVE UNCHANGED cursor
  BY <1>5 DEF Process, sqlite
<1>6. ASSUME NEW bodies \in late, ProcessLate(bodies) \/ LoseLate(bodies) PROVE UNCHANGED cursor
  BY <1>6 DEF ProcessLate, LoseLate, sqlite
<1>7. ASSUME NEW e \in DOMAIN queue, BecomesDue(e) PROVE UNCHANGED cursor
  BY <1>7 DEF BecomesDue
<1>8. CASE UNCHANGED vars
  BY <1>8 DEF vars, sqlite
<1>9. QED
  BY <1>1, <1>2, <1>3, <1>4, <1>5, <1>6, <1>7, <1>8 DEF Next, ApplyPullPage

\* A result that is new is that of the last change.
LEMMA NewResultIsLast ==
  ASSUME TypeOK, QueueInv, [Next]_vars, NEW e \in Events, ledger'[e] # ledger[e], ledger'[e].status = "SYNCED"
  PROVE  ledger'[e].sequence = Len(feed) + 1
<1>1. PICK b \in Bodies : Decide(b)
  BY ServerStep DEF server
<1>2. b.event \in Events /\ ledger \in [Events -> {Undecided} \cup Results]
  BY DEF Bodies, TypeOK
<1>3. QED
  BY <1>1, <1>2 DEF Decide, server

LEMMA AheadStep ==
  ASSUME IInv, IInv', ResentInv, AheadInv, [Next]_vars
  PROVE  AheadInv'
<1>1. TypeOK /\ TypeOK' /\ QueueInv /\ LedgerInv /\ BatchInv /\ CursorInv
  BY DEF IInv
<1> SUFFICES ASSUME NEW d \in Device, NEW e \in Unsettled(d)' \ PutOff(d)',
                    ledger'[e].status = "SYNCED"
             PROVE  cursor'[d] < ledger'[e].sequence
  BY DEF AheadInv
<1>2. e \in DOMAIN queue' /\ e \in Events
  <2>1. e \in DOMAIN queue'
    BY DEF Unsettled, EventsOf
  <2>2. /\ DOMAIN queue' = 1 .. Len(queue') /\ Len(queue') \in Nat /\ Len(queue') <= MaxEvents
    BY <1>1 DEF TypeOK
  <2>3. QED
    BY <2>1, <2>2, SyncAssumption DEF Events
<1>3. cursor'[d] <= Len(feed) /\ cursor'[d] \in Nat /\ Len(feed) \in Nat
  <2>1. /\ cursor[d] \in Nat /\ upto[d] \in Nat /\ Len(feed) \in Nat
        /\ cursor[d] <= Len(feed) /\ (phase[d] = "applying" => upto[d] <= Len(feed))
    BY <1>1 DEF TypeOK, CursorInv
  <2>2. QED
    BY <1>1, <2>1, CursorKinds
<1>4. CASE ledger'[e] # ledger[e]
  <2>1. ledger'[e].sequence = Len(feed) + 1
    BY <1>1, <1>2, <1>4, NewResultIsLast
  <2>2. QED
    BY <1>3, <2>1
<1>5. CASE ledger'[e] = ledger[e]
  <2>1. ledger[e] # Undecided
    BY <1>5 DEF Undecided
  <2>2. ledger[e].body \in Travelling /\ ledger[e].body.event = e
    BY <1>1, <1>2, <2>1 DEF Travelling, LedgerInv
  <2>3. e \in DOMAIN queue /\ queue[e].sent
    BY <1>1, <2>2 DEF QueueInv
  <2>4. e \in Unsettled(d)
    <3>1. CASE StandsStill(d)
      BY <2>3, <3>1 DEF StandsStill, Unsettled
    <3>2. CASE ClaimPendingBatch(d)
      <4>1. EventsOf(d)' = EventsOf(d)
        BY <1>1, <3>2, CycleOutbox DEF CycleStep, EventsOf
      <4>2. queue'[e] = queue[e] \/ e \in PendingBatch(d)
        BY <2>3, <3>2 DEF ClaimPendingBatch
      <4>3. \A f \in PendingBatch(d) : queue[f].status = "PENDING"
        BY DEF PendingBatch, Ready
      <4>4. QED
        BY <4>1, <4>2, <4>3 DEF Unsettled
    <3>3. CASE (CycleStep(d) \/ FaultStep(d)) /\ ~ClaimPendingBatch(d)
      <4>1. MovesOn(d)
        BY <1>1, <3>3, CycleMovesOn
      <4>2. QED
        BY <4>1 DEF MovesOn, Unsettled
    <3>4. QED
      BY <1>1, <3>1, <3>2, <3>3, OthersStandStill DEF ResentInv
  <2>5. e \notin PutOff(d)
    BY <1>1, PutOffGrows DEF ResentInv
  <2>6. CASE cursor'[d] = cursor[d]
    BY <1>5, <2>4, <2>5, <2>6 DEF AheadInv
  <2>7. CASE phase[d] = "applying"
    BY <2>3, <2>4, <2>5, <2>7 DEF ResentInv, ResentOf, SentOut
  <2>8. QED
    BY <1>1, <2>6, <2>7, CursorKinds
<1>6. QED
  BY <1>4, <1>5

\* A page leaves nothing behind of a row it may replace.
LEMMA PageLeavesNothing ==
  ASSUME TypeOK, CursorInv, NothingPassedOver, NEW d \in Device, NEW a \in Adjustment,
         phase[d] = "applying", Mirrored(d, a).ownership \in {"none", "SERVER_SYNCED"},
         NEW i \in Mirrored(d, a).sequence + 1 .. upto[d]
  PROVE  feed[i].adjustment # a \/ (Mirrored(d, a) = local[d][a] /\ ShowsPutOff(d, a))
<1>1. /\ local[d][a] \in LocalRows /\ local[d][a].sequence \in Nat
      /\ cursor[d] \in Nat /\ upto[d] \in Nat /\ upto[d] <= Len(feed)
  BY DEF TypeOK, LocalRows, CursorInv
<1>2. CASE /\ local[d][a].ownership \in {"none", "SERVER_SYNCED"}
           /\ \E j \in Pulled(d, a) : j > local[d][a].sequence
  <2> DEFINE last == CHOOSE k \in Pulled(d, a) : \A j \in Pulled(d, a) : j <= k
  <2>1. /\ last \in Pulled(d, a) /\ \A j \in Pulled(d, a) : j <= last
        /\ last \in Nat
    BY <1>2, LastPulled
  <2>2. Mirrored(d, a).sequence = last
    BY <1>2 DEF Mirrored, Row
  <2> HIDE DEF last
  <2>3. i \in Nat /\ i > last /\ i <= upto[d]
    BY <1>1, <2>1, <2>2
  <2>4. i \notin Pulled(d, a)
    BY <2>1, <2>3
  <2>5. i \in cursor[d] + 1 .. upto[d]
    BY <1>1, <2>1, <2>3 DEF Pulled
  <2>6. QED
    BY <2>4, <2>5 DEF Pulled
<1>3. CASE ~ /\ local[d][a].ownership \in {"none", "SERVER_SYNCED"}
             /\ \E j \in Pulled(d, a) : j > local[d][a].sequence
  <2>1. Mirrored(d, a) = local[d][a]
    BY <1>3 DEF Mirrored
  <2>2. i \in local[d][a].sequence + 1 .. upto[d]
    BY <2>1
  <2>3. i \notin Pulled(d, a)
    BY <1>1, <1>3, <2>1, <2>2 DEF Pulled
  <2>4. CASE i > cursor[d]
    BY <1>1, <2>2, <2>3, <2>4 DEF Pulled
  <2>5. CASE i <= cursor[d]
    <3>1. i \in local[d][a].sequence + 1 .. cursor[d]
      BY <1>1, <2>2, <2>5
    <3>2. QED
      BY <2>1, <3>1 DEF NothingPassedOver
  <2>6. QED
    BY <1>1, <2>2, <2>4, <2>5
<1>4. QED
  BY <1>2, <1>3

\* A row that shows its own belated change does so until the row changes.
LEMMA ShowsPutOffKept ==
  ASSUME IInv, ResentInv, [Next]_vars, NEW d \in Device, NEW a \in Adjustment,
         ShowsPutOff(d, a), local'[d][a] = local[d][a]
  PROVE  ShowsPutOff(d, a)'
<1>1. TypeOK /\ QueueInv /\ LedgerInv /\ BatchInv
  BY DEF IInv
<1>2. PICK e \in PutOff(d) :
        /\ queue[e].body.adjustment = a
        /\ ledger[e].status = "SYNCED" /\ ledger[e].sequence = local[d][a].sequence
  BY DEF ShowsPutOff
<1>3. e \in DOMAIN queue /\ e \in Events
  BY <1>1, EventType DEF PutOff, EventsOf
<1>4. ledger[e] # Undecided
  BY <1>2 DEF Undecided
<1>5. ledger'[e] = ledger[e]
  BY <1>1, <1>3, <1>4, ServerTypeStep
<1>6. queue[e].sent
  <2>1. ledger[e].body \in Travelling /\ ledger[e].body.event = e
    BY <1>1, <1>3, <1>4 DEF Travelling, LedgerInv
  <2>2. QED
    BY <1>1, <2>1 DEF QueueInv
<1>7. queue'[e].body = queue[e].body
  BY <1>1, <1>3, <1>6, SentKept
<1>8. e \in PutOff(d)'
  BY <1>1, PutOffGrows DEF ResentInv
<1>9. QED
  BY <1>2, <1>5, <1>7, <1>8 DEF ShowsPutOff

\* A row becomes the server's by an answer or by a pull only.
LEMMA RowKinds ==
  ASSUME TypeOK, [Next]_vars, NEW d \in Device, NEW a \in Adjustment
  PROVE  \/ local'[d][a] = local[d][a] \/ local'[d][a].ownership \notin {"none", "SERVER_SYNCED"}
         \/ ReceiveResults(d) \/ ApplyPullPage(d)
<1> DEFINE Goal ==
         \/ local'[d][a] = local[d][a] \/ local'[d][a].ownership \notin {"none", "SERVER_SYNCED"}
         \/ ReceiveResults(d) \/ ApplyPullPage(d)
<1> SUFFICES Goal
  OBVIOUS
<1>1. local[d][a] \in LocalRows /\ local \in [Device -> [Adjustment -> LocalRows]]
  BY DEF TypeOK
<1>2. ASSUME NEW c \in Device, NEW b \in Adjustment, NEW version, NEW quantity, NEW trashed,
             local' = [local EXCEPT ![c][b] = Row("LOCAL_PENDING", version, quantity, trashed, 0)]
      PROVE  Goal
  BY <1>1, <1>2 DEF Row
<1>3. ASSUME NEW c \in Device, NEW events, NEW ownership \in {"LOCAL_PENDING", "SYNCING", "FAILED"},
             local' = WithOwnership(c, events, ownership)
      PROVE  Goal
  <2>1. \/ local'[d][a] = local[d][a]
        \/ local'[d][a] = [local[d][a] EXCEPT !.ownership = ownership]
    BY <1>3, WithOwnershipStep
  <2>2. QED
    BY <1>1, <2>1 DEF LocalRows
<1>4. ASSUME NEW c \in Device, c # d, ReceiveResults(c) \/ ApplyPullPage(c) PROVE Goal
  BY <1>4, OtherRows
<1>5. ASSUME NEW c \in Device, NEW b \in Adjustment, NEW quantity \in Quantity, Create(c, b, quantity) PROVE Goal
  BY <1>2, <1>5 DEF Create
<1>6. ASSUME NEW c \in Device, NEW b \in Adjustment, NEW quantity \in Nat, NEW trashed \in BOOLEAN,
             Mutate(c, b, quantity, trashed)
      PROVE  Goal
  BY <1>2, <1>6 DEF Mutate
<1>7. ASSUME NEW c \in Device, \/ ClaimPendingBatch(c) \/ FailBatch(c)
                               \/ \E due \in BOOLEAN : Defer(c, due)
      PROVE  Goal
  BY <1>3, <1>7 DEF ClaimPendingBatch, FailBatch, Defer
<1> HIDE DEF Goal
<1>8. CASE UNCHANGED local
  BY <1>8 DEF Goal
<1>9. ASSUME NEW c \in Device, ReceiveResults(c) \/ ApplyPullPage(c) PROVE Goal
  BY <1>4, <1>9 DEF Goal
<1>10. QED
  BY <1>5, <1>6, <1>7, <1>8, <1>9, LocalKinds

LEMMA PassedStep ==
  ASSUME IInv, IInv', ResentInv, AheadInv, NothingPassedOver, [Next]_vars
  PROVE  NothingPassedOver'
<1>1. TypeOK /\ TypeOK' /\ QueueInv /\ LedgerInv /\ BatchInv /\ CursorInv
  BY DEF IInv
<1> SUFFICES ASSUME NEW d \in Device, NEW a \in Adjustment,
                    local'[d][a].ownership \in {"none", "SERVER_SYNCED"},
                    NEW i \in local'[d][a].sequence + 1 .. cursor'[d], feed'[i].adjustment = a,
                    ~ShowsPutOff(d, a)'
             PROVE  FALSE
  BY DEF NothingPassedOver
<1>2. /\ local[d][a] \in LocalRows /\ local'[d][a] \in LocalRows
      /\ local'[d][a].sequence \in Nat /\ cursor[d] \in Nat /\ upto[d] \in Nat
  BY <1>1 DEF TypeOK, LocalRows
<1>3. cursor'[d] <= Len(feed) /\ cursor'[d] \in Nat /\ Len(feed) \in Nat
  <2>1. /\ cursor[d] \in Nat /\ upto[d] \in Nat /\ Len(feed) \in Nat
        /\ cursor[d] <= Len(feed) /\ (phase[d] = "applying" => upto[d] <= Len(feed))
    BY <1>1 DEF TypeOK, CursorInv
  <2>2. QED
    BY <1>1, <2>1, CursorKinds
<1>4. feed[i].adjustment = a
  <2>1. i \in DOMAIN feed
    BY <1>1, <1>2, <1>3 DEF TypeOK
  <2>2. QED
    BY <1>1, <2>1, ServerTypeStep
<1>5. CASE phase[d] = "applying" /\ ApplyPullPage(d) /\ cursor'[d] = upto[d]
  <2>1. local'[d][a] = Mirrored(d, a)
    BY <1>1, <1>5 DEF ApplyPullPage, TypeOK
  <2>2. QED
    BY <1>1, <1>4, <1>5, <2>1, PageLeavesNothing, ShowsPutOffKept
<1>6. CASE cursor'[d] = cursor[d]
  <2>1. CASE local'[d][a] = local[d][a]
    BY <1>4, <1>6, <2>1, ShowsPutOffKept DEF NothingPassedOver
  <2>2. CASE local'[d][a].ownership \notin {"none", "SERVER_SYNCED"}
    BY <2>2
  <2>3. ASSUME NEW e \in batch[d], queue[e].body.adjustment = a,
               local'[d][a] = AfterAnswer(local[d][a], ledger[e]), ReceiveResults(d)
        PROVE  FALSE
    <3>1. /\ ledger[e] \in Results /\ e \in EventsOf(d) /\ queue[e].status = "SYNCING"
      BY <1>1, <2>3, AnswerDecided DEF ReceiveResults
    <3>2. CASE ledger[e].status = "SYNCED"
      <4>1. local'[d][a].sequence = ledger[e].sequence
        BY <2>3, <3>2 DEF AfterAnswer, Row
      <4>2. CASE e \in PutOff(d)
        <5>1. e \in PutOff(d)' /\ queue'[e].body = queue[e].body /\ ledger'[e] = ledger[e]
          <6>1. e \in DOMAIN queue /\ queue[e].sent
            BY <1>1, <3>1, SentFact DEF EventsOf
          <6>2. queue'[e].body = queue[e].body
            BY <1>1, <6>1, SentKept
          <6>3. QED
            BY <1>1, <2>3, <4>2, <6>2, PutOffGrows DEF ResentInv, ReceiveResults, server
        <5>2. QED
          BY <2>3, <3>2, <4>1, <5>1 DEF ShowsPutOff
      <4>3. CASE e \notin PutOff(d)
        <5>1. cursor[d] < ledger[e].sequence /\ ledger[e].sequence \in Nat
          BY <3>1, <3>2, <4>3 DEF AheadInv, Unsettled, Results
        <5>2. QED
          BY <1>2, <1>6, <4>1, <5>1
      <4>4. QED
        BY <4>2, <4>3
    <3>3. CASE ledger[e].status = "FAILED" /\ local[d][a].ownership \in {"LOCAL_PENDING", "SYNCING"}
      <4>1. local'[d][a].ownership = "FAILED"
        BY <1>2, <2>3, <3>3 DEF AfterAnswer, LocalRows
      <4>2. QED
        BY <4>1
    <3>4. CASE /\ ledger[e].status # "SYNCED"
               /\ ~(ledger[e].status = "FAILED" /\ local[d][a].ownership \in {"LOCAL_PENDING", "SYNCING"})
      BY <2>1, <2>3, <3>4 DEF AfterAnswer
    <3>5. QED
      BY <3>2, <3>3, <3>4
  <2>4. \/ local'[d][a] = local[d][a] \/ local'[d][a].ownership \notin {"none", "SERVER_SYNCED"}
        \/ ReceiveResults(d) \/ ApplyPullPage(d)
    BY <1>1, RowKinds
  <2>5. CASE ReceiveResults(d)
    BY <1>1, <2>1, <2>3, <2>5, AnsweredRows
  <2>6. CASE ApplyPullPage(d)
    BY <1>1, <1>5, <1>6, <2>6 DEF ApplyPullPage, TypeOK
  <2>7. QED
    BY <2>1, <2>2, <2>4, <2>5, <2>6
<1>7. QED
  BY <1>1, <1>5, <1>6, CursorKinds

\* The inductive invariant of sending again and pulling, whatever requests are
\* lost, refused, answered with errors, interrupted or executed late.
THEOREM PullInvariant == Spec => []PullInv
<1>1. Init => PullInv
  <2>1. ASSUME Init PROVE ResentInv /\ AheadInv /\ NothingPassedOver
    BY <2>1 DEF Init, ResentInv, ResentOf, AheadInv, SentOut, Unsettled, EventsOf, NothingPassedOver, Missing
  <2>2. QED
    BY <2>1, InitInv DEF PullInv
<1>2. PullInv /\ [Next]_vars => PullInv'
  <2>1. ASSUME PullInv, [Next]_vars PROVE PullInv'
    <3>1. IInv /\ IInv' /\ ResentInv /\ AheadInv /\ NothingPassedOver
      BY <2>1, IInvStep DEF PullInv
    <3>2. QED
      BY <2>1, <3>1, ResentStep, AheadStep, PassedStep DEF PullInv
  <2>2. QED
    BY <2>1
<1>3. QED
  BY <1>1, <1>2, PTL DEF Spec

\* The cursor of a device never passes a change of a row the device shows in an
\* older version, although pulls skip rows with local work: what the device
\* sent is answered before the next pull, unless it was put off after a lost
\* response, and then the row shows just that change.
THEOREM NoChangeIsPassedOver == Spec => []NothingPassedOver
<1>1. PullInv => NothingPassedOver
  BY DEF PullInv
<1>2. QED
  BY <1>1, PullInvariant, PTL

-----------------------------------------------------------------------------
(* The whole system implements ExactlyOnce.                                *)

\* A verdict a device has taken stays, about the same event.
LEMMA SettledKept ==
  ASSUME TypeOK, QueueInv, BatchInv, [Next]_vars, NEW e \in Settled
  PROVE  e \in Settled' /\ queue'[e].body = queue[e].body
<1>1. /\ e \in DOMAIN queue /\ queue[e] \in Queued /\ queue[e].sent
      /\ queue[e].status \in {"SYNCED", "CONFLICT"}
  BY SentFact DEF Settled
<1>2. e \in DOMAIN queue' /\ queue'[e].body = queue[e].body
  BY <1>1, SentKept
<1> DEFINE Goal == queue'[e].status = queue[e].status
<1>3. \A d \in Device : e \notin batch[d]
  BY <1>1 DEF BatchInv
<1>4. ASSUME NEW d \in Device, UserStep(d) PROVE Goal
  <2>1. CASE \E a \in Adjustment, quantity \in Quantity : Create(d, a, quantity)
    BY <1>1, <2>1, UserKeeps, SyncAssumption
  <2>2. CASE \E a \in Adjustment, quantity \in Nat, trashed \in BOOLEAN : Mutate(d, a, quantity, trashed)
    BY <1>1, <2>2, UserKeeps
  <2>3. QED
    BY <1>4, <2>1, <2>2, UserKinds
<1>5. ASSUME NEW d \in Device, FailBatch(d) PROVE Goal
  BY <1>1, <1>3, <1>5 DEF FailBatch, WithStatus
<1>6. ASSUME NEW d \in Device, CycleStep(d) PROVE Goal
  <2>1. CASE StartCycle(d)
    BY <1>1, <2>1 DEF StartCycle, WithStatus
  <2>2. CASE ClaimPendingBatch(d)
    BY <1>1, <2>2 DEF ClaimPendingBatch, PendingBatch, Ready
  <2>3. CASE ReceiveResults(d)
    BY <1>1, <1>3, <2>3 DEF ReceiveResults
  <2>4. CASE RejectResults(d)
    BY <1>5, <2>4 DEF RejectResults
  <2>5. CASE NothingPending(d) \/ Pull(d) \/ ApplyPullPage(d)
    BY <2>5 DEF NothingPending, Pull, ApplyPullPage, sqlite
  <2>6. QED
    BY <1>6, <2>1, <2>2, <2>3, <2>4, <2>5 DEF CycleStep
<1>7. ASSUME NEW d \in Device, FaultStep(d) PROVE Goal
  <2>1. ASSUME NEW due \in BOOLEAN, Defer(d, due) PROVE Goal
    BY <1>1, <1>3, <2>1, DeferStep
  <2>2. CASE Crash(d) \/ PullFails(d)
    BY <2>2 DEF Crash, PullFails, sqlite
  <2>3. QED
    BY <1>5, <1>7, <2>1, <2>2 DEF FaultStep, ServerError, LoseRequest, AuthRequired
<1>8. ASSUME NEW f \in DOMAIN queue, BecomesDue(f) PROVE Goal
  <2>1. queue'[e] = queue[e] \/ queue'[e] = [queue[e] EXCEPT !.due = TRUE]
    BY <1>1, <1>8 DEF BecomesDue
  <2>2. QED
    BY <1>1, <2>1 DEF Queued
<1>9. ASSUME NEW d \in Device, Process(d) PROVE Goal
  BY <1>9 DEF Process, sqlite
<1>10. ASSUME NEW bodies \in late, ProcessLate(bodies) \/ LoseLate(bodies) PROVE Goal
  BY <1>10 DEF ProcessLate, LoseLate, sqlite
<1>11. ASSUME UNCHANGED vars PROVE Goal
  BY <1>11 DEF vars, sqlite
<1> HIDE DEF Goal
<1>12. Goal
  BY <1>4, <1>6, <1>7, <1>8, <1>9, <1>10, <1>11 DEF Next
<1>13. QED
  BY <1>1, <1>2, <1>12 DEF Settled, Goal

\* A device takes a verdict on decided events only.
LEMMA SettledIsDecided ==
  ASSUME TypeOK, QueueInv, VerdictsAgree, NEW e \in Settled
  PROVE  e \in Events /\ ledger[e] # Undecided
<1>1. e \in DOMAIN queue /\ queue[e].status \in {"SYNCED", "CONFLICT"}
  BY DEF Settled
<1>2. QED
  BY <1>1, EventType DEF VerdictsAgree, Undecided

LEMMA InitPromises == Init => Promise!Init
<1> SUFFICES ASSUME Init PROVE Promise!Init
  OBVIOUS
<1>1. \A b \in Bodies : b.event \in Events /\ b.adjustment \in Adjustment
  BY DEF Bodies
<1>2. Decisions = [e \in {b.event : b \in Bodies} |-> Undecided]
  BY <1>1 DEF Init, Decisions
<1>3. NamedRows = [a \in {b.adjustment : b \in Bodies} |-> Absent]
  BY <1>1 DEF Init, NamedRows
<1>4. Heard = {}
  BY DEF Init, Heard, Settled
<1>5. QED
  BY <1>2, <1>3, <1>4 DEF Promise!Init, Promise!EventIds, Promise!AdjustmentIds, Promise!Undecided,
    Undecided, Absent

\* What the methods make of a row they accept an event on.
LEMMA AcceptedRow ==
  ASSUME NEW row \in Rows, NEW b \in Bodies, b.operation = "CREATE" <=> row = Absent,
         Accepts(Method(row, b), row, b)
  PROVE  /\ row.version = b.base
         /\ \E quantity \in {b.quantity, row.quantity} :
              After(Method(row, b), row, b) =
                [version |-> b.base + 1, quantity |-> quantity, trashed |-> b.trashed]
<1>1. b.operation \in {"CREATE", "UPDATE"} /\ b.trashed \in BOOLEAN /\ row.trashed \in BOOLEAN
  BY DEF Bodies, Operations, Rows
<1>2. CASE b.operation = "CREATE"
  <2>1. Method(row, b) = "create"
    BY <1>2 DEF Method
  <2>2. row.version = 0 /\ row.trashed = FALSE /\ b.base = 0 /\ b.trashed = FALSE
    BY <1>1, <1>2, <2>1 DEF Absent, Accepts
  <2>3. QED
    BY <2>1, <2>2 DEF After
<1>3. CASE b.operation = "UPDATE" /\ b.trashed /\ ~row.trashed
  <2>1. Method(row, b) = "trash"
    BY <1>3 DEF Method
  <2>2. row.version = b.base /\ b.trashed = TRUE
    BY <1>1, <1>3, <2>1 DEF Accepts
  <2>3. QED
    BY <2>1, <2>2 DEF After
<1>4. CASE b.operation = "UPDATE" /\ ~b.trashed /\ row.trashed
  <2>1. Method(row, b) = "restore"
    BY <1>4 DEF Method
  <2>2. row.version = b.base /\ b.trashed = FALSE
    BY <1>1, <1>4, <2>1 DEF Accepts
  <2>3. QED
    BY <2>1, <2>2 DEF After
<1>5. CASE b.operation = "UPDATE" /\ (b.trashed <=> row.trashed)
  <2>1. Method(row, b) = "update"
    BY <1>1, <1>5 DEF Method
  <2>2. row.version = b.base /\ b.trashed = FALSE /\ row.trashed = FALSE
    BY <1>1, <1>5, <2>1 DEF Accepts
  <2>3. QED
    BY <2>1, <2>2 DEF After
<1>6. QED
  BY <1>1, <1>2, <1>3, <1>4, <1>5

\* A decision of the server is the abstract one, or a stored one looked up.
LEMMA DecideMaps ==
  ASSUME IInv, NEW b \in Bodies, Decide(b), UNCHANGED sqlite, [Next]_vars
  PROVE  Promise!Next \/ UNCHANGED Promise!vars
<1> USE DEF IInv
<1> DEFINE row == rows[b.adjustment]
           new == After(Method(row, b), row, b)
<1>1. b.event \in Events /\ b.adjustment \in Adjustment /\ row \in Rows
  BY DEF TypeOK, Bodies
<1>2. /\ \A c \in Bodies : c.event \in Events /\ c.adjustment \in Adjustment
      /\ ledger \in [Events -> {Undecided} \cup Results] /\ rows \in [Adjustment -> Rows]
  BY DEF TypeOK, Bodies
<1>3. Heard' = Heard
  <2>1. queue' = queue /\ Settled' = Settled
    BY DEF sqlite, Settled
  <2>2. \A e \in Settled : Verdict(e)' = Verdict(e)
    <3>1. \A e \in Settled : ledger'[e] = ledger[e]
      BY SettledIsDecided, ServerTypeStep
    <3>2. QED
      BY <3>1 DEF Verdict
  <2>3. QED
    BY <2>1, <2>2 DEF Heard
<1>4. CASE UNCHANGED server
  BY <1>3, <1>4 DEF Promise!vars, server, Decisions, NamedRows
<1>5. CASE /\ ledger[b.event] = Undecided
           /\ b.operation = "CREATE" <=> row = Absent
           /\ Accepts(Method(row, b), row, b)
           /\ rows' = [rows EXCEPT ![b.adjustment] = new]
           /\ ledger' = [ledger EXCEPT ![b.event] =
                [status |-> "SYNCED", body |-> b, row |-> new, sequence |-> Len(feed) + 1]]
  <2>1. PICK quantity \in {b.quantity, row.quantity} :
          /\ row.version = b.base
          /\ new = [version |-> b.base + 1, quantity |-> quantity, trashed |-> b.trashed]
    BY <1>1, <1>5, AcceptedRow
  <2>2. NamedRows' = [NamedRows EXCEPT ![b.adjustment] =
          [version |-> b.base + 1, quantity |-> quantity, trashed |-> b.trashed]]
    BY <1>1, <1>2, <1>5, <2>1 DEF NamedRows
  <2>3. Decisions' = [Decisions EXCEPT ![b.event] =
          [status |-> "SYNCED", version |-> b.base + 1, body |-> b]]
    <3> HIDE DEF new
    <3>1. new.version = b.base + 1
      BY <2>1
    <3> DEFINE result == [status |-> "SYNCED", body |-> b, row |-> new, sequence |-> Len(feed) + 1]
    <3>2. /\ result # Undecided /\ result.status = "SYNCED" /\ result.body = b
          /\ result.row.version = b.base + 1
      BY <3>1 DEF Undecided
    <3>3. ledger' = [ledger EXCEPT ![b.event] = result]
      BY <1>5
    <3> HIDE DEF result
    <3>4. /\ ledger'[b.event] = result
          /\ \A e \in Events : e # b.event => ledger'[e] = ledger[e]
      BY <1>1, <1>2, <3>3
    <3>5. QED
      BY <1>2, <3>2, <3>4 DEF Decisions
  <2>4. /\ Decisions[b.event] = Promise!Undecided /\ NamedRows[b.adjustment] = row
    BY <1>5 DEF Decisions, NamedRows, Promise!Undecided, Undecided
  <2>5. Promise!Accept(b)
    BY <1>3, <2>1, <2>2, <2>3, <2>4 DEF Promise!Accept
  <2>6. QED
    BY <2>5 DEF Promise!Next
<1>6. CASE /\ ledger[b.event] = Undecided
           /\ \E status \in {"CONFLICT", "FAILED"} :
                ledger' = [ledger EXCEPT ![b.event] =
                  [status |-> status, body |-> b, row |-> Absent, sequence |-> 0]]
           /\ UNCHANGED <<rows, feed>>
  <2>1. PICK status \in {"CONFLICT", "FAILED"} :
          ledger' = [ledger EXCEPT ![b.event] =
            [status |-> status, body |-> b, row |-> Absent, sequence |-> 0]]
    BY <1>6
  <2>2. Decisions' = [Decisions EXCEPT ![b.event] = [status |-> status, version |-> 0, body |-> b]]
    <3> DEFINE result == [status |-> status, body |-> b, row |-> Absent, sequence |-> 0]
    <3>1. /\ result # Undecided /\ result.status = status /\ result.body = b
          /\ result.row.version = 0
      BY DEF Undecided, Absent
    <3>2. ledger' = [ledger EXCEPT ![b.event] = result]
      BY <2>1
    <3> HIDE DEF result
    <3>3. /\ ledger'[b.event] = result
          /\ \A e \in Events : e # b.event => ledger'[e] = ledger[e]
      BY <1>1, <1>2, <3>2
    <3>4. QED
      BY <1>2, <3>1, <3>3 DEF Decisions
  <2>3. Decisions[b.event] = Promise!Undecided /\ NamedRows' = NamedRows
    BY <1>6 DEF Decisions, NamedRows, Promise!Undecided, Undecided
  <2>4. Promise!Refuse(b)
    BY <1>3, <2>2, <2>3 DEF Promise!Refuse
  <2>5. QED
    BY <2>4 DEF Promise!Next
<1>7. QED
  BY <1>4, <1>5, <1>6 DEF Decide

\* Verdicts taken by devices are answers that are told.
LEMMA VerdictsMap ==
  ASSUME IInv, IInv', [Next]_vars, UNCHANGED server
  PROVE  Promise!Next
<1> DEFINE bodies == {queue'[e].body : e \in Settled'}
<1>1. Decisions' = Decisions /\ NamedRows' = NamedRows /\ ledger' = ledger
  BY DEF server, Decisions, NamedRows
<1>2. /\ TypeOK /\ QueueInv /\ BatchInv /\ VerdictsAgree /\ LedgerInv
      /\ TypeOK' /\ QueueInv' /\ VerdictsAgree'
  BY DEF IInv
<1>3. ASSUME NEW e \in Settled'
      PROVE  /\ queue'[e].body \in Bodies /\ queue'[e].body.event = e
             /\ Decisions[e] # Promise!Undecided
             /\ Verdict(e)' = Promise!AnswerTo(queue'[e].body)
  <2>1. e \in DOMAIN queue' /\ queue'[e].status \in {"SYNCED", "CONFLICT"}
    BY <1>3 DEF Settled
  <2>2. queue' \in Seq(Queued) /\ DOMAIN queue' = 1 .. Len(queue') /\ Len(queue') \in Nat
        /\ Len(queue') <= MaxEvents
    BY <1>2 DEF TypeOK
  <2>3. queue'[e] \in Queued /\ e \in Events
    BY <2>1, <2>2, SyncAssumption DEF Events
  <2>4. queue'[e].body \in Bodies /\ queue'[e].body.event = e
    BY <1>2, <2>1, <2>3 DEF QueueInv, Queued
  <2>5. ledger[e].status = queue'[e].status /\ ledger[e] # Undecided
    BY <1>1, <1>2, <2>1 DEF VerdictsAgree, Undecided
  <2>6. ledger[e].body \in Travelling' /\ ledger[e].body.event = e
    BY <1>1, <1>2, <2>3, <2>5 DEF Travelling, LedgerInv
  <2>7. ledger[e].body = queue'[e].body
    BY <1>2, <2>6 DEF QueueInv
  <2>8. Decisions[e] =
          [status |-> ledger[e].status, version |-> ledger[e].row.version, body |-> ledger[e].body]
    BY <2>4, <2>5 DEF Decisions
  <2>9. Decisions[e] # Promise!Undecided
    BY <2>1, <2>5, <2>8 DEF Promise!Undecided
  <2>10. Verdict(e)' = Promise!AnswerTo(queue'[e].body)
    BY <1>1, <2>4, <2>7, <2>8 DEF Verdict, Promise!AnswerTo
  <2>11. QED
    BY <2>4, <2>9, <2>10
<1>4. Heard' = {[body |-> b, answer |-> Promise!AnswerTo(b)] : b \in bodies}
  BY <1>3 DEF Heard
<1>5. \A e \in Settled : e \in Settled' /\ queue'[e].body = queue[e].body /\ Verdict(e)' = Verdict(e)
  BY <1>1, <1>2, SettledKept DEF Verdict
<1>6. Heard \subseteq Heard'
  BY <1>5 DEF Heard
<1>7. Heard' = Heard \cup {[body |-> b, answer |-> Promise!AnswerTo(b)] : b \in bodies}
  BY <1>4, <1>6
<1>8. bodies \in SUBSET Bodies /\ \A b \in bodies : Decisions[b.event] # Promise!Undecided
  BY <1>3
<1>9. Promise!Tell(bodies)
  BY <1>1, <1>7, <1>8 DEF Promise!Tell
<1>10. QED
  BY <1>8, <1>9 DEF Promise!Next

\* However users, devices, network and faults interleave, the whole behaves like
\* a server that decides every event once and tells every device the decision.
THEOREM SyncImplementsExactlyOnce == Spec => ImplementsExactlyOnce
<1>1. Init => Promise!Init
  BY InitPromises
<1>2. IInv /\ IInv' /\ [Next]_vars => [Promise!Next]_(Promise!vars)
  <2> SUFFICES ASSUME IInv, IInv', [Next]_vars PROVE Promise!Next \/ UNCHANGED Promise!vars
    OBVIOUS
  <2>1. CASE UNCHANGED server
    BY <2>1, VerdictsMap
  <2>2. ASSUME NEW b \in Bodies, Decide(b), UNCHANGED sqlite
        PROVE  Promise!Next \/ UNCHANGED Promise!vars
    BY <2>2, DecideMaps
  <2>3. QED
    BY <2>1, <2>2, ServerStep DEF IInv
<1>3. QED
  BY <1>1, <1>2, SyncInvariant, PTL DEF Spec, ImplementsExactlyOnce, Promise!Spec
=============================================================================
