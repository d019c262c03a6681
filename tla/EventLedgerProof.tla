-------------------------- MODULE EventLedgerProof --------------------------
(* Proofs about EventLedger, for any events, batches and number of          *)
(* concurrent requests.                                                     *)
EXTENDS EventLedger, TLAPS

\* A request in a transaction works on an event of its batch.
LEMMA EventIsBody ==
  ASSUME TypeOK, NEW w \in Worker, left[w] # <<>>
  PROVE  /\ Event(w) \in Body
         /\ Tail(left[w]) \in Seq(Body)
         /\ Event(w).event \in EventIds
         /\ Event(w).adjustment \in AdjustmentIds
         /\ Event(w).base \in Nat
         /\ Event(w).quantity \in Nat
         /\ Event(w).trashed \in BOOLEAN
         /\ Row(w) \in Rows
<1>1. left[w] \in Seq(Body) /\ Head(left[w]) \in Body /\ Tail(left[w]) \in Seq(Body)
  BY DEF TypeOK
<1>2. QED
  BY <1>1, BodyAssumption DEF TypeOK, Event, EventIds, AdjustmentIds, Row

LEMMA AbsentIsRow == Absent \in Rows
BY DEF Absent, Rows

LEMMA WrittenIsRow ==
  ASSUME NEW row \in Rows, NEW b \in Body, NEW m \in Methods
  PROVE  After(m, row, b) \in Rows
BY BodyAssumption DEF After, Rows

LEMMA MethodIsMethod ==
  ASSUME NEW row, NEW b
  PROVE  Method(row, b) \in Methods
BY DEF Method, Methods

LEMMA InitTyped == Init => TypeOK
BY AbsentIsRow, BodyAssumption DEF Init, TypeOK, HoldsEvent, Stages, Methods

-----------------------------------------------------------------------------
(* Type correctness.                                                       *)

LEMMA FinishTyped ==
  ASSUME TypeOK, NEW w \in Worker, left[w] # <<>>, NEW answer \in Results, Finish(w, answer)
  PROVE  /\ left' \in [Worker -> Seq(Body)]
         /\ told' \in [Worker -> SUBSET [body : Body, answer : Results]]
         /\ stage' \in [Worker -> Stages]
         /\ method' \in [Worker -> Methods]
         /\ outcome' \in [Worker -> {"SYNCED", "CONFLICT", "FAILED"}]
         /\ written' \in [Worker -> Rows]
         /\ \A v \in Worker : HoldsEvent(v)' => left'[v] # <<>>
<1>1. Event(w) \in Body /\ Tail(left[w]) \in Seq(Body)
  BY EventIsBody
<1>2. left' \in [Worker -> Seq(Body)] /\ stage' \in [Worker -> Stages]
  BY <1>1 DEF TypeOK, Finish, Stages
<1>3. told' \in [Worker -> SUBSET [body : Body, answer : Results]]
  <2>1. [body |-> Event(w), answer |-> answer] \in [body : Body, answer : Results]
    BY <1>1
  <2>2. told[w] \cup {[body |-> Event(w), answer |-> answer]} \in SUBSET [body : Body, answer : Results]
    BY <2>1 DEF TypeOK
  <2>3. QED
    BY <2>2 DEF TypeOK, Finish
<1>4. /\ method' \in [Worker -> Methods]
      /\ outcome' \in [Worker -> {"SYNCED", "CONFLICT", "FAILED"}]
      /\ written' \in [Worker -> Rows]
  BY AbsentIsRow DEF TypeOK, Finish, Forget, Methods
<1>5. \A v \in Worker : HoldsEvent(v)' => left'[v] # <<>>
  BY DEF TypeOK, Finish, HoldsEvent
<1>6. QED
  BY <1>2, <1>3, <1>4, <1>5

LEMMA StoreTyped ==
  ASSUME TypeOK, NEW w \in Worker, left[w] # <<>>,
         NEW status \in {"SYNCED", "CONFLICT", "FAILED"}, NEW version \in Nat,
         ledger' = [ledger EXCEPT ![Event(w).event] =
                      [status |-> status, version |-> version, body |-> Event(w)]]
  PROVE  ledger' \in [EventIds -> {Unprocessed} \cup Stored]
<1>1. [status |-> status, version |-> version, body |-> Event(w)] \in Stored
  BY EventIsBody DEF Stored
<1>2. QED
  BY <1>1 DEF TypeOK

LEMMA StoredAnswerTyped ==
  ASSUME TypeOK, NEW b \in Body, ledger[b.event] # Unprocessed
  PROVE  StoredAnswer(b) \in Results
<1>1. ledger[b.event] \in Stored
  BY DEF TypeOK, EventIds
<1>2. QED
  BY <1>1 DEF StoredAnswer, Stored, Results, Mismatch

LEMMA RequestEndsTyped ==
  ASSUME TypeOK, NEW w \in Worker, EndRequest(w)
  PROVE  /\ left' \in [Worker -> Seq(Body)]
         /\ told' \in [Worker -> SUBSET [body : Body, answer : Results]]
         /\ stage' \in [Worker -> Stages]
         /\ method' \in [Worker -> Methods]
         /\ outcome' \in [Worker -> {"SYNCED", "CONFLICT", "FAILED"}]
         /\ written' \in [Worker -> Rows]
         /\ \A v \in Worker : HoldsEvent(v)' => left'[v] # <<>>
BY AbsentIsRow DEF TypeOK, EndRequest, Forget, HoldsEvent, Stages, Methods

LEMMA StepTyped ==
  ASSUME TypeOK, [Next]_vars
  PROVE  TypeOK'
<1>1. CASE UNCHANGED vars
  BY <1>1 DEF TypeOK, vars, request, HoldsEvent
<1>2. ASSUME NEW w \in Worker, NEW batch \in Batch, Push(w, batch) PROVE TypeOK'
  BY <1>2, BodyAssumption DEF TypeOK, Push, HoldsEvent, Stages
<1>3. ASSUME NEW w \in Worker, Reserve(w) PROVE TypeOK'
  BY <1>3 DEF TypeOK, Reserve, HoldsEvent, Stages
<1>4. ASSUME NEW w \in Worker, Replay(w) PROVE TypeOK'
  <2>1. left[w] # <<>> /\ StoredAnswer(Event(w)) \in Results
    BY <1>4, EventIsBody, StoredAnswerTyped DEF Replay
  <2>2. Finish(w, StoredAnswer(Event(w))) /\ UNCHANGED <<ledger, rows, feed, heard>>
    BY <1>4 DEF Replay
  <2>3. QED
    BY <2>1, <2>2, FinishTyped DEF TypeOK
<1>5. ASSUME NEW w \in Worker, Dispatch(w) PROVE TypeOK'
  <2>1. Method(Row(w), Event(w)) \in Methods
    BY MethodIsMethod
  <2>2. QED
    BY <1>5, <2>1 DEF TypeOK, Dispatch, HoldsEvent, Stages
<1>6. ASSUME NEW w \in Worker, Apply(w) PROVE TypeOK'
  <2>1. stage[w] = "dispatched" /\ left[w] # <<>>
    BY <1>6 DEF Apply, TypeOK, HoldsEvent
  <2>2. After(method[w], Row(w), Event(w)) \in Rows
    BY <2>1, EventIsBody, WrittenIsRow DEF TypeOK
  <2>3. Refusal(method[w], Event(w)) \in {"CONFLICT", "FAILED"}
    BY DEF Refusal
  <2>4. outcome' \in [Worker -> {"SYNCED", "CONFLICT", "FAILED"}] /\ written' \in [Worker -> Rows]
    BY ZenonT(60), <1>6, <2>2, <2>3 DEF TypeOK, Apply
  <2>5. stage' \in [Worker -> Stages] /\ \A v \in Worker : HoldsEvent(v)' => left'[v] # <<>>
    BY <1>6, <2>1 DEF TypeOK, Apply, HoldsEvent, Stages
  <2>6. UNCHANGED <<ledger, rows, feed, left, told, method, heard>>
    BY <1>6 DEF Apply
  <2>7. QED
    BY <2>4, <2>5, <2>6 DEF TypeOK
<1>7. ASSUME NEW w \in Worker, Record(w) PROVE TypeOK'
  BY <1>7 DEF TypeOK, Record, HoldsEvent, Stages
<1>8. ASSUME NEW w \in Worker, Commit(w) PROVE TypeOK'
  <2>1. left[w] # <<>> /\ stage[w] = "recorded"
    BY <1>8 DEF Commit, TypeOK, HoldsEvent
  <2>2. written[w] \in Rows /\ written[w].version \in Nat /\ Event(w) \in Body
    BY <2>1, EventIsBody DEF TypeOK, Rows
  <2>3. [status |-> "SYNCED", version |-> written[w].version] \in Results
    BY <2>2 DEF Results
  <2>4. Finish(w, [status |-> "SYNCED", version |-> written[w].version])
    BY <1>8 DEF Commit, Store
  <2>5. ledger' \in [EventIds -> {Unprocessed} \cup Stored]
    BY <1>8, <2>1, <2>2, StoreTyped DEF Commit, Store
  <2>6. rows' \in [AdjustmentIds -> Rows] /\ feed' \in Seq([body : Body, row : Rows])
    <3>1. rows' \in [AdjustmentIds -> Rows]
      BY <1>8, <2>2 DEF Commit, TypeOK
    <3>2. [body |-> Event(w), row |-> written[w]] \in [body : Body, row : Rows]
      BY <2>2
    <3>3. feed \in Seq([body : Body, row : Rows])
      BY DEF TypeOK
    <3>4. Append(feed, [body |-> Event(w), row |-> written[w]]) \in Seq([body : Body, row : Rows])
      BY <3>2, <3>3
    <3>5. QED
      BY <1>8, <3>1, <3>4 DEF Commit
  <2>7. QED
    BY <1>8, <2>1, <2>3, <2>4, <2>5, <2>6, FinishTyped DEF TypeOK, Commit
<1>9. ASSUME NEW w \in Worker, CommitRefusal(w) PROVE TypeOK'
  <2>1. left[w] # <<>> /\ outcome[w] \in {"SYNCED", "CONFLICT", "FAILED"}
    BY <1>9 DEF CommitRefusal, TypeOK, HoldsEvent
  <2>2. [status |-> outcome[w], version |-> 0] \in Results
    BY <2>1 DEF Results
  <2>3. Finish(w, [status |-> outcome[w], version |-> 0])
    BY <1>9 DEF CommitRefusal, Store
  <2>4. ledger' \in [EventIds -> {Unprocessed} \cup Stored]
    BY <1>9, <2>1, StoreTyped DEF CommitRefusal, Store
  <2>5. QED
    BY <1>9, <2>1, <2>2, <2>3, <2>4, FinishTyped DEF TypeOK, CommitRefusal
<1>10. ASSUME NEW w \in Worker, Respond(w) PROVE TypeOK'
  <2>1. EndRequest(w) /\ UNCHANGED <<ledger, rows, feed>> /\ heard' = heard \cup told[w]
    BY <1>10 DEF Respond
  <2>2. heard' \subseteq [body : Body, answer : Results]
    BY <2>1 DEF TypeOK
  <2>3. QED
    BY <2>1, <2>2, RequestEndsTyped DEF TypeOK
<1>11. ASSUME NEW w \in Worker, Abort(w) PROVE TypeOK'
  <2>1. EndRequest(w) /\ UNCHANGED <<ledger, rows, feed, heard>>
    BY <1>11 DEF Abort
  <2>2. QED
    BY <2>1, RequestEndsTyped DEF TypeOK
<1>12. QED
  BY <1>1, <1>2, <1>3, <1>4, <1>5, <1>6, <1>7, <1>8, <1>9, <1>10, <1>11 DEF Next

\* Every variable of the ledger keeps its type.
THEOREM LedgerTypeCorrect == Spec => []TypeOK
BY InitTyped, StepTyped, PTL DEF Spec
-----------------------------------------------------------------------------
(* Transactions keep out of each other's way.                              *)

\* The actions in which a request w neither takes an event id nor a row.
Quiet(w) ==
  \/ \E batch \in Batch : Push(w, batch)
  \/ Replay(w) \/ Respond(w) \/ Abort(w)

LEMMA QuietLeavesOthers ==
  ASSUME TypeOK, NEW w \in Worker, Quiet(w)
  PROVE  /\ UNCHANGED <<ledger, rows, feed>>
         /\ stage'[w] \in {"idle", "next"}
         /\ \A v \in Worker \ {w} : /\ stage'[v] = stage[v] /\ left'[v] = left[v]
                                    /\ method'[v] = method[v] /\ outcome'[v] = outcome[v]
                                    /\ written'[v] = written[v]
<1>1. CASE \E batch \in Batch : Push(w, batch)
  BY <1>1 DEF TypeOK, Push
<1>2. CASE Replay(w)
  BY <1>2 DEF TypeOK, Replay, Finish, Forget
<1>3. CASE Respond(w)
  BY <1>3 DEF TypeOK, Respond, EndRequest, Forget
<1>4. CASE Abort(w)
  BY <1>4 DEF TypeOK, Abort, EndRequest, Forget
<1>5. QED
  BY <1>1, <1>2, <1>3, <1>4 DEF Quiet

LEMMA EventStep ==
  ASSUME TypeOK, EventInv, TypeOK', NEW w \in Worker,
         \/ Quiet(w) \/ Reserve(w) \/ Dispatch(w) \/ Apply(w) \/ Record(w)
         \/ Commit(w) \/ CommitRefusal(w)
  PROVE  EventInv'
<1>1. CASE Quiet(w)
  BY <1>1, QuietLeavesOthers DEF EventInv, HoldsEvent, Event
<1>2. CASE Reserve(w)
  BY <1>2 DEF TypeOK, EventInv, HoldsEvent, Event, Reserve
<1>3. CASE Dispatch(w)
  BY <1>3 DEF TypeOK, EventInv, HoldsEvent, Event, Dispatch
<1>4. CASE Apply(w)
  BY <1>4 DEF TypeOK, EventInv, HoldsEvent, Event, Apply
<1>5. CASE Record(w)
  BY <1>5 DEF TypeOK, EventInv, HoldsEvent, Event, Record
<1>6. CASE Commit(w)
  BY <1>6 DEF TypeOK, EventInv, HoldsEvent, Event, Commit, Store, Finish, Forget
<1>7. CASE CommitRefusal(w)
  BY <1>7 DEF TypeOK, EventInv, HoldsEvent, Event, CommitRefusal, Store, Finish, Forget
<1>8. QED
  BY <1>1, <1>2, <1>3, <1>4, <1>5, <1>6, <1>7

LEMMA RowStep ==
  ASSUME TypeOK, RowInv, NEW w \in Worker,
         \/ Quiet(w) \/ Reserve(w) \/ Dispatch(w) \/ Apply(w) \/ Record(w)
         \/ Commit(w) \/ CommitRefusal(w)
  PROVE  RowInv'
<1>1. CASE Quiet(w)
  BY <1>1, QuietLeavesOthers DEF RowInv, HoldsRow, Event
<1>2. CASE Reserve(w) \/ Dispatch(w)
  BY <1>2 DEF TypeOK, RowInv, HoldsRow, Event, Reserve, Dispatch
<1>3. CASE Apply(w)
  <2>1. /\ left' = left
        /\ \A v \in Worker \ {w} : stage'[v] = stage[v]
        /\ \A v \in Worker \ {w} : HoldsRow(v) => Event(v).adjustment # Event(w).adjustment
    BY <1>3 DEF TypeOK, Apply
  <2>2. \A v \in Worker : Event(v)' = Event(v)
    BY <2>1 DEF Event
  <2>3. \A v \in Worker \ {w} : HoldsRow(v)' = HoldsRow(v)
    BY <2>1 DEF HoldsRow
  <2>4. QED
    BY <2>1, <2>2, <2>3 DEF RowInv
<1>4. CASE Record(w)
  BY <1>4 DEF TypeOK, RowInv, HoldsRow, Event, Record
<1>5. CASE Commit(w) \/ CommitRefusal(w)
  BY ZenonT(60), <1>5 DEF TypeOK, RowInv, HoldsRow, Event, Commit, CommitRefusal, Store, Finish, Forget
<1>6. QED
  BY <1>1, <1>2, <1>3, <1>4, <1>5

LEMMA MethodStep ==
  ASSUME TypeOK, MethodInv, NEW w \in Worker,
         \/ Quiet(w) \/ Reserve(w) \/ Dispatch(w) \/ Apply(w) \/ Record(w)
         \/ Commit(w) \/ CommitRefusal(w)
  PROVE  MethodInv'
<1>1. CASE Quiet(w)
  BY <1>1, QuietLeavesOthers DEF MethodInv, Event
<1>2. CASE Dispatch(w)
  <2>1. Event(w) \in Body /\ Event(w).operation \in Operations /\ Event(w).trashed \in BOOLEAN
    BY <1>2, EventIsBody, BodyAssumption DEF Dispatch, TypeOK, HoldsEvent
  <2>2. /\ Method(Row(w), Event(w)) = "create" <=> Event(w).operation = "CREATE"
        /\ Method(Row(w), Event(w)) = "trash" => Event(w).trashed
        /\ Method(Row(w), Event(w)) = "restore" => ~Event(w).trashed
    BY <2>1 DEF Method, Operations
  <2>3. Event(w).operation # "CREATE" /\ stage'[w] = "dispatched" => Event(w).base > 0
    BY <1>2 DEF Dispatch, TypeOK
  <2>4. QED
    BY <1>2, <2>2, <2>3 DEF TypeOK, MethodInv, Event, Dispatch
<1>3. CASE Reserve(w) \/ Apply(w) \/ Record(w)
  BY <1>3 DEF TypeOK, MethodInv, Event, Reserve, Apply, Record
<1>4. CASE Commit(w) \/ CommitRefusal(w)
  <2>1. PICK answer : Finish(w, answer)
    BY <1>4 DEF Commit, CommitRefusal, Store
  <2>2. /\ stage'[w] = "next"
        /\ \A v \in Worker \ {w} :
             stage'[v] = stage[v] /\ left'[v] = left[v] /\ method'[v] = method[v]
    BY <2>1 DEF TypeOK, Finish, Forget
  <2>3. QED
    BY <2>2 DEF MethodInv, Event
<1>5. QED
  BY <1>1, <1>2, <1>3, <1>4

LEMMA RefusedStep ==
  ASSUME TypeOK, RefusedInv, NEW w \in Worker,
         \/ Quiet(w) \/ Reserve(w) \/ Dispatch(w) \/ Apply(w) \/ Record(w)
         \/ Commit(w) \/ CommitRefusal(w)
  PROVE  RefusedInv'
<1>1. CASE Quiet(w)
  BY <1>1, QuietLeavesOthers DEF RefusedInv
<1>2. CASE Reserve(w) \/ Dispatch(w) \/ Apply(w) \/ Record(w)
  BY <1>2 DEF TypeOK, RefusedInv, Reserve, Dispatch, Apply, Record, Refusal
<1>3. CASE Commit(w) \/ CommitRefusal(w)
  BY <1>3 DEF TypeOK, RefusedInv, Commit, CommitRefusal, Store, Finish, Forget
<1>4. QED
  BY <1>1, <1>2, <1>3

LEMMA WrittenStep ==
  ASSUME TypeOK, RowInv, MethodInv, WrittenInv, NEW w \in Worker,
         \/ Quiet(w) \/ Reserve(w) \/ Dispatch(w) \/ Apply(w) \/ Record(w)
         \/ Commit(w) \/ CommitRefusal(w)
  PROVE  WrittenInv'
<1>1. CASE Quiet(w)
  BY <1>1, QuietLeavesOthers DEF WrittenInv, Follows, HoldsRow, Event, Row
<1>2. CASE Reserve(w) \/ Dispatch(w)
  BY ZenonT(60), <1>2 DEF TypeOK, WrittenInv, Follows, HoldsRow, Event, Row, Reserve, Dispatch
<1>3. CASE Apply(w)
  <2>1. /\ UNCHANGED <<rows, left>>
        /\ \A v \in Worker \ {w} : stage'[v] = stage[v] /\ written'[v] = written[v]
    BY <1>3 DEF TypeOK, Apply
  <2>2. \A v \in Worker : Event(v)' = Event(v) /\ Row(v)' = Row(v)
    BY <2>1 DEF Event, Row
  <2>3. /\ stage[w] = "dispatched" /\ left[w] # <<>>
        /\ Event(w).base \in Nat /\ Event(w).trashed \in BOOLEAN /\ Row(w) \in Rows
    BY <1>3, EventIsBody DEF Apply, TypeOK, HoldsEvent
  <2>4. ASSUME NEW v \in Worker \ {w}, HoldsRow(v)'
        PROVE  Follows(v)'
    BY <2>1, <2>2, <2>4 DEF WrittenInv, HoldsRow, Follows
  <2> SUFFICES ASSUME stage'[w] = "applied" PROVE Follows(w)'
    BY <1>3, <2>4 DEF WrittenInv, HoldsRow, Apply, TypeOK
  <2>5. /\ method[w] = "create" => Row(w) = Absent
        /\ Accepts(method[w], Row(w), Event(w))
        /\ written'[w] = After(method[w], Row(w), Event(w))
    BY <1>3 DEF Apply, TypeOK
  <2>6. method[w] \in Methods
    BY DEF TypeOK
  <2>7. Row(w).version = Event(w).base
    BY <2>5, <2>6 DEF Accepts, Methods, Absent
  <2>8. written'[w].trashed = Event(w).trashed
    BY <2>3, <2>5, <2>6 DEF Accepts, Methods, After, MethodInv
  <2>9. \/ written'[w].quantity = Event(w).quantity
        \/ /\ written'[w].quantity = Row(w).quantity
           /\ Row(w).trashed # Event(w).trashed /\ Event(w).base > 0
    <3>1. CASE method[w] \in {"create", "update"}
      BY <2>5, <3>1 DEF After
    <3>2. CASE method[w] \in {"trash", "restore"}
      <4>1. written'[w].quantity = Row(w).quantity
        BY <2>5, <3>2 DEF After
      <4>2. Row(w).trashed # Event(w).trashed /\ Event(w).base > 0
        BY <2>3, <2>5, <3>2 DEF Accepts, MethodInv
      <4>3. QED
        BY <4>1, <4>2
    <3>3. QED
      BY <2>6, <3>1, <3>2 DEF Methods
  <2>10. QED
    BY <2>2, <2>5, <2>7, <2>8, <2>9 DEF After, Follows
<1>4. CASE Record(w)
  BY <1>4 DEF TypeOK, WrittenInv, Follows, HoldsRow, Event, Row, Record
<1>5. CASE Commit(w)
  <2>1. /\ HoldsRow(w)
        /\ stage'[w] = "next"
        /\ \A v \in Worker \ {w} : /\ stage'[v] = stage[v] /\ left'[v] = left[v]
                                   /\ written'[v] = written[v]
        /\ \A a \in AdjustmentIds : a # Event(w).adjustment => rows'[a] = rows[a]
    BY <1>5 DEF TypeOK, HoldsRow, Commit, Store, Finish, Forget
  <2>2. ASSUME NEW v \in Worker, HoldsRow(v)'
        PROVE  /\ v # w /\ HoldsRow(v) /\ Event(v)' = Event(v)
               /\ Event(v).adjustment \in AdjustmentIds
               /\ written'[v] = written[v]
    BY <2>1, <2>2, EventIsBody DEF HoldsRow, Event, TypeOK, HoldsEvent
  <2>3. ASSUME NEW v \in Worker, HoldsRow(v)'
        PROVE  Row(v)' = Row(v)
    BY <2>1, <2>2, <2>3 DEF RowInv, Row
  <2>4. QED
    BY <2>2, <2>3 DEF WrittenInv, Follows
<1>6. CASE CommitRefusal(w)
  BY <1>6 DEF TypeOK, WrittenInv, Follows, HoldsRow, Event, Row, CommitRefusal, Store, Finish, Forget
<1>7. QED
  BY <1>1, <1>2, <1>3, <1>4, <1>5, <1>6

-----------------------------------------------------------------------------
(* The feed and the answers.                                               *)

LEMMA FeedGrows ==
  ASSUME TypeOK, NEW change \in [body : Body, row : Rows], feed' = Append(feed, change)
  PROVE  /\ Len(feed) \in Nat
         /\ DOMAIN feed = 1 .. Len(feed)
         /\ DOMAIN feed' = 1 .. Len(feed) + 1
         /\ \A i \in DOMAIN feed : feed'[i] = feed[i]
         /\ feed'[Len(feed) + 1] = change
<1>1. feed \in Seq([body : Body, row : Rows])
  BY DEF TypeOK
<1>2. QED
  BY <1>1

\* What a commit does to the shared tables.
LEMMA CommitEffect ==
  ASSUME TypeOK, EventInv, WrittenInv, NEW w \in Worker, Commit(w)
  PROVE  LET b == Event(w)
             change == [body |-> b, row |-> written[w]]
         IN /\ b \in Body /\ change \in [body : Body, row : Rows]
            /\ ledger[b.event] = Unprocessed
            /\ ledger' = [ledger EXCEPT ![b.event] =
                           [status |-> "SYNCED", version |-> b.base + 1, body |-> b]]
            /\ rows[b.adjustment].version = b.base
            /\ rows' = [rows EXCEPT ![b.adjustment] = written[w]]
            /\ feed' = Append(feed, change)
            /\ written[w].version = b.base + 1
            /\ written[w].trashed = b.trashed
            /\ \/ written[w].quantity = b.quantity
               \/ /\ written[w].quantity = rows[b.adjustment].quantity
                  /\ rows[b.adjustment].trashed # b.trashed /\ b.base > 0
            /\ told' = [told EXCEPT ![w] = @ \cup
                 {[body |-> b, answer |-> [status |-> "SYNCED", version |-> b.base + 1]]}]
<1>1. stage[w] = "recorded" /\ left[w] # <<>> /\ HoldsEvent(w) /\ HoldsRow(w)
  BY DEF Commit, TypeOK, HoldsEvent, HoldsRow
<1>2. Event(w) \in Body /\ written[w] \in Rows
  BY <1>1, EventIsBody DEF TypeOK
<1>3. /\ ledger[Event(w).event] = Unprocessed
      /\ rows[Event(w).adjustment].version = Event(w).base
      /\ written[w].version = Event(w).base + 1
      /\ written[w].trashed = Event(w).trashed
      /\ \/ written[w].quantity = Event(w).quantity
         \/ /\ written[w].quantity = rows[Event(w).adjustment].quantity
            /\ rows[Event(w).adjustment].trashed # Event(w).trashed /\ Event(w).base > 0
  BY <1>1 DEF EventInv, WrittenInv, Follows, Row
<1>4. QED
  BY <1>2, <1>3 DEF Commit, Store, Finish

LEMMA RefusalEffect ==
  ASSUME TypeOK, EventInv, RefusedInv, NEW w \in Worker, CommitRefusal(w)
  PROVE  LET b == Event(w)
         IN /\ b \in Body
            /\ ledger[b.event] = Unprocessed
            /\ outcome[w] \in {"CONFLICT", "FAILED"}
            /\ ledger' = [ledger EXCEPT ![b.event] =
                           [status |-> outcome[w], version |-> 0, body |-> b]]
            /\ told' = [told EXCEPT ![w] = @ \cup
                 {[body |-> b, answer |-> [status |-> outcome[w], version |-> 0]]}]
            /\ UNCHANGED <<rows, feed, heard>>
<1>1. stage[w] = "refused" /\ left[w] # <<>> /\ HoldsEvent(w)
  BY DEF CommitRefusal, TypeOK, HoldsEvent
<1>2. Event(w) \in Body /\ ledger[Event(w).event] = Unprocessed
  BY <1>1, EventIsBody DEF EventInv
<1>3. outcome[w] \in {"CONFLICT", "FAILED"}
  BY <1>1 DEF RefusedInv
<1>4. QED
  BY <1>2, <1>3 DEF CommitRefusal, Store, Finish

\* The other actions leave the shared tables and the answers alone.
LEMMA OthersEffect ==
  ASSUME NEW w \in Worker, Reserve(w) \/ Dispatch(w) \/ Apply(w) \/ Record(w)
  PROVE  UNCHANGED <<ledger, rows, feed, told, heard>>
BY DEF Reserve, Dispatch, Apply, Record

\* An answer stays true while its event's row stays.
LEMMA AnsweredStays ==
  ASSUME NEW x, Answered(x), ledger'[x.body.event] = ledger[x.body.event]
  PROVE  Answered(x)'
BY DEF Answered, StoredAnswer

LEMMA DecidedAnswer ==
  ASSUME NEW b, NEW status, NEW version, status # "none",
         ledger'[b.event] = [status |-> status, version |-> version, body |-> b]
  PROVE  Answered([body |-> b, answer |-> [status |-> status, version |-> version]])'
<1>1. ledger'[b.event] # Unprocessed
  BY DEF Unprocessed
<1>2. QED
  BY <1>1 DEF Answered, StoredAnswer

\* Deciding an event leaves every earlier answer true and adds a true one.
LEMMA DecideAnswers ==
  ASSUME TypeOK, AnswerInv, NEW w \in Worker, NEW b \in Body,
         NEW status, NEW version, status # "none",
         ledger[b.event] = Unprocessed,
         ledger' = [ledger EXCEPT ![b.event] =
                      [status |-> status, version |-> version, body |-> b]],
         told' = [told EXCEPT ![w] = @ \cup
                    {[body |-> b, answer |-> [status |-> status, version |-> version]]}],
         UNCHANGED heard
  PROVE  AnswerInv'
<1>1. b.event \in EventIds
  BY DEF EventIds
<1>2. ledger'[b.event] = [status |-> status, version |-> version, body |-> b]
  BY <1>1 DEF TypeOK
<1>3. ASSUME NEW x, Answered(x) PROVE Answered(x)'
  <2>1. x.body.event # b.event
    BY <1>3 DEF Answered
  <2>2. ledger'[x.body.event] = ledger[x.body.event]
    BY <2>1 DEF TypeOK
  <2>3. QED
    BY <1>3, <2>2, AnsweredStays
<1>4. Answered([body |-> b, answer |-> [status |-> status, version |-> version]])'
  BY <1>2, DecidedAnswer
<1>5. \A x \in heard' : Answered(x)'
  BY <1>3 DEF AnswerInv
<1>6. ASSUME NEW v \in Worker, NEW x \in told'[v] PROVE Answered(x)'
  <2>1. CASE x \in told[v]
    BY <1>3, <2>1 DEF AnswerInv
  <2>2. CASE x = [body |-> b, answer |-> [status |-> status, version |-> version]]
    BY <1>4, <2>2
  <2>3. QED
    BY <1>6, <2>1, <2>2 DEF TypeOK
<1>7. QED
  BY <1>5, <1>6 DEF AnswerInv

LEMMA AnswerStep ==
  ASSUME TypeOK, EventInv, WrittenInv, RefusedInv, AnswerInv, NEW w \in Worker,
         \/ Quiet(w) \/ Reserve(w) \/ Dispatch(w) \/ Apply(w) \/ Record(w)
         \/ Commit(w) \/ CommitRefusal(w)
  PROVE  AnswerInv'
<1>1. CASE \E batch \in Batch : Push(w, batch)
  BY <1>1 DEF Push, AnswerInv, Answered, StoredAnswer
<1>2. CASE Replay(w)
  <2>1. /\ ledger' = ledger /\ heard' = heard
        /\ told' = [told EXCEPT ![w] = @ \cup {[body |-> Event(w), answer |-> StoredAnswer(Event(w))]}]
        /\ ledger[Event(w).event] # Unprocessed
    BY <1>2 DEF Replay, Finish
  <2>2. Answered([body |-> Event(w), answer |-> StoredAnswer(Event(w))])
    BY <2>1 DEF Answered
  <2>3. \A v \in Worker : \A x \in told'[v] : Answered(x)
    BY <2>1, <2>2 DEF AnswerInv, TypeOK
  <2>4. QED
    BY <2>1, <2>3, AnsweredStays DEF AnswerInv
<1>3. CASE Respond(w)
  <2>1. /\ ledger' = ledger /\ heard' = heard \cup told[w]
        /\ told' = [told EXCEPT ![w] = {}]
    BY <1>3 DEF Respond, EndRequest
  <2>2. QED
    BY <2>1, AnsweredStays DEF AnswerInv, TypeOK
<1>4. CASE Abort(w)
  <2>1. /\ ledger' = ledger /\ heard' = heard
        /\ told' = [told EXCEPT ![w] = {}]
    BY <1>4 DEF Abort, EndRequest
  <2>2. QED
    BY <2>1, AnsweredStays DEF AnswerInv, TypeOK
<1>5. CASE Reserve(w) \/ Dispatch(w) \/ Apply(w) \/ Record(w)
  BY <1>5, OthersEffect, AnsweredStays DEF AnswerInv
<1>6. CASE Commit(w)
  <2>1. UNCHANGED heard
    BY <1>6 DEF Commit
  <2> DEFINE b == Event(w)
  <2>2. /\ b \in Body
        /\ ledger[b.event] = Unprocessed
        /\ ledger' = [ledger EXCEPT ![b.event] =
                       [status |-> "SYNCED", version |-> b.base + 1, body |-> b]]
        /\ told' = [told EXCEPT ![w] = @ \cup
             {[body |-> b, answer |-> [status |-> "SYNCED", version |-> b.base + 1]]}]
    BY <1>6, CommitEffect
  <2> DEFINE status == "SYNCED"
             version == b.base + 1
  <2>3. /\ status # "none"
        /\ b \in Body /\ ledger[b.event] = Unprocessed
        /\ ledger' = [ledger EXCEPT ![b.event] =
                       [status |-> status, version |-> version, body |-> b]]
        /\ told' = [told EXCEPT ![w] = @ \cup
             {[body |-> b, answer |-> [status |-> status, version |-> version]]}]
    BY <2>2
  <2> HIDE DEF b, status, version
  <2>4. QED
    BY <2>1, <2>3, DecideAnswers
<1>7. CASE CommitRefusal(w)
  <2> DEFINE b == Event(w)
             status == outcome[w]
  <2>1. /\ b \in Body
        /\ ledger[b.event] = Unprocessed
        /\ status # "none"
        /\ ledger' = [ledger EXCEPT ![b.event] =
                       [status |-> status, version |-> 0, body |-> b]]
        /\ told' = [told EXCEPT ![w] = @ \cup
             {[body |-> b, answer |-> [status |-> status, version |-> 0]]}]
        /\ UNCHANGED heard
    BY <1>7, RefusalEffect
  <2> HIDE DEF b, status
  <2>2. QED
    BY <2>1, DecideAnswers
<1>8. QED
  BY <1>1, <1>2, <1>3, <1>4, <1>5, <1>6, <1>7 DEF Quiet

LEMMA LedgerStep ==
  ASSUME TypeOK, EventInv, WrittenInv, RefusedInv, LedgerMatchesFeed, NEW w \in Worker,
         \/ Quiet(w) \/ Reserve(w) \/ Dispatch(w) \/ Apply(w) \/ Record(w)
         \/ Commit(w) \/ CommitRefusal(w)
  PROVE  LedgerMatchesFeed'
<1>1. CASE UNCHANGED <<ledger, feed>>
  BY <1>1 DEF LedgerMatchesFeed
<1>2. CASE Commit(w)
  <2> DEFINE b == Event(w)
             change == [body |-> b, row |-> written[w]]
  <2>1. /\ b \in Body /\ change \in [body : Body, row : Rows] /\ b.event \in EventIds
        /\ ledger[b.event] = Unprocessed
        /\ ledger' = [ledger EXCEPT ![b.event] =
                           [status |-> "SYNCED", version |-> b.base + 1, body |-> b]]
        /\ feed' = Append(feed, change)
        /\ written[w].version = b.base + 1
    BY <1>2, CommitEffect DEF EventIds
  <2> HIDE DEF b
  <2>2. /\ Len(feed) \in Nat
        /\ DOMAIN feed = 1 .. Len(feed)
        /\ DOMAIN feed' = 1 .. Len(feed) + 1
        /\ \A i \in DOMAIN feed : feed'[i] = feed[i]
        /\ feed'[Len(feed) + 1] = change
    BY <2>1, FeedGrows
  <2>3. {i \in DOMAIN feed : feed[i].body.event = b.event} = {}
    BY <2>1 DEF LedgerMatchesFeed, Unprocessed
  <2>4. {i \in DOMAIN feed' : feed'[i].body.event = b.event} = {Len(feed) + 1}
    BY <2>2, <2>3
  <2>5. ASSUME NEW e \in EventIds, e # b.event
        PROVE  {i \in DOMAIN feed' : feed'[i].body.event = e} = {i \in DOMAIN feed : feed[i].body.event = e}
    BY <2>2, <2>5
  <2>6. ledger'[b.event] = [status |-> "SYNCED", version |-> b.base + 1, body |-> b]
    BY <2>1 DEF TypeOK
  <2>7. \A e \in EventIds : e # b.event => ledger'[e] = ledger[e]
    BY <2>1 DEF TypeOK
  <2>8. SUFFICES ASSUME NEW e \in EventIds
                 PROVE  LET changes == {i \in DOMAIN feed' : feed'[i].body.event = e}
                        IN IF ledger'[e].status = "SYNCED"
                           THEN \E i \in changes : /\ changes = {i}
                                                   /\ feed'[i].body = ledger'[e].body
                                                   /\ feed'[i].row.version = ledger'[e].version
                           ELSE changes = {}
    BY DEF LedgerMatchesFeed
  <2>9. CASE e = b.event
    BY <2>1, <2>2, <2>4, <2>6, <2>9
  <2>10. CASE e # b.event
    BY <2>2, <2>5, <2>7, <2>10 DEF LedgerMatchesFeed
  <2>11. QED
    BY <2>9, <2>10
<1>3. CASE CommitRefusal(w)
  <2>1. /\ ledger[Event(w).event] = Unprocessed /\ feed' = feed
        /\ outcome[w] \in {"CONFLICT", "FAILED"}
        /\ ledger' = [ledger EXCEPT ![Event(w).event] =
                           [status |-> outcome[w], version |-> 0, body |-> Event(w)]]
    BY <1>3, RefusalEffect
  <2>2. \A e \in EventIds : \/ ledger'[e] = ledger[e]
                            \/ ledger[e].status # "SYNCED" /\ ledger'[e].status # "SYNCED"
    BY <2>1 DEF TypeOK, Unprocessed
  <2>3. QED
    BY <2>1, <2>2 DEF LedgerMatchesFeed
<1>4. Quiet(w) => UNCHANGED <<ledger, feed>>
  BY QuietLeavesOthers
<1>5. QED
  BY <1>1, <1>2, <1>3, <1>4, OthersEffect

\* A change on top of a row continues the row's history.
LEMMA HistoryGrows ==
  ASSUME TypeOK, HistoryIsLinear, NEW b \in Body, NEW row \in Rows,
         rows[b.adjustment].version = b.base,
         row.version = b.base + 1,
         rows' = [rows EXCEPT ![b.adjustment] = row],
         feed' = Append(feed, [body |-> b, row |-> row])
  PROVE  HistoryIsLinear'
<1> DEFINE change == [body |-> b, row |-> row]
           last == Len(feed) + 1
<1>1. /\ change \in [body : Body, row : Rows]
      /\ b.adjustment \in AdjustmentIds /\ b.base \in Nat
      /\ rows[b.adjustment].version = b.base
      /\ rows' = [rows EXCEPT ![b.adjustment] = row]
      /\ feed' = Append(feed, change)
      /\ change.row.version = b.base + 1
      /\ change.body = b /\ change.row = row
  BY BodyAssumption DEF AdjustmentIds
<1> HIDE DEF change
<1>2. /\ Len(feed) \in Nat
      /\ DOMAIN feed = 1 .. Len(feed)
      /\ DOMAIN feed' = 1 .. last
      /\ \A i \in DOMAIN feed : feed'[i] = feed[i]
      /\ feed'[last] = change
  BY <1>1, FeedGrows
<1> HIDE DEF last
<1>3. last \in Nat /\ \A i \in DOMAIN feed : i \in Nat /\ i < last
  BY <1>2 DEF last
<1>4. /\ ChangesOf(b.adjustment)' = ChangesOf(b.adjustment) \cup {last}
      /\ \A a \in AdjustmentIds : a # b.adjustment => ChangesOf(a)' = ChangesOf(a)
  <2>1. DOMAIN feed' = DOMAIN feed \cup {last}
    BY <1>2 DEF last
  <2>2. feed'[last].body.adjustment = b.adjustment
    BY <1>1, <1>2
  <2>3. last \notin DOMAIN feed
    BY <1>3
  <2>4. QED
    BY <1>2, <2>1, <2>2, <2>3 DEF ChangesOf
<1>5. \A a \in AdjustmentIds : /\ ChangesOf(a) \subseteq DOMAIN feed
                               /\ a # b.adjustment => rows'[a] = rows[a]
  BY <1>1 DEF ChangesOf, TypeOK
<1>6. rows'[b.adjustment] = change.row
  BY <1>1 DEF TypeOK
<1>7. SUFFICES ASSUME NEW a \in AdjustmentIds
               PROVE  (LET changes == ChangesOf(a)
                       IN /\ changes = {} => rows[a] = Absent
                          /\ \A i \in changes :
                               /\ feed[i].row.version = feed[i].body.base + 1
                               /\ (\A j \in changes : i <= j) => feed[i].body.base = 0
                               /\ (\A j \in changes : j <= i) => rows[a] = feed[i].row
                               /\ \A j \in changes :
                                    i < j /\ ~(\E k \in changes : i < k /\ k < j)
                                      => feed[j].body.base = feed[i].row.version)'
  BY DEF HistoryIsLinear
<1>8. CASE a # b.adjustment
  BY <1>2, <1>4, <1>5, <1>8 DEF HistoryIsLinear
<1>9. CASE a = b.adjustment
  <2> DEFINE old == ChangesOf(a)
  <2>1. /\ old \subseteq DOMAIN feed
        /\ ChangesOf(a)' = old \cup {last}
        /\ old = {} => rows[a] = Absent
        /\ \A i \in old :
             /\ feed[i].row.version = feed[i].body.base + 1
             /\ (\A j \in old : i <= j) => feed[i].body.base = 0
             /\ (\A j \in old : j <= i) => rows[a] = feed[i].row
             /\ \A j \in old :
                  i < j /\ ~(\E k \in old : i < k /\ k < j)
                    => feed[j].body.base = feed[i].row.version
    <3>1. old \subseteq DOMAIN feed /\ ChangesOf(a)' = old \cup {last}
      BY <1>4, <1>5, <1>9
    <3>2. QED
      BY <3>1 DEF HistoryIsLinear
  <2> HIDE DEF old
  <2>2. old = {} => b.base = 0
    BY <1>1, <1>9, <2>1 DEF Absent
  <2>3. \A i \in old : (\A j \in old : j <= i) => b.base = feed[i].row.version
    BY <1>1, <1>9, <2>1
  <2>4. \A i \in old : i \in Nat /\ i < last /\ feed'[i] = feed[i]
    BY <1>2, <1>3, <2>1
  <2>5. ASSUME NEW i \in old, NEW j \in old \cup {last},
               i < j, ~(\E k \in old \cup {last} : i < k /\ k < j)
        PROVE  feed'[j].body.base = feed'[i].row.version
    <3>1. CASE j \in old
      BY <2>1, <2>4, <2>5, <3>1
    <3>2. CASE j = last
      <4>1. \A k \in old : k <= i
        BY <2>4, <2>5, <3>2
      <4>2. b.base = feed[i].row.version
        BY <2>3, <4>1
      <4>3. QED
        BY <1>1, <1>2, <2>4, <3>2, <4>2
    <3>3. QED
      BY <3>1, <3>2
  <2>6. ASSUME NEW i \in old
        PROVE  /\ feed'[i].row.version = feed'[i].body.base + 1
               /\ (\A j \in old \cup {last} : i <= j) => feed'[i].body.base = 0
               /\ ~(\A j \in old \cup {last} : j <= i)
    BY <1>3, <2>1, <2>4
  <2>7. /\ feed'[last].row.version = feed'[last].body.base + 1
        /\ (\A j \in old \cup {last} : last <= j) => feed'[last].body.base = 0
        /\ rows'[a] = feed'[last].row
    <3>1. (\A j \in old \cup {last} : last <= j) => old = {}
      BY <1>3, <2>4
    <3>2. QED
      BY <1>1, <1>2, <1>6, <1>9, <2>2, <3>1
  <2>8. \A j \in old \cup {last} : ~(last < j)
    BY <1>3, <2>4
  <2>9. QED
    BY <2>1, <2>5, <2>6, <2>7, <2>8
<1>10. QED
  BY <1>8, <1>9

LEMMA HistoryStep ==
  ASSUME TypeOK, EventInv, WrittenInv, RefusedInv, HistoryIsLinear, NEW w \in Worker,
         \/ Quiet(w) \/ Reserve(w) \/ Dispatch(w) \/ Apply(w) \/ Record(w)
         \/ Commit(w) \/ CommitRefusal(w)
  PROVE  HistoryIsLinear'
<1>1. CASE UNCHANGED <<rows, feed>>
  BY <1>1 DEF HistoryIsLinear, ChangesOf
<1>2. CASE Commit(w)
  <2> DEFINE b == Event(w)
             row == written[w]
  <2>1. /\ b \in Body /\ row \in Rows
        /\ rows[b.adjustment].version = b.base
        /\ row.version = b.base + 1
        /\ rows' = [rows EXCEPT ![b.adjustment] = row]
        /\ feed' = Append(feed, [body |-> b, row |-> row])
    BY <1>2, CommitEffect DEF TypeOK
  <2> HIDE DEF b, row
  <2>2. QED
    BY <2>1, HistoryGrows
<1>3. CommitRefusal(w) => UNCHANGED <<rows, feed>>
  BY RefusalEffect
<1>4. Quiet(w) => UNCHANGED <<rows, feed>>
  BY QuietLeavesOthers
<1>5. QED
  BY <1>1, <1>2, <1>3, <1>4, OthersEffect

LEMMA RecordedStep ==
  ASSUME TypeOK, EventInv, WrittenInv, RefusedInv, RecordedInv, NEW w \in Worker,
         \/ Quiet(w) \/ Reserve(w) \/ Dispatch(w) \/ Apply(w) \/ Record(w)
         \/ Commit(w) \/ CommitRefusal(w)
  PROVE  RecordedInv'
<1>1. CASE UNCHANGED <<rows, feed>>
  BY <1>1 DEF RecordedInv, ChangesOf
<1>2. CASE Commit(w)
  <2> DEFINE b == Event(w)
             change == [body |-> b, row |-> written[w]]
             last == Len(feed) + 1
  <2>1. /\ b \in Body /\ change \in [body : Body, row : Rows]
        /\ rows' = [rows EXCEPT ![b.adjustment] = written[w]]
        /\ feed' = Append(feed, change)
        /\ change.body = b /\ change.row = written[w]
    BY <1>2, CommitEffect
  <2> HIDE DEF b, change
  <2>2. /\ DOMAIN feed \subseteq DOMAIN feed' /\ last \in DOMAIN feed'
        /\ \A i \in DOMAIN feed : feed'[i] = feed[i]
        /\ feed'[last] = change
    BY <2>1, FeedGrows
  <2> HIDE DEF last
  <2>3. SUFFICES ASSUME NEW a \in AdjustmentIds
                 PROVE  rows'[a] = Absent \/ \E i \in ChangesOf(a)' : feed'[i].row = rows'[a]
    BY DEF RecordedInv
  <2>4. CASE a = b.adjustment
    <3>1. rows'[a] = change.row /\ last \in ChangesOf(a)'
      BY <2>1, <2>2, <2>4 DEF TypeOK, ChangesOf
    <3>2. QED
      BY <2>2, <3>1
  <2>5. CASE a # b.adjustment
    <3>1. rows'[a] = rows[a] /\ ChangesOf(a) \subseteq ChangesOf(a)' /\ ChangesOf(a) \subseteq DOMAIN feed
      BY <2>1, <2>2, <2>5 DEF TypeOK, ChangesOf
    <3>2. QED
      BY <2>2, <3>1 DEF RecordedInv
  <2>6. QED
    BY <2>4, <2>5
<1>3. CommitRefusal(w) => UNCHANGED <<rows, feed>>
  BY RefusalEffect
<1>4. Quiet(w) => UNCHANGED <<rows, feed>>
  BY QuietLeavesOthers
<1>5. QED
  BY <1>1, <1>2, <1>3, <1>4, OthersEffect

\* What change i of the feed did to its row is what its body asks.
DidAsAsked(i) ==
  LET b == feed[i].body
  IN /\ feed[i].row.trashed = b.trashed
     /\ \/ feed[i].row.quantity = b.quantity
        \/ \E j \in 1 .. i - 1 : /\ feed[j].body.adjustment = b.adjustment
                                 /\ feed[j].row.version = b.base
                                 /\ feed[j].row.quantity = feed[i].row.quantity
                                 /\ feed[j].row.trashed # b.trashed

LEMMA AskedIsDone == AcceptedMeansAsked <=> \A i \in DOMAIN feed : DidAsAsked(i)
BY DEF AcceptedMeansAsked, DidAsAsked

LEMMA AskedStep ==
  ASSUME TypeOK, EventInv, WrittenInv, RefusedInv, RecordedInv, AcceptedMeansAsked, NEW w \in Worker,
         \/ Quiet(w) \/ Reserve(w) \/ Dispatch(w) \/ Apply(w) \/ Record(w)
         \/ Commit(w) \/ CommitRefusal(w)
  PROVE  AcceptedMeansAsked'
<1>1. CASE UNCHANGED feed
  BY <1>1 DEF AcceptedMeansAsked
<1>2. CASE Commit(w)
  <2> DEFINE b == Event(w)
             row == written[w]
             change == [body |-> b, row |-> row]
  <2>1. /\ b \in Body /\ change \in [body : Body, row : Rows]
        /\ feed' = Append(feed, change)
        /\ change.body = b /\ change.row = row
        /\ row.trashed = b.trashed
        /\ rows[b.adjustment].version = b.base
        /\ \/ row.quantity = b.quantity
           \/ /\ row.quantity = rows[b.adjustment].quantity
              /\ rows[b.adjustment].trashed # b.trashed /\ b.base > 0
    BY <1>2, CommitEffect
  <2> HIDE DEF b, row, change
  <2>2. PICK last : last = Len(feed) + 1
    OBVIOUS
  <2>3. /\ DOMAIN feed = 1 .. last - 1 /\ last \in Nat
        /\ DOMAIN feed' = 1 .. last
        /\ \A i \in DOMAIN feed : feed'[i] = feed[i]
        /\ feed'[last] = change
    BY <2>1, <2>2, FeedGrows
  <2>4. \A i \in DOMAIN feed : DidAsAsked(i)
    BY AskedIsDone
  <2>5. ASSUME NEW i \in DOMAIN feed PROVE DidAsAsked(i)'
    <3>1. feed'[i] = feed[i] /\ \A j \in 1 .. i - 1 : feed'[j] = feed[j]
      BY <2>3
    <3>2. QED
      BY <2>4, <3>1 DEF DidAsAsked
  <2>6. DidAsAsked(last)'
    <3>1. feed'[last].body = b /\ feed'[last].row = row
      BY <2>1, <2>3
    <3>2. CASE row.quantity = b.quantity
      BY <2>1, <3>1, <3>2 DEF DidAsAsked
    <3>3. CASE row.quantity # b.quantity
      <4>1. /\ row.quantity = rows[b.adjustment].quantity
            /\ rows[b.adjustment].trashed # b.trashed /\ b.base > 0
        BY <2>1, <3>3
      <4>2. rows[b.adjustment] # Absent /\ b.adjustment \in AdjustmentIds
        BY <2>1, <4>1 DEF Absent, AdjustmentIds
      <4>3. PICK j \in ChangesOf(b.adjustment) : feed[j].row = rows[b.adjustment]
        BY <4>2 DEF RecordedInv
      <4>4. /\ j \in 1 .. last - 1 /\ feed'[j] = feed[j]
            /\ feed[j].body.adjustment = b.adjustment
        BY <2>3, <4>3 DEF ChangesOf
      <4>5. /\ feed'[j].body.adjustment = feed'[last].body.adjustment
            /\ feed'[j].row.version = feed'[last].body.base
            /\ feed'[j].row.quantity = feed'[last].row.quantity
            /\ feed'[j].row.trashed # feed'[last].body.trashed
        BY <2>1, <3>1, <4>1, <4>3, <4>4
      <4>6. feed'[last].row.trashed = feed'[last].body.trashed
        BY <2>1, <3>1
      <4>7. QED
        BY <4>4, <4>5, <4>6 DEF DidAsAsked
    <3>4. QED
      BY <3>2, <3>3
  <2>7. \A i \in DOMAIN feed' : DidAsAsked(i)'
    BY <2>3, <2>5, <2>6
  <2>8. QED
    BY <2>7 DEF AcceptedMeansAsked, DidAsAsked
<1>3. CommitRefusal(w) => UNCHANGED feed
  BY RefusalEffect
<1>4. Quiet(w) => UNCHANGED feed
  BY QuietLeavesOthers
<1>5. QED
  BY <1>1, <1>2, <1>3, <1>4, OthersEffect

-----------------------------------------------------------------------------
LEMMA InitInv == Init => IInv
<1> SUFFICES ASSUME Init PROVE IInv
  OBVIOUS
<1>1. TypeOK
  BY InitTyped
<1>2. \A w \in Worker : stage[w] = "idle" /\ told[w] = {}
  BY DEF Init
<1>3. EventInv /\ RowInv /\ MethodInv /\ WrittenInv /\ RefusedInv
  BY <1>2 DEF EventInv, RowInv, MethodInv, WrittenInv, RefusedInv, HoldsEvent, HoldsRow
<1>4. AnswerInv
  BY <1>2 DEF AnswerInv, Init
<1>5. feed = <<>> /\ DOMAIN feed = {}
  BY DEF Init
<1>6. LedgerMatchesFeed
  BY <1>5 DEF LedgerMatchesFeed, Init, Unprocessed
<1>7. HistoryIsLinear
  BY <1>5 DEF HistoryIsLinear, ChangesOf, Init
<1>8. RecordedInv /\ AcceptedMeansAsked
  BY <1>5 DEF RecordedInv, AcceptedMeansAsked, Init
<1>9. QED
  BY <1>1, <1>3, <1>4, <1>6, <1>7, <1>8 DEF IInv

LEMMA StutterInv == IInv /\ UNCHANGED vars => IInv'
<1> SUFFICES ASSUME IInv, UNCHANGED vars PROVE IInv'
  OBVIOUS
<1>1. UNCHANGED <<ledger, rows, feed, stage, left, told, method, outcome, written, heard>>
  BY DEF vars, request
<1>2. TypeOK'
  BY StepTyped DEF IInv
<1>3. EventInv' /\ RowInv' /\ MethodInv' /\ WrittenInv' /\ RefusedInv'
  BY <1>1 DEF IInv, EventInv, RowInv, MethodInv, WrittenInv, Follows, RefusedInv, HoldsEvent, HoldsRow,
              Event, Row
<1>4. AnswerInv'
  BY <1>1, AnsweredStays DEF IInv, AnswerInv
<1>5. LedgerMatchesFeed'
  BY <1>1 DEF IInv, LedgerMatchesFeed
<1>6. HistoryIsLinear'
  BY <1>1 DEF IInv, HistoryIsLinear, ChangesOf
<1>7. RecordedInv' /\ AcceptedMeansAsked'
  BY <1>1 DEF IInv, RecordedInv, AcceptedMeansAsked, ChangesOf
<1>8. QED
  BY <1>2, <1>3, <1>4, <1>5, <1>6, <1>7 DEF IInv

LEMMA StepInv == IInv /\ [Next]_vars => IInv'
<1> SUFFICES ASSUME IInv, [Next]_vars PROVE IInv'
  OBVIOUS
<1>1. CASE UNCHANGED vars
  BY <1>1, StutterInv
<1>2. ASSUME NEW w \in Worker,
             \/ Quiet(w) \/ Reserve(w) \/ Dispatch(w) \/ Apply(w) \/ Record(w)
             \/ Commit(w) \/ CommitRefusal(w),
             TypeOK'
      PROVE  IInv'
  <2>1. EventInv' /\ RowInv' /\ MethodInv' /\ RefusedInv'
    BY <1>2, EventStep, RowStep, MethodStep, RefusedStep DEF IInv
  <2>2. WrittenInv' /\ AnswerInv'
    BY <1>2, WrittenStep, AnswerStep DEF IInv
  <2>3. LedgerMatchesFeed' /\ HistoryIsLinear'
    BY <1>2, LedgerStep, HistoryStep DEF IInv
  <2>4. RecordedInv' /\ AcceptedMeansAsked'
    BY <1>2, RecordedStep, AskedStep DEF IInv
  <2>5. QED
    BY <1>2, <2>1, <2>2, <2>3, <2>4 DEF IInv
<1>3. TypeOK'
  BY StepTyped DEF IInv
<1>4. QED
  BY <1>1, <1>2, <1>3 DEF Next, Quiet

\* The inductive invariant: transactions hold their event ids and rows alone,
\* what they wrote follows the row they hold, answers repeat the ledger.
THEOREM LedgerInvariant == Spec => []IInv
BY InitInv, StepInv, PTL DEF Spec

\* No event is applied twice or answered without having been applied.
THEOREM AppliedExactlyOnce == Spec => []LedgerMatchesFeed
<1>1. IInv => LedgerMatchesFeed
  BY DEF IInv
<1>2. QED
  BY <1>1, LedgerInvariant, PTL

\* No accepted change overwrites one it was not based on.
THEOREM NoLostUpdate == Spec => []HistoryIsLinear
<1>1. IInv => HistoryIsLinear
  BY DEF IInv
<1>2. QED
  BY <1>1, LedgerInvariant, PTL

\* An accepted event did what its body asks, although its method was picked on
\* a row read without a lock.
THEOREM AskedIsWhatWasDone == Spec => []AcceptedMeansAsked
<1>1. IInv => AcceptedMeansAsked
  BY DEF IInv
<1>2. QED
  BY <1>1, LedgerInvariant, PTL

\* A device that asks again hears the same.
THEOREM SameAnswerAgain == Spec => []AnswersNeverDiffer
<1>1. IInv => AnswersNeverDiffer
  BY DEF IInv, AnswerInv, Answered, AnswersNeverDiffer
<1>2. QED
  BY <1>1, LedgerInvariant, PTL

-----------------------------------------------------------------------------
(* The ledger implements ExactlyOnce.                                      *)

LEMMA InitMaps == Init => Promise!Init
BY DEF Init, Promise!Init, EventIds, AdjustmentIds, Promise!EventIds, Promise!AdjustmentIds,
       Unprocessed, Promise!Undecided, Absent

LEMMA CommitMaps ==
  ASSUME IInv, NEW w \in Worker, Commit(w)
  PROVE  \E b \in Body : Promise!Accept(b)
<1> DEFINE b == Event(w)
<1>1. /\ b \in Body /\ b.event \in EventIds /\ b.adjustment \in AdjustmentIds
      /\ written[w] \in Rows
      /\ ledger[b.event] = Unprocessed
      /\ rows[b.adjustment].version = b.base
      /\ written[w].version = b.base + 1
      /\ written[w].trashed = b.trashed
      /\ written[w].quantity \in {b.quantity, rows[b.adjustment].quantity}
      /\ rows' = [rows EXCEPT ![b.adjustment] = written[w]]
      /\ ledger' = [ledger EXCEPT ![b.event] =
                      [status |-> "SYNCED", version |-> b.base + 1, body |-> b]]
  BY CommitEffect DEF IInv, TypeOK, EventIds, AdjustmentIds
<1>2. UNCHANGED heard
  BY DEF Commit
<1> HIDE DEF b
<1>3. written[w] = [version |-> b.base + 1, quantity |-> written[w].quantity, trashed |-> b.trashed]
  BY <1>1 DEF Rows
<1>4. rows' = [rows EXCEPT ![b.adjustment] =
        [version |-> b.base + 1, quantity |-> written[w].quantity, trashed |-> b.trashed]]
  BY <1>1, <1>3
<1>5. Promise!Accept(b)
  BY <1>1, <1>2, <1>4 DEF Promise!Accept, Promise!Undecided, Unprocessed
<1>6. QED
  BY <1>1, <1>5

LEMMA RefusalMaps ==
  ASSUME IInv, NEW w \in Worker, CommitRefusal(w)
  PROVE  \E b \in Body : Promise!Refuse(b)
<1>1. /\ Event(w) \in Body /\ ledger[Event(w).event] = Unprocessed
      /\ outcome[w] \in {"CONFLICT", "FAILED"}
      /\ ledger' = [ledger EXCEPT ![Event(w).event] =
                     [status |-> outcome[w], version |-> 0, body |-> Event(w)]]
      /\ UNCHANGED <<rows, heard>>
  BY RefusalEffect DEF IInv
<1>2. Promise!Refuse(Event(w))
  BY <1>1 DEF Promise!Refuse, Promise!Undecided, Unprocessed
<1>3. QED
  BY <1>1, <1>2

LEMMA ResponseMaps ==
  ASSUME IInv, NEW w \in Worker, Respond(w)
  PROVE  \E bodies \in SUBSET Body : Promise!Tell(bodies)
<1> DEFINE bodies == {x.body : x \in told[w]}
<1>1. told[w] \subseteq [body : Body, answer : Results]
  BY DEF IInv, TypeOK
<1>2. \A x \in told[w] : /\ ledger[x.body.event] # Promise!Undecided
                          /\ x = [body |-> x.body, answer |-> Promise!AnswerTo(x.body)]
  <2> SUFFICES ASSUME NEW x \in told[w]
               PROVE  /\ ledger[x.body.event] # Promise!Undecided
                      /\ x = [body |-> x.body, answer |-> Promise!AnswerTo(x.body)]
    OBVIOUS
  <2>1. ledger[x.body.event] # Unprocessed /\ x.answer = StoredAnswer(x.body)
    BY DEF IInv, AnswerInv, Answered
  <2>2. StoredAnswer(x.body) = Promise!AnswerTo(x.body)
    BY DEF StoredAnswer, Promise!AnswerTo, Mismatch, Promise!Mismatch
  <2>3. x = [body |-> x.body, answer |-> x.answer]
    BY <1>1
  <2>4. QED
    BY <2>1, <2>2, <2>3 DEF Unprocessed, Promise!Undecided
<1>3. told[w] = {[body |-> b, answer |-> Promise!AnswerTo(b)] : b \in bodies}
  BY <1>2
<1>4. bodies \subseteq Body /\ \A b \in bodies : ledger[b.event] # Promise!Undecided
  BY <1>1, <1>2
<1>5. heard' = heard \cup told[w] /\ UNCHANGED <<ledger, rows>>
  BY DEF Respond
<1>6. Promise!Tell(bodies)
  BY <1>3, <1>4, <1>5 DEF Promise!Tell
<1>7. QED
  BY <1>4, <1>6

LEMMA StepMaps == IInv /\ [Next]_vars => [Promise!Next]_(Promise!vars)
<1> SUFFICES ASSUME IInv, [Next]_vars PROVE Promise!Next \/ UNCHANGED Promise!vars
  OBVIOUS
<1>1. CASE UNCHANGED <<ledger, rows, heard>>
  BY <1>1 DEF Promise!vars
<1>2. CASE \E w \in Worker : Commit(w) \/ CommitRefusal(w) \/ Respond(w)
  BY <1>2, CommitMaps, RefusalMaps, ResponseMaps DEF Promise!Next
<1>3. CASE \E w \in Worker : \E batch \in Batch : Push(w, batch)
  BY <1>1, <1>3 DEF Push
<1>4. CASE \E w \in Worker : Replay(w) \/ Abort(w)
  BY <1>1, <1>4 DEF Replay, Abort
<1>5. CASE \E w \in Worker : Reserve(w) \/ Dispatch(w) \/ Apply(w) \/ Record(w)
  BY <1>1, <1>5, OthersEffect
<1>6. CASE UNCHANGED vars
  BY <1>1, <1>6 DEF vars
<1>7. QED
  BY <1>2, <1>3, <1>4, <1>5, <1>6 DEF Next

\* Retries, concurrent copies, lost answers and aborted transactions are
\* invisible: the ledger behaves like one that decides every event once.
THEOREM LedgerImplementsExactlyOnce == Spec => ImplementsExactlyOnce
<1>1. Init => Promise!Init
  BY InitMaps
<1>2. IInv /\ [Next]_vars => [Promise!Next]_(Promise!vars)
  BY StepMaps
<1>3. QED
  BY <1>1, <1>2, LedgerInvariant, PTL DEF Spec, ImplementsExactlyOnce, Promise!Spec
=============================================================================
