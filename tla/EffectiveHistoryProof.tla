----------------------- MODULE EffectiveHistoryProof -----------------------
(***************************************************************************)
(* Proofs about EffectiveHistory, for any number of transactions, badges,  *)
(* workers, operations and prices.                                         *)
(***************************************************************************)
EXTENDS EffectiveHistory, TLAPS

\* The rows about a badge or an operation.
Of(subject) == {row \in history : row.of = subject}

-----------------------------------------------------------------------------
(* The locks a request that is ready holds.                                *)

LEMMA ReadyHoldsSubject ==
  ASSUME NEW r \in Request, NEW kind, Ready(r, kind),
         kind \in Versioned \cup {"assign", "reassign", "release", "create_custom"}
  PROVE  Exclusive(request[r].of) \in held[r]
<1>1. CASE kind \in {"assign", "reassign"}
  BY <1>1 DEF Ready, Wanted, Statements
<1>2. CASE kind \in {"release", "update_worker", "change_price", "update_model"}
  BY <1>2 DEF Ready, Wanted, Statements
<1>3. CASE kind \in {"update_operation", "create_custom"}
  BY <1>3 DEF Ready, Wanted, Statements
<1>4. QED
  BY <1>1, <1>2, <1>3 DEF Versioned

LEMMA ReadyHoldsWorker ==
  ASSUME NEW r \in Request, NEW kind \in {"assign", "reassign"}, Ready(r, kind)
  PROVE  Exclusive(request[r].to) \in held[r]
BY DEF Ready, Wanted, Statements

LEMMA ReadyHoldsModel ==
  ASSUME NEW r \in Request, NEW kind \in Creating \cup {"update_operation"}, Ready(r, kind)
  PROVE  Exclusive(Model) \in held[r]
<1>1. CASE kind = "create_operation"
  BY <1>1 DEF Ready, Wanted, Statements
<1>2. CASE kind \in {"update_operation", "create_custom"}
  BY <1>2 DEF Ready, Wanted, Statements
<1>3. QED
  BY <1>1, <1>2 DEF Creating

LEMMA ReadyHoldsOperations ==
  ASSUME NEW r \in Request, Ready(r, "batch")
  PROVE  Shared(Model) \in held[r] /\ ActiveOperations \subseteq Locked(r)
<1>1. Statements(request[r]) = <<{Shared(Model)}, {Shared(o) : o \in ActiveOperations}>>
  BY DEF Ready, Statements
<1>2. {Shared(Model)} \subseteq held[r] /\ {Shared(o) : o \in ActiveOperations} \subseteq held[r]
  BY <1>1 DEF Ready, Wanted
<1>3. QED
  BY <1>2 DEF Locked, ActiveOperations

-----------------------------------------------------------------------------
(* Closing and inserting rows.                                             *)

\* A closed row is a row of the table with another end.
LEMMA ClosedRow ==
  ASSUME TypeOK, NEW ending, NEW at, NEW row \in Closed(ending, at)
  PROVE  \E old \in history :
           /\ row.of = old.of /\ row.is = old.is /\ row.from = old.from
           /\ row = IF old \in ending THEN [old EXCEPT !.to = at] ELSE old
           /\ row.to = IF old \in ending THEN at ELSE old.to
<1>1. PICK old \in history : row = IF old \in ending THEN [old EXCEPT !.to = at] ELSE old
  BY DEF Closed
<1>2. old \in RowType
  BY DEF TypeOK
<1>3. QED
  BY <1>1, <1>2 DEF RowType

LEMMA ClosedNoOverlap ==
  ASSUME TypeOK, NoOverlap, NEW ending, \A row \in ending : row.to = Open, NEW at \in Time
  PROVE  \A a, b \in Closed(ending, at) : a.of = b.of /\ a # b => ~Overlap(a, b)
<1> SUFFICES ASSUME NEW a \in Closed(ending, at), NEW b \in Closed(ending, at),
                    a.of = b.of, a # b, Overlap(a, b)
             PROVE  FALSE
  OBVIOUS
<1>1. PICK x \in history :
        /\ a.of = x.of /\ a.is = x.is /\ a.from = x.from
        /\ a = IF x \in ending THEN [x EXCEPT !.to = at] ELSE x
        /\ a.to = IF x \in ending THEN at ELSE x.to
  BY ClosedRow
<1>2. PICK y \in history :
        /\ b.of = y.of /\ b.is = y.is /\ b.from = y.from
        /\ b = IF y \in ending THEN [y EXCEPT !.to = at] ELSE y
        /\ b.to = IF y \in ending THEN at ELSE y.to
  BY ClosedRow
<1>3. x # y
  BY <1>1, <1>2
<1>4. at # Open
  BY HistoryAssumption DEF Time, Open
<1>5. Overlap(x, y)
  BY <1>1, <1>2, <1>4 DEF Overlap
<1>6. QED
  BY <1>1, <1>2, <1>3, <1>5 DEF NoOverlap

LEMMA InsertNoOverlap ==
  ASSUME NEW rows, \A a, b \in rows : a.of = b.of /\ a # b => ~Overlap(a, b),
         NEW row, Fits(row, rows)
  PROVE  \A a, b \in rows \cup {row} : a.of = b.of /\ a # b => ~Overlap(a, b)
BY DEF Fits, Overlap

LEMMA NewRow ==
  ASSUME NEW subject \in Subject, NEW holder \in Holder, NEW from \in Time
  PROVE  /\ Row(subject, holder, from) \in RowType
         /\ Row(subject, holder, from).of = subject
         /\ Row(subject, holder, from).is = holder
         /\ Row(subject, holder, from).from = from
         /\ Row(subject, holder, from).to = Open
BY DEF Row, RowType

\* The types of the tables survive: what TypeOK says of the rows.
RowsTyped(rows) ==
  /\ rows \subseteq RowType
  /\ \A row \in rows : (row.of \in Badge <=> row.is \in Worker) /\ (row.to = Open \/ row.from < row.to)

LEMMA ClosedTyped ==
  ASSUME TypeOK, NEW ending, NEW at \in Time, \A row \in ending : at > row.from
  PROVE  RowsTyped(Closed(ending, at))
<1> SUFFICES ASSUME NEW row \in Closed(ending, at)
             PROVE  /\ row \in RowType
                    /\ row.of \in Badge <=> row.is \in Worker
                    /\ row.to = Open \/ row.from < row.to
  BY DEF RowsTyped
<1>1. PICK old \in history :
        /\ row.of = old.of /\ row.is = old.is /\ row.from = old.from
        /\ row = IF old \in ending THEN [old EXCEPT !.to = at] ELSE old
        /\ row.to = IF old \in ending THEN at ELSE old.to
  BY ClosedRow
<1>2. /\ old \in RowType
      /\ old.of \in Badge <=> old.is \in Worker
      /\ old.to = Open \/ old.from < old.to
  BY DEF TypeOK
<1>3. row \in RowType
  BY <1>1, <1>2 DEF RowType
<1>4. row.to = Open \/ row.from < row.to
  <2>1. CASE old \in ending
    BY <1>1, <1>2, <2>1, HistoryAssumption DEF Time, RowType
  <2>2. CASE old \notin ending
    BY <1>1, <1>2, <2>2
  <2>3. QED
    BY <2>1, <2>2
<1>5. QED
  BY <1>1, <1>2, <1>3, <1>4

LEMMA InsertTyped ==
  ASSUME NEW rows, RowsTyped(rows), NEW subject \in Subject, NEW holder \in Holder, NEW from \in Time,
         subject \in Badge <=> holder \in Worker
  PROVE  RowsTyped(rows \cup {Row(subject, holder, from)})
BY NewRow DEF RowsTyped

-----------------------------------------------------------------------------
(* What the last step of a request may do to the tables.                   *)

TablesStep(r) ==
  /\ status' \in [Owner -> Status] /\ version' \in [Owner -> 1 .. MaxVersion]
  /\ \A x \in Owner : status'[x] # status[x] =>
       /\ status'[x] # "ABSENT"
       /\ Exclusive(x) \in held[r] \/ status[x] = "ABSENT"
       /\ x \in Operation => Exclusive(Model) \in held[r]
  /\ \A x \in Owner : version'[x] # version[x] => Exclusive(x) \in held[r]
  /\ RowsTyped(history')
  /\ \A o \in Operation : Of(o)' # Of(o) => Exclusive(o) \in held[r] \/ Exclusive(Model) \in held[r]

\* What r has begun too late for stays as it was answered.
NotRewritten(r) ==
  \A s \in Subject, t \in Time :
    Answers(s, t)' # Answers(s, t) /\ (s \in Badge \/ Answers(s, t) # {}) => request[r].begun <= t

HistoryStep(r) == AbsentInv' /\ NoOverlap' /\ PriceTimeline' /\ InactiveHoldsNone' /\ NotRewritten(r)

LEMMA NothingWritten ==
  ASSUME IInv, NEW r \in Request, UNCHANGED tables
  PROVE  TablesStep(r) /\ HistoryStep(r)
<1>1. TablesStep(r)
  BY DEF IInv, TypeOK, TablesStep, RowsTyped, tables, Of
<1>2. AbsentInv' /\ NoOverlap' /\ PriceTimeline' /\ InactiveHoldsNone'
  BY DEF IInv, tables, AbsentInv, NoOverlap, PriceTimeline, InactiveHoldsNone, OpenRows, OpenOf
<1>3. NotRewritten(r)
  BY DEF tables, NotRewritten, Answers
<1>4. QED
  BY <1>1, <1>2, <1>3 DEF HistoryStep

\* Badges and operations, workers and prices are not mistaken for each other.
LEMMA Apart ==
  ASSUME TypeOK
  PROVE  /\ \A row \in history : row.of \in Subject /\ row.is \in Holder
         /\ \A row \in history : row.of \in Operation => row.of \notin Badge /\ row.is \notin Worker
         /\ \A row \in history : row.is \in Worker => row.of \in Badge /\ row.of \notin Operation
         /\ Worker \cap Operation = {} /\ Worker \cap Price = {} /\ Badge \cap Operation = {}
         /\ Model \notin Worker \cup Operation
<1>1. Badge \cap Operation = {}
  BY HistoryAssumption DEF Owner
<1>2. \A row \in history : row \in RowType /\ (row.of \in Badge <=> row.is \in Worker)
  BY DEF TypeOK
<1>3. QED
  BY <1>1, <1>2, HistoryAssumption DEF RowType

\* Prices stay as they are where no row of an operation changes.
LEMMA OperationsKept ==
  ASSUME TypeOK, RowsTyped(history'), AbsentInv, PriceTimeline,
         \A o \in Operation : Of(o)' = Of(o) /\ status'[o] = status[o]
  PROVE  AbsentInv' /\ PriceTimeline'
<1>1. AbsentInv'
  <2> SUFFICES ASSUME NEW row \in history', row.of \in Operation PROVE status'[row.of] # "ABSENT"
    BY DEF AbsentInv
  <2>1. row \in Of(row.of)'
    BY DEF Of
  <2>2. row \in Of(row.of)
    BY <2>1
  <2>3. QED
    BY <2>2 DEF Of, AbsentInv
<1>2. PriceTimeline'
  <2> SUFFICES ASSUME NEW o \in Operation, status'[o] # "ABSENT"
               PROVE  \E open \in history' :
                        /\ OpenRows(o)' = {open}
                        /\ \A row \in history' \ {open} : row.of = o =>
                             /\ row.to <= open.from
                             /\ \E next \in history' \ {row} : next.of = o /\ next.from = row.to
    BY DEF PriceTimeline
  <2>1. PICK open \in history :
          /\ OpenRows(o) = {open}
          /\ \A row \in history \ {open} : row.of = o =>
               /\ row.to <= open.from
               /\ \E next \in history \ {row} : next.of = o /\ next.from = row.to
    BY DEF PriceTimeline
  <2>2. OpenRows(o)' = OpenRows(o) /\ open \in history'
    <3>1. Of(o)' = Of(o) /\ open \in OpenRows(o)
      BY <2>1
    <3>2. QED
      BY <3>1 DEF Of, OpenRows
  <2>3. ASSUME NEW row \in history' \ {open}, row.of = o
        PROVE  row.to <= open.from /\ \E next \in history' \ {row} : next.of = o /\ next.from = row.to
    <3>1. row \in history \ {open}
      BY <2>3 DEF Of
    <3>2. PICK next \in history \ {row} : next.of = o /\ next.from = row.to
      BY <2>1, <2>3, <3>1
    <3>3. next \in history'
      BY <3>2 DEF Of
    <3>4. QED
      BY <2>1, <2>3, <3>1, <3>2, <3>3
  <2>4. QED
    BY <2>1, <2>2, <2>3
<1>3. QED
  BY <1>1, <1>2

\* A reader of a subject is told the same where no row of it changes.
LEMMA SameAnswers ==
  ASSUME NEW s, NEW t, Of(s)' = Of(s)
  PROVE  Answers(s, t)' = Answers(s, t)
<1>1. /\ {h \in history : h.of = s /\ Covers(h, t)} = {h \in Of(s) : Covers(h, t)}
      /\ {h \in history : h.of = s /\ Covers(h, t)}' = {h \in Of(s)' : Covers(h, t)}
  BY DEF Of, Covers
<1>2. QED
  BY <1>1 DEF Answers

\* Badges stay as they are where no open row of a worker appears.
LEMMA WorkersKept ==
  ASSUME InactiveHoldsNone,
         \A w \in Worker : OpenOf(w)' \subseteq OpenOf(w) /\ status'[w] = status[w]
  PROVE  InactiveHoldsNone'
BY DEF InactiveHoldsNone


-----------------------------------------------------------------------------
(* The last step of each request, for badges.                              *)

\* Badge writers leave the operations alone.
LEMMA AssignStep ==
  ASSUME IInv, NEW r \in Request, Assign(r)
  PROVE  End(r) /\ TablesStep(r) /\ HistoryStep(r)
<1> DEFINE q == request[r]
           row == Row(q.of, q.to, q.at)
<1>1. /\ End(r) /\ UNCHANGED <<status, version>>
      /\ \/ history' = history
         \/ q.at >= q.begun /\ Fits(row, history) /\ history' = history \cup {row}
  BY DEF Assign, Write
<1>2. CASE history' = history
  BY <1>1, <1>2, NothingWritten DEF tables
<1>3. CASE q.at >= q.begun /\ Fits(row, history) /\ history' = history \cup {row}
  <2>1. q.kind = "assign" /\ Exclusive(q.to) \in held[r]
    BY ReadyHoldsWorker DEF Assign, Ready
  <2>2. q \in AskType /\ q.of \in Badge /\ q.to \in Worker /\ status[q.to] = "ACTIVE"
    BY <2>1 DEF IInv, RequestInv, AskInv, FoundInv, Idle, Known
  <2>3. /\ row \in RowType /\ row.of = q.of /\ row.is = q.to /\ row.from = q.at /\ row.to = Open
    BY <2>2, NewRow DEF AskType, Subject, Holder
  <2>4. RowsTyped(history')
    BY <1>3, <2>2, InsertTyped DEF IInv, TypeOK, RowsTyped, AskType, Subject, Holder
  <2>5. \A o \in Operation : Of(o)' = Of(o)
    BY <1>3, <2>2, <2>3, Apart DEF Of, IInv
  <2>6. TablesStep(r)
    BY <1>1, <2>4, <2>5 DEF TablesStep, IInv, TypeOK
  <2>7. AbsentInv' /\ PriceTimeline'
    BY <1>1, <2>4, <2>5, OperationsKept DEF IInv
  <2>8. NoOverlap'
    BY <1>3, InsertNoOverlap DEF NoOverlap, IInv
  <2>9. InactiveHoldsNone'
    BY <1>1, <1>3, <2>2, <2>3 DEF InactiveHoldsNone, OpenOf, IInv
  <2>10. NotRewritten(r)
    <3> SUFFICES ASSUME NEW s \in Subject, NEW t \in Time, ~(q.begun <= t)
                 PROVE  Answers(s, t)' = Answers(s, t)
      BY DEF NotRewritten
    <3>1. q.begun \in Int /\ q.at \in Int /\ t \in Int
      BY <2>2 DEF AskType, Time
    <3>2. ~Covers(row, t)
      BY <1>3, <2>3, <3>1 DEF Covers
    <3>3. QED
      BY <1>3, <3>2 DEF Answers, Covers
  <2>11. QED
    BY <1>1, <2>6, <2>7, <2>8, <2>9, <2>10 DEF HistoryStep
<1>4. QED
  BY <1>1, <1>2, <1>3

\* The rows after those in `ending` have been closed at an instant r had begun by.
ClosedBy(r, ending, others) ==
  /\ RowsTyped(others)
  /\ \A a, b \in others : a.of = b.of /\ a # b => ~Overlap(a, b)
  /\ \A o \in Operation : {x \in others : x.of = o} = Of(o)
  /\ \A s \in Subject, t \in Time : t < request[r].begun =>
       {x.is : x \in {h \in others : h.of = s /\ Covers(h, t)}} = Answers(s, t)
  /\ \A w \in Worker : {x \in others : x.is = w /\ x.to = Open} = OpenOf(w) \ ending

\* Closing rows of badges changes neither operations nor what was answered.
LEMMA ClosingBadges ==
  ASSUME IInv, NEW r \in Request, request[r].begun \in Time,
         NEW ending \in SUBSET history, NEW at \in Time, at >= request[r].begun,
         \A row \in ending : row.to = Open /\ at > row.from /\ row.is \in Worker
  PROVE  ClosedBy(r, ending, Closed(ending, at))
<1> DEFINE others == Closed(ending, at)
<1>1. RowsTyped(others)
  BY ClosedTyped DEF IInv
<1>2. \A a, b \in others : a.of = b.of /\ a # b => ~Overlap(a, b)
  BY ClosedNoOverlap DEF IInv
<1>3. at # Open /\ at \in Int /\ request[r].begun \in Int
  BY HistoryAssumption DEF Time, Open
<1>4. \A old \in history : old \in RowType /\ (IF old \in ending THEN [old EXCEPT !.to = at] ELSE old) \in others
  BY DEF Closed, IInv, TypeOK
<1>5. \A row \in others : \E old \in history :
        /\ row.of = old.of /\ row.is = old.is /\ row.from = old.from
        /\ row = IF old \in ending THEN [old EXCEPT !.to = at] ELSE old
        /\ row.to = IF old \in ending THEN at ELSE old.to
  BY ClosedRow DEF IInv
<1>6. \A o \in Operation : {row \in others : row.of = o} = Of(o)
  <2>1. \A old \in ending : old.of \notin Operation
    BY Apart DEF IInv
  <2>2. ASSUME NEW o \in Operation, NEW row \in others, row.of = o PROVE row \in Of(o)
    BY <1>5, <2>1, <2>2 DEF Of
  <2>3. ASSUME NEW o \in Operation, NEW old \in Of(o) PROVE old \in others /\ old.of = o
    BY <1>4, <2>1, <2>3 DEF Of
  <2>4. QED
    BY <2>2, <2>3
<1>7. ASSUME NEW s \in Subject, NEW t \in Time, t < request[r].begun
      PROVE  {row.is : row \in {h \in others : h.of = s /\ Covers(h, t)}} = Answers(s, t)
  <2>1. t \in Int /\ t < at
    BY <1>3, <1>7 DEF Time
  <2>2. ASSUME NEW row \in others, NEW old \in history, row.of = old.of, row.from = old.from,
               row.to = IF old \in ending THEN at ELSE old.to
        PROVE  Covers(row, t) <=> Covers(old, t)
    BY <2>1, <2>2 DEF Covers
  <2>3. ASSUME NEW row \in others, row.of = s, Covers(row, t)
        PROVE  row.is \in Answers(s, t)
    BY <1>5, <2>2, <2>3 DEF Answers
  <2>4. ASSUME NEW old \in history, old.of = s, Covers(old, t)
        PROVE  \E row \in others : row.is = old.is /\ row.of = s /\ Covers(row, t)
    <3> DEFINE row == IF old \in ending THEN [old EXCEPT !.to = at] ELSE old
    <3>1. row \in others /\ old \in RowType
      BY <1>4
    <3>2. /\ row.of = old.of /\ row.is = old.is /\ row.from = old.from
          /\ row.to = IF old \in ending THEN at ELSE old.to
      BY <3>1 DEF RowType
    <3>3. QED
      BY <2>2, <2>4, <3>1, <3>2
  <2>5. QED
    BY <2>3, <2>4 DEF Answers
<1>8. \A w \in Worker : {row \in others : row.is = w /\ row.to = Open} = OpenOf(w) \ ending
  BY <1>3, <1>4, <1>5 DEF OpenOf
<1>9. QED
  BY <1>1, <1>2, <1>6, <1>7, <1>8 DEF ClosedBy

LEMMA ReassignStep ==
  ASSUME IInv, NEW r \in Request, Reassign(r)
  PROVE  End(r) /\ TablesStep(r) /\ HistoryStep(r)
<1> DEFINE q == request[r]
           row == Row(q.of, q.to, q.at)
           current == OpenRows(q.of)
           others == Closed(current, q.at)
<1>1. /\ End(r) /\ UNCHANGED <<status, version>>
      /\ \/ history' = history
         \/ /\ \A open \in current : q.at > open.from
            /\ q.at >= q.begun /\ Fits(row, others) /\ history' = others \cup {row}
  BY DEF Reassign, Write
<1>2. CASE history' = history
  BY <1>1, <1>2, NothingWritten DEF tables
<1>3. CASE /\ \A open \in current : q.at > open.from
           /\ q.at >= q.begun /\ Fits(row, others) /\ history' = others \cup {row}
  <2>1. q.kind = "reassign" /\ Exclusive(q.to) \in held[r]
    BY ReadyHoldsWorker DEF Reassign, Ready
  <2>2. q \in AskType /\ q.of \in Badge /\ q.to \in Worker /\ status[q.to] = "ACTIVE"
    BY <2>1 DEF IInv, RequestInv, AskInv, FoundInv, Idle, Known
  <2>3. /\ row \in RowType /\ row.of = q.of /\ row.is = q.to /\ row.from = q.at /\ row.to = Open
    BY <2>2, NewRow DEF AskType, Subject, Holder
  <2>4. /\ current \in SUBSET history /\ q.begun \in Time /\ q.at \in Time
        /\ \A x \in current : x.to = Open /\ x.is \in Worker
    BY <2>2 DEF OpenRows, AskType, IInv, TypeOK
  <2>5. /\ RowsTyped(others)
        /\ \A a, b \in others : a.of = b.of /\ a # b => ~Overlap(a, b)
        /\ \A o \in Operation : {x \in others : x.of = o} = Of(o)
        /\ \A s \in Subject, t \in Time : t < q.begun =>
             {x.is : x \in {h \in others : h.of = s /\ Covers(h, t)}} = Answers(s, t)
        /\ \A w \in Worker : {x \in others : x.is = w /\ x.to = Open} = OpenOf(w) \ current
    <3>1. ClosedBy(r, current, others)
      BY <1>3, <2>4, ClosingBadges
    <3>2. QED
      BY <3>1 DEF ClosedBy
  <2>6. RowsTyped(history')
    BY <1>3, <2>2, <2>4, <2>5, InsertTyped DEF Subject, Holder
  <2>7. \A o \in Operation : Of(o)' = Of(o)
    BY <1>3, <2>2, <2>3, <2>5, Apart DEF Of, IInv
  <2>8. TablesStep(r)
    BY <1>1, <2>6, <2>7 DEF TablesStep, IInv, TypeOK
  <2>9. AbsentInv' /\ PriceTimeline'
    BY <1>1, <2>6, <2>7, OperationsKept DEF IInv
  <2>10. NoOverlap'
    BY <1>3, <2>5, InsertNoOverlap DEF NoOverlap
  <2>11. InactiveHoldsNone'
    BY <1>1, <1>3, <2>2, <2>3, <2>5 DEF InactiveHoldsNone, OpenOf, IInv
  <2>12. NotRewritten(r)
    <3> SUFFICES ASSUME NEW s \in Subject, NEW t \in Time, ~(q.begun <= t)
                 PROVE  Answers(s, t)' = Answers(s, t)
      BY DEF NotRewritten
    <3>1. q.begun \in Int /\ q.at \in Int /\ t \in Int /\ t < q.begun
      BY <2>4 DEF Time
    <3>2. ~Covers(row, t)
      BY <1>3, <2>3, <3>1 DEF Covers
    <3>3. Answers(s, t)' = {x.is : x \in {h \in others : h.of = s /\ Covers(h, t)}}
      BY <1>3, <3>2 DEF Answers, Covers
    <3>4. QED
      BY <2>5, <3>1, <3>3
  <2>13. QED
    BY <1>1, <2>8, <2>9, <2>10, <2>11, <2>12 DEF HistoryStep
<1>4. QED
  BY <1>1, <1>2, <1>3

LEMMA ReleaseStep ==
  ASSUME IInv, NEW r \in Request, Release(r)
  PROVE  End(r) /\ TablesStep(r) /\ HistoryStep(r)
<1> DEFINE q == request[r]
           current == OpenRows(q.of)
           others == Closed(current, q.at)
<1>1. /\ End(r) /\ UNCHANGED <<status, version>>
      /\ \/ history' = history
         \/ /\ \A open \in current : q.at > open.from
            /\ q.at >= q.begun /\ history' = others
  BY DEF Release, Write
<1>2. CASE history' = history
  BY <1>1, <1>2, NothingWritten DEF tables
<1>3. CASE /\ \A open \in current : q.at > open.from
           /\ q.at >= q.begun /\ history' = others
  <2>1. q \in AskType /\ q.of \in Badge
    BY DEF Release, Ready, IInv, RequestInv, AskInv, Idle
  <2>2. /\ current \in SUBSET history /\ q.begun \in Time /\ q.at \in Time
        /\ \A x \in current : x.to = Open /\ x.is \in Worker
    BY <2>1 DEF OpenRows, AskType, IInv, TypeOK
  <2>3. /\ RowsTyped(others)
        /\ \A a, b \in others : a.of = b.of /\ a # b => ~Overlap(a, b)
        /\ \A o \in Operation : {x \in others : x.of = o} = Of(o)
        /\ \A s \in Subject, t \in Time : t < q.begun =>
             {x.is : x \in {h \in others : h.of = s /\ Covers(h, t)}} = Answers(s, t)
        /\ \A w \in Worker : {x \in others : x.is = w /\ x.to = Open} = OpenOf(w) \ current
    <3>1. ClosedBy(r, current, others)
      BY <1>3, <2>2, ClosingBadges
    <3>2. QED
      BY <3>1 DEF ClosedBy
  <2>4. \A o \in Operation : Of(o)' = Of(o)
    BY <1>3, <2>3 DEF Of
  <2>5. TablesStep(r)
    BY <1>1, <1>3, <2>3, <2>4 DEF TablesStep, IInv, TypeOK
  <2>6. AbsentInv' /\ PriceTimeline'
    BY <1>1, <1>3, <2>3, <2>4, OperationsKept DEF IInv
  <2>7. NoOverlap'
    BY <1>3, <2>3 DEF NoOverlap
  <2>8. InactiveHoldsNone'
    BY <1>1, <1>3, <2>3 DEF InactiveHoldsNone, OpenOf, IInv
  <2>9. NotRewritten(r)
    <3> SUFFICES ASSUME NEW s \in Subject, NEW t \in Time, ~(q.begun <= t)
                 PROVE  Answers(s, t)' = Answers(s, t)
      BY DEF NotRewritten
    <3>1. t < q.begun
      BY <2>2 DEF Time
    <3>2. Answers(s, t)' = {x.is : x \in {h \in others : h.of = s /\ Covers(h, t)}}
      BY <1>3 DEF Answers, Covers
    <3>3. QED
      BY <2>3, <3>1, <3>2
  <2>10. QED
    BY <1>1, <2>5, <2>6, <2>7, <2>8, <2>9 DEF HistoryStep
<1>4. QED
  BY <1>1, <1>2, <1>3

-----------------------------------------------------------------------------
(* The last step of an update of a worker.                                 *)

\* A request that has locked the row it updates has found the version it expects.
LEMMA VersionFits ==
  ASSUME IInv, NEW r \in Request, NEW kind \in Versioned, Ready(r, kind)
  PROVE  /\ request[r] \in AskType /\ AskInv(request[r])
         /\ request[r].of \in Owner
         /\ Exclusive(request[r].of) \in held[r]
         /\ version[request[r].of] + 1 \in 1 .. MaxVersion
<1>1. request[r].kind = kind /\ kind # "none"
  BY DEF Ready, Versioned
<1>2. request[r] \in AskType /\ AskInv(request[r])
  BY <1>1 DEF IInv, RequestInv, Idle
<1>3. Exclusive(request[r].of) \in held[r]
  BY ReadyHoldsSubject
<1>4. request[r].of \in Owner
  BY <1>1, <1>2 DEF AskInv, Versioned, Owner
<1>5. version[request[r].of] = request[r].expects /\ request[r].expects < MaxVersion
  BY <1>1, <1>2, <1>3 DEF IInv, FoundInv, AskInv
<1>6. version[request[r].of] \in 1 .. MaxVersion
  BY <1>4 DEF IInv, TypeOK
<1>7. QED
  BY <1>2, <1>3, <1>4, <1>5, <1>6, HistoryAssumption

LEMMA UpdateWorkerStep ==
  ASSUME IInv, NEW r \in Request, UpdateWorker(r)
  PROVE  End(r) /\ TablesStep(r) /\ HistoryStep(r)
<1> DEFINE q == request[r]
           ending == IF status[q.of] = "ACTIVE" /\ q.to = "INACTIVE" THEN OpenOf(q.of) ELSE {}
           others == Closed(ending, q.begun)
<1>1. /\ End(r)
      /\ \/ UNCHANGED tables
         \/ /\ \A open \in ending : q.begun > open.from
            /\ history' = others
            /\ status' = [status EXCEPT ![q.of] = q.to]
            /\ version' = [version EXCEPT ![q.of] = @ + 1]
  BY DEF UpdateWorker, Write, Update, tables
<1>2. CASE UNCHANGED tables
  BY <1>1, <1>2, NothingWritten
<1>3. CASE /\ \A open \in ending : q.begun > open.from
           /\ history' = others
           /\ status' = [status EXCEPT ![q.of] = q.to]
           /\ version' = [version EXCEPT ![q.of] = @ + 1]
  <2>1. /\ q \in AskType /\ q.kind = "update_worker" /\ AskInv(q)
        /\ Exclusive(q.of) \in held[r] /\ version[q.of] + 1 \in 1 .. MaxVersion
    BY VersionFits DEF UpdateWorker, Ready, Versioned
  <2>2. q.of \in Worker /\ q.to \in Status \ {"ABSENT"} /\ q.begun \in Time
    BY <2>1 DEF AskInv, Versioned, AskType
  <2>3. ending \in SUBSET history /\ \A x \in ending : x.to = Open /\ x.is \in Worker
    BY <2>2 DEF OpenOf
  <2>4. q.begun >= q.begun
    BY <2>2 DEF Time
  <2>5. /\ RowsTyped(others)
        /\ \A a, b \in others : a.of = b.of /\ a # b => ~Overlap(a, b)
        /\ \A o \in Operation : {x \in others : x.of = o} = Of(o)
        /\ \A s \in Subject, t \in Time : t < q.begun =>
             {x.is : x \in {h \in others : h.of = s /\ Covers(h, t)}} = Answers(s, t)
        /\ \A w \in Worker : {x \in others : x.is = w /\ x.to = Open} = OpenOf(w) \ ending
    <3>1. ClosedBy(r, ending, others)
      BY <1>3, <2>2, <2>3, <2>4, ClosingBadges
    <3>2. QED
      BY <3>1 DEF ClosedBy
  <2>6. \A o \in Operation : Of(o)' = Of(o) /\ status'[o] = status[o]
    BY <1>3, <2>2, <2>5, HistoryAssumption DEF Of, IInv, TypeOK, Owner
  <2>7. /\ status' \in [Owner -> Status] /\ version' \in [Owner -> 1 .. MaxVersion]
        /\ \A x \in Owner : x # q.of => status'[x] = status[x] /\ version'[x] = version[x]
        /\ status'[q.of] = q.to
    BY <1>3, <2>1, <2>2 DEF IInv, TypeOK, Owner
  <2>8. TablesStep(r)
    BY <1>3, <2>1, <2>2, <2>5, <2>6, <2>7, Apart DEF TablesStep, IInv
  <2>9. AbsentInv' /\ PriceTimeline'
    BY <1>3, <2>5, <2>6, OperationsKept DEF IInv
  <2>10. NoOverlap'
    BY <1>3, <2>5 DEF NoOverlap
  <2>11. InactiveHoldsNone'
    <3> SUFFICES ASSUME NEW w \in Worker, status'[w] # "ACTIVE" PROVE OpenOf(w)' = {}
      BY DEF InactiveHoldsNone
    <3>1. OpenOf(w)' = OpenOf(w) \ ending
      BY <1>3, <2>5 DEF OpenOf
    <3>2. CASE w = q.of
      BY <2>2, <2>7, <3>1, <3>2 DEF IInv, InactiveHoldsNone, Status
    <3>3. CASE w # q.of
      BY <2>7, <3>1, <3>3 DEF IInv, InactiveHoldsNone, Owner
    <3>4. QED
      BY <3>2, <3>3
  <2>12. NotRewritten(r)
    <3> SUFFICES ASSUME NEW s \in Subject, NEW t \in Time, ~(q.begun <= t)
                 PROVE  Answers(s, t)' = Answers(s, t)
      BY DEF NotRewritten
    <3>1. t < q.begun
      BY <2>2 DEF Time
    <3>2. Answers(s, t)' = {x.is : x \in {h \in others : h.of = s /\ Covers(h, t)}}
      BY <1>3 DEF Answers, Covers
    <3>3. QED
      BY <2>5, <3>1, <3>2
  <2>13. QED
    BY <1>1, <2>8, <2>9, <2>10, <2>11, <2>12 DEF HistoryStep
<1>4. QED
  BY <1>1, <1>2, <1>3

-----------------------------------------------------------------------------
(* The last steps of the model, its operations and their prices.           *)

\* A change of status alone that brings no operation into being.
LEMMA StatusOnly ==
  ASSUME IInv, NEW r \in Request, history' = history, status' \in [Owner -> Status],
         \A w \in Worker : status'[w] = status[w],
         \A o \in Operation : status'[o] # "ABSENT" <=> status[o] # "ABSENT"
  PROVE  RowsTyped(history') /\ HistoryStep(r) /\ \A o \in Operation : Of(o)' = Of(o)
<1>1. RowsTyped(history') /\ \A o \in Operation : Of(o)' = Of(o)
  BY DEF IInv, TypeOK, RowsTyped, Of
<1>2. AbsentInv' /\ NoOverlap'
  BY DEF IInv, AbsentInv, NoOverlap
<1>3. PriceTimeline'
  BY DEF IInv, PriceTimeline, OpenRows
<1>4. InactiveHoldsNone'
  BY DEF IInv, InactiveHoldsNone, OpenOf
<1>5. NotRewritten(r)
  BY DEF NotRewritten, Answers
<1>6. QED
  BY <1>1, <1>2, <1>3, <1>4, <1>5 DEF HistoryStep

LEMMA UpdateModelStep ==
  ASSUME IInv, NEW r \in Request, UpdateModel(r)
  PROVE  End(r) /\ TablesStep(r) /\ HistoryStep(r)
<1> DEFINE q == request[r]
<1>1. /\ q \in AskType /\ q.kind = "update_model" /\ AskInv(q)
      /\ Exclusive(q.of) \in held[r] /\ version[q.of] + 1 \in 1 .. MaxVersion
  BY VersionFits DEF UpdateModel, Ready, Versioned
<1>2. q.of = Model /\ q.to \in Status \ {"ABSENT"}
  BY <1>1 DEF AskInv, Versioned
<1>3. /\ End(r) /\ history' = history
      /\ status' = [status EXCEPT ![Model] = q.to]
      /\ version' = [version EXCEPT ![Model] = @ + 1]
  BY DEF UpdateModel, Update
<1>4. /\ status' \in [Owner -> Status] /\ version' \in [Owner -> 1 .. MaxVersion]
      /\ \A x \in Owner : x # Model => status'[x] = status[x] /\ version'[x] = version[x]
      /\ status'[Model] = q.to
  BY <1>1, <1>2, <1>3 DEF IInv, TypeOK, Owner
<1>5. RowsTyped(history') /\ HistoryStep(r) /\ \A o \in Operation : Of(o)' = Of(o)
  BY <1>3, <1>4, StatusOnly, Apart DEF Owner, IInv
<1>6. TablesStep(r)
  BY <1>1, <1>2, <1>4, <1>5, Apart DEF TablesStep, IInv
<1>7. QED
  BY <1>3, <1>5, <1>6

LEMMA UpdateOperationStep ==
  ASSUME IInv, NEW r \in Request, UpdateOperation(r)
  PROVE  End(r) /\ TablesStep(r) /\ HistoryStep(r)
<1> DEFINE q == request[r]
           s == IF q.to = Unsaid THEN status[q.of] ELSE q.to
<1>1. /\ q \in AskType /\ q.kind = "update_operation" /\ AskInv(q)
      /\ Exclusive(q.of) \in held[r] /\ version[q.of] + 1 \in 1 .. MaxVersion
  BY VersionFits DEF UpdateOperation, Ready, Versioned
<1>2. q.of \in Operation /\ s \in Status \ {"ABSENT"} /\ status[q.of] # "ABSENT"
  BY <1>1 DEF AskInv, Versioned, IInv, TypeOK, Owner
<1>3. Exclusive(Model) \in held[r]
  BY ReadyHoldsModel DEF UpdateOperation
<1>4. /\ End(r) /\ history' = history
      /\ \/ UNCHANGED <<status, version>>
         \/ /\ status' = [status EXCEPT ![q.of] = s]
            /\ version' = [version EXCEPT ![q.of] = @ + 1]
  BY DEF UpdateOperation, Update
<1>5. CASE UNCHANGED <<status, version>>
  BY <1>4, <1>5, NothingWritten DEF tables
<1>6. CASE /\ status' = [status EXCEPT ![q.of] = s]
           /\ version' = [version EXCEPT ![q.of] = @ + 1]
  <2>1. /\ status' \in [Owner -> Status] /\ version' \in [Owner -> 1 .. MaxVersion]
        /\ \A x \in Owner : x # q.of => status'[x] = status[x] /\ version'[x] = version[x]
        /\ status'[q.of] = s
    BY <1>1, <1>2, <1>6 DEF IInv, TypeOK, Owner
  <2>2. RowsTyped(history') /\ HistoryStep(r) /\ \A o \in Operation : Of(o)' = Of(o)
    BY <1>2, <1>4, <2>1, StatusOnly, Apart DEF Owner, IInv
  <2>3. TablesStep(r)
    BY <1>1, <1>2, <1>3, <2>1, <2>2 DEF TablesStep
  <2>4. QED
    BY <1>4, <2>2, <2>3
<1>7. QED
  BY <1>4, <1>5, <1>6

\* The first price of a new operation.
LEMMA FirstPrice ==
  ASSUME IInv, NEW r \in Request, NEW o \in Operation, status[o] = "ABSENT",
         NEW price \in Price, NEW from \in Time, history' = history \cup {Row(o, price, from)},
         NEW s \in Status \ {"ABSENT"}, status' = [status EXCEPT ![o] = s], UNCHANGED version,
         Exclusive(Model) \in held[r]
  PROVE  TablesStep(r) /\ HistoryStep(r)
<1> DEFINE row == Row(o, price, from)
<1>1. row \in RowType /\ row.of = o /\ row.is = price /\ row.from = from /\ row.to = Open
  BY NewRow DEF Subject, Holder
<1>2. Of(o) = {}
  BY DEF IInv, AbsentInv, Of
<1>3. price \notin Worker /\ o \notin Badge /\ o \notin Worker /\ o # Model
  BY Apart DEF IInv
<1>4. RowsTyped(history')
  BY <1>3, InsertTyped DEF IInv, TypeOK, RowsTyped, Subject, Holder
<1>5. /\ status' \in [Owner -> Status] /\ version' \in [Owner -> 1 .. MaxVersion]
      /\ \A x \in Owner : x # o => status'[x] = status[x]
      /\ status'[o] = s
  BY DEF IInv, TypeOK, Owner
<1>6. \A x \in Subject : x # o => Of(x)' = Of(x)
  BY <1>1 DEF Of
<1>7. Of(o)' = {row}
  BY <1>1, <1>2 DEF Of
<1>8. TablesStep(r)
  BY <1>4, <1>5 DEF TablesStep, IInv, TypeOK
<1>9. AbsentInv'
  BY <1>1, <1>5 DEF AbsentInv, IInv, Owner
<1>10. NoOverlap'
  <2>1. Fits(row, history)
    BY <1>1, <1>2 DEF Fits, Of
  <2>2. QED
    BY <2>1, InsertNoOverlap DEF NoOverlap, IInv
<1>11. PriceTimeline'
  <2> SUFFICES ASSUME NEW p \in Operation, status'[p] # "ABSENT"
               PROVE  \E open \in history' :
                        /\ OpenRows(p)' = {open}
                        /\ \A x \in history' \ {open} : x.of = p =>
                             /\ x.to <= open.from
                             /\ \E next \in history' \ {x} : next.of = p /\ next.from = x.to
    BY DEF PriceTimeline
  <2>1. CASE p = o
    <3>1. OpenRows(o)' = {row} /\ \A x \in history' : x.of = o => x = row
      BY <1>1, <1>7 DEF OpenRows, Of
    <3>2. QED
      BY <2>1, <3>1
  <2>2. CASE p # o
    <3>1. PICK open \in history :
            /\ OpenRows(p) = {open}
            /\ \A x \in history \ {open} : x.of = p =>
                 /\ x.to <= open.from
                 /\ \E next \in history \ {x} : next.of = p /\ next.from = x.to
      BY <1>5, <2>2 DEF IInv, PriceTimeline, Owner
    <3>2. OpenRows(p)' = {open}
      BY <1>1, <2>2, <3>1 DEF OpenRows
    <3>3. \A x \in history' \ {open} : x.of = p => x \in history \ {open}
      BY <1>1, <2>2
    <3>4. QED
      BY <3>1, <3>2, <3>3
  <2>3. QED
    BY <2>1, <2>2
<1>12. InactiveHoldsNone'
  <2>1. \A w \in Worker : OpenOf(w)' \subseteq OpenOf(w) /\ status'[w] = status[w]
    BY <1>1, <1>3, <1>5 DEF OpenOf, Owner
  <2>2. QED
    BY <2>1, WorkersKept DEF IInv
<1>13. NotRewritten(r)
  <2>1. \A x \in Subject, t \in Time : x # o => Answers(x, t)' = Answers(x, t)
    BY <1>6, SameAnswers
  <2>2. \A t \in Time : Answers(o, t) = {}
    BY <1>2 DEF Answers, Of
  <2>3. QED
    BY <1>3, <2>1, <2>2 DEF NotRewritten
<1>14. QED
  BY <1>8, <1>9, <1>10, <1>11, <1>12, <1>13 DEF HistoryStep

LEMMA CreateStep ==
  ASSUME IInv, NEW r \in Request, CreateOperation(r) \/ CreateCustom(r)
  PROVE  End(r) /\ TablesStep(r) /\ HistoryStep(r)
<1> DEFINE q == request[r]
<1>1. Exclusive(Model) \in held[r] /\ q.kind \in Creating
  BY ReadyHoldsModel DEF CreateOperation, CreateCustom, Creating, Ready
<1>2. q \in AskType /\ q.of \in Operation /\ q.to \in Price
  BY <1>1 DEF IInv, RequestInv, AskInv, Idle, Creating
<1>3. q.at \in Time /\ q.begun \in Time
  BY <1>2 DEF AskType
<1>4. /\ End(r)
      /\ \/ UNCHANGED tables
         \/ /\ status[q.of] = "ABSENT" /\ UNCHANGED version
            /\ \E s \in Status \ {"ABSENT"} : status' = [status EXCEPT ![q.of] = s]
            /\ \E from \in {q.at, q.begun} : history' = history \cup {Row(q.of, q.to, from)}
  <2>1. CASE CreateOperation(r)
    BY <2>1 DEF CreateOperation, Write, tables
  <2>2. CASE CreateCustom(r)
    BY <2>2 DEF CreateCustom, Write, tables, Status
  <2>3. QED
    BY <2>1, <2>2
<1>5. CASE UNCHANGED tables
  BY <1>4, <1>5, NothingWritten
<1>6. ASSUME status[q.of] = "ABSENT", UNCHANGED version,
             NEW s \in Status \ {"ABSENT"}, status' = [status EXCEPT ![q.of] = s],
             NEW from \in {q.at, q.begun}, history' = history \cup {Row(q.of, q.to, from)}
      PROVE  TablesStep(r) /\ HistoryStep(r)
  BY <1>1, <1>2, <1>3, <1>6, FirstPrice
<1>7. QED
  BY <1>4, <1>5, <1>6

\* The open price ends where the next one begins.
LEMMA NextPrice ==
  ASSUME IInv, NEW r \in Request, NEW o \in Operation, status[o] # "ABSENT",
         NEW price \in Price, NEW at \in Time, at >= request[r].begun, request[r].begun \in Time,
         \A open \in OpenRows(o) : at > open.from,
         Fits(Row(o, price, at), Closed(OpenRows(o), at)),
         history' = Closed(OpenRows(o), at) \cup {Row(o, price, at)},
         \A x \in Owner : status'[x] = status[x]
  PROVE  /\ RowsTyped(history') /\ HistoryStep(r)
         /\ \A x \in Subject : x # o => Of(x)' = Of(x)
<1> DEFINE row == Row(o, price, at)
           ending == OpenRows(o)
           others == Closed(ending, at)
<1>1. row \in RowType /\ row.of = o /\ row.is = price /\ row.from = at /\ row.to = Open
  BY NewRow DEF Subject, Holder
<1>2. price \notin Worker /\ o \notin Badge /\ o \notin Worker /\ o # Model
  BY Apart DEF IInv
<1>3. ending \in SUBSET history /\ \A x \in ending : x.to = Open /\ x.of = o /\ x.is \notin Worker
  BY <1>2, Apart DEF OpenRows, IInv
<1>4. \A old \in history : old \in RowType /\ (IF old \in ending THEN [old EXCEPT !.to = at] ELSE old) \in others
  BY DEF Closed, IInv, TypeOK
<1>5. \A x \in others : \E old \in history :
        /\ x.of = old.of /\ x.is = old.is /\ x.from = old.from
        /\ x = IF old \in ending THEN [old EXCEPT !.to = at] ELSE old
        /\ x.to = IF old \in ending THEN at ELSE old.to
  BY ClosedRow DEF IInv
<1>6. RowsTyped(history')
  <2>1. RowsTyped(others)
    BY <1>3, ClosedTyped DEF IInv
  <2>2. QED
    BY <1>2, <2>1, InsertTyped DEF Subject, Holder
<1>7. \A x \in Subject : x # o => Of(x)' = Of(x)
  <2> SUFFICES ASSUME NEW s \in Subject, s # o PROVE Of(s)' = Of(s)
    OBVIOUS
  <2>1. ASSUME NEW x \in history', x.of = s PROVE x \in history
    BY <1>1, <1>3, <1>5, <2>1
  <2>2. ASSUME NEW x \in history, x.of = s PROVE x \in history'
    BY <1>3, <1>4, <2>2
  <2>3. QED
    BY <2>1, <2>2 DEF Of
<1>8. AbsentInv'
  <2> SUFFICES ASSUME NEW x \in history', x.of \in Operation PROVE status'[x.of] # "ABSENT"
    BY DEF AbsentInv
  <2>1. CASE x = row
    BY <1>1, <2>1 DEF Owner
  <2>2. CASE x \in others
    BY <1>5, <2>2 DEF IInv, AbsentInv, Owner
  <2>3. QED
    BY <2>1, <2>2
<1>9. NoOverlap'
  <2>1. \A a, b \in others : a.of = b.of /\ a # b => ~Overlap(a, b)
    BY <1>3, ClosedNoOverlap DEF IInv
  <2>2. QED
    BY <2>1, InsertNoOverlap DEF NoOverlap
<1>10. PriceTimeline'
  <2> SUFFICES ASSUME NEW p \in Operation, status'[p] # "ABSENT"
               PROVE  \E open \in history' :
                        /\ OpenRows(p)' = {open}
                        /\ \A x \in history' \ {open} : x.of = p =>
                             /\ x.to <= open.from
                             /\ \E next \in history' \ {x} : next.of = p /\ next.from = x.to
    BY DEF PriceTimeline
  <2>1. PICK open \in history :
          /\ OpenRows(p) = {open}
          /\ \A x \in history \ {open} : x.of = p =>
               /\ x.to <= open.from
               /\ \E next \in history \ {x} : next.of = p /\ next.from = x.to
    BY DEF IInv, PriceTimeline, Owner
  <2>2. CASE p # o
    <3>1. Of(p)' = Of(p)
      BY <1>7, <2>2 DEF Subject
    <3>2. OpenRows(p)' = {open} /\ open \in history'
      BY <2>1, <3>1 DEF OpenRows, Of
    <3>3. ASSUME NEW x \in history' \ {open}, x.of = p
          PROVE  x.to <= open.from /\ \E next \in history' \ {x} : next.of = p /\ next.from = x.to
      <4>1. x \in history \ {open}
        BY <3>1, <3>3 DEF Of
      <4>2. PICK next \in history \ {x} : next.of = p /\ next.from = x.to
        BY <2>1, <3>3, <4>1
      <4>3. next \in history'
        BY <3>1, <4>2 DEF Of
      <4>4. QED
        BY <2>1, <3>3, <4>1, <4>2, <4>3
    <3>4. QED
      BY <3>2, <3>3
  <2>3. CASE p = o
    <3> DEFINE closed == [open EXCEPT !.to = at]
    <3>1. /\ open \in RowType /\ open.of = o /\ open.to = Open /\ at > open.from
          /\ ending = {open}
      BY <1>3, <1>4, <2>1, <2>3
    <3>2. /\ closed.of = o /\ closed.from = open.from /\ closed.to = at
          /\ closed \in others
      BY <1>4, <3>1 DEF RowType
    <3>3. at # Open /\ at \in Int
      BY HistoryAssumption DEF Time, Open
    <3>4. ASSUME NEW x \in others, x.of = o
          PROVE  x = closed \/ x \in history \ {open}
      BY <1>5, <3>1, <3>4
    <3>5. OpenRows(o)' = {row}
      <4>1. \A x \in others : x.of = o => x.to # Open
        BY <1>5, <2>1, <2>3, <3>3 DEF OpenRows
      <4>2. QED
        BY <1>1, <4>1 DEF OpenRows
    <3>6. ASSUME NEW x \in others, x.of = o
          PROVE  x.to <= at /\ \E next \in history' \ {x} : next.of = o /\ next.from = x.to
      <4>1. CASE x = closed
        <5>1. row # closed
          BY <1>1, <3>2, <3>3
        <5>2. QED
          BY <1>1, <3>2, <3>3, <4>1, <5>1
      <4>2. CASE x \in history \ {open}
        <5>1. x.to <= open.from /\ x.to # Open /\ x \in RowType
          BY <1>4, <2>1, <2>3, <3>6, <4>2 DEF OpenRows
        <5>2. PICK next \in history \ {x} : next.of = o /\ next.from = x.to
          BY <2>1, <2>3, <3>6, <4>2
        <5>3. x.to <= at
          BY <3>1, <5>1, HistoryAssumption DEF RowType, Time
        <5>4. CASE next = open
          <6>1. closed # x
            BY <3>1, <3>2, <5>1 DEF RowType, Time
          <6>2. QED
            BY <3>2, <5>2, <5>3, <5>4, <6>1
        <5>5. CASE next # open
          <6>1. next \in others
            BY <1>4, <3>1, <5>2, <5>5
          <6>2. QED
            BY <5>2, <5>3, <6>1
        <5>6. QED
          BY <5>4, <5>5
      <4>3. QED
        BY <3>4, <3>6, <4>1, <4>2
    <3>7. QED
      BY <1>1, <2>3, <3>5, <3>6
  <2>4. QED
    BY <2>2, <2>3
<1>11. InactiveHoldsNone'
  <2>1. \A w \in Worker : OpenOf(w)' \subseteq OpenOf(w)
    <3> SUFFICES ASSUME NEW w \in Worker, NEW x \in history', x.is = w, x.to = Open
                 PROVE  x \in history
      BY DEF OpenOf
    <3>1. x \in others
      BY <1>1, <1>2
    <3>2. QED
      BY <1>3, <1>5, <3>1
  <2>2. QED
    BY <2>1, WorkersKept DEF IInv, Owner
<1>12. NotRewritten(r)
  <2> SUFFICES ASSUME NEW s \in Subject, NEW t \in Time, ~(request[r].begun <= t)
               PROVE  Answers(s, t)' = Answers(s, t)
    BY DEF NotRewritten
  <2>1. t \in Int /\ at \in Int /\ t < at
    BY HistoryAssumption DEF Time
  <2>2. ~Covers(row, t)
    BY <1>1, <2>1 DEF Covers
  <2>3. ASSUME NEW x \in others, NEW old \in history, x.from = old.from,
               x.to = IF old \in ending THEN at ELSE old.to
        PROVE  Covers(x, t) <=> Covers(old, t)
    BY <1>3, <2>1, <2>3 DEF Covers
  <2>4. ASSUME NEW x \in history', x.of = s, Covers(x, t)
        PROVE  x.is \in Answers(s, t)
    BY <1>5, <2>2, <2>3, <2>4 DEF Answers
  <2>5. ASSUME NEW old \in history, old.of = s, Covers(old, t)
        PROVE  \E x \in history' : x.is = old.is /\ x.of = s /\ Covers(x, t)
    <3> DEFINE x == IF old \in ending THEN [old EXCEPT !.to = at] ELSE old
    <3>1. x \in others /\ old \in RowType
      BY <1>4
    <3>2. /\ x.of = old.of /\ x.is = old.is /\ x.from = old.from
          /\ x.to = IF old \in ending THEN at ELSE old.to
      BY <3>1 DEF RowType
    <3>3. QED
      BY <2>3, <2>5, <3>1, <3>2
  <2>6. Answers(s, t)' = {x.is : x \in {h \in history' : h.of = s /\ Covers(h, t)}}
    BY DEF Answers, Covers
  <2>7. QED
    BY <2>4, <2>5, <2>6 DEF Answers
<1>13. QED
  BY <1>6, <1>7, <1>8, <1>9, <1>10, <1>11, <1>12 DEF HistoryStep

LEMMA ChangePriceStep ==
  ASSUME IInv, NEW r \in Request, ChangePrice(r)
  PROVE  End(r) /\ TablesStep(r) /\ HistoryStep(r)
<1> DEFINE q == request[r]
           row == Row(q.of, q.to, q.at)
           others == Closed(OpenRows(q.of), q.at)
<1>1. /\ q \in AskType /\ q.kind = "change_price" /\ AskInv(q)
      /\ Exclusive(q.of) \in held[r] /\ version[q.of] + 1 \in 1 .. MaxVersion
  BY VersionFits DEF ChangePrice, Ready, Versioned
<1>2. /\ q.of \in Operation /\ q.to \in Price /\ status[q.of] # "ABSENT"
      /\ q.at \in Time /\ q.begun \in Time
  BY <1>1 DEF AskInv, Versioned, AskType
<1>3. /\ End(r)
      /\ \/ UNCHANGED tables
         \/ /\ \A open \in OpenRows(q.of) : q.at > open.from
            /\ q.at >= q.begun /\ Fits(row, others) /\ history' = others \cup {row}
            /\ status' = [status EXCEPT ![q.of] = status[q.of]]
            /\ version' = [version EXCEPT ![q.of] = @ + 1]
  BY DEF ChangePrice, Write, Update, tables
<1>4. CASE UNCHANGED tables
  BY <1>3, <1>4, NothingWritten
<1>5. CASE /\ \A open \in OpenRows(q.of) : q.at > open.from
           /\ q.at >= q.begun /\ Fits(row, others) /\ history' = others \cup {row}
           /\ status' = [status EXCEPT ![q.of] = status[q.of]]
           /\ version' = [version EXCEPT ![q.of] = @ + 1]
  <2>1. status' = status
    BY <1>5 DEF IInv, TypeOK
  <2>2. /\ version' \in [Owner -> 1 .. MaxVersion]
        /\ \A x \in Owner : x # q.of => version'[x] = version[x]
    BY <1>1, <1>2, <1>5 DEF IInv, TypeOK, Owner
  <2>3. /\ RowsTyped(history') /\ HistoryStep(r)
        /\ \A x \in Subject : x # q.of => Of(x)' = Of(x)
    BY <1>2, <1>5, <2>1, NextPrice
  <2>4. TablesStep(r)
    BY <1>1, <2>1, <2>2, <2>3 DEF TablesStep, IInv, TypeOK, Subject
  <2>5. QED
    BY <1>3, <2>3, <2>4
<1>6. QED
  BY <1>3, <1>4, <1>5

-----------------------------------------------------------------------------
(* Every step keeps the invariant.                                         *)

\* The end of a request: what the others have found under their locks stands.
LEMMA EndKeeps ==
  ASSUME IInv, NEW r \in Request, End(r), TablesStep(r), HistoryStep(r)
  PROVE  IInv'
<1>1. /\ request' \in [Request -> {Idle} \cup AskType] /\ held' \in [Request -> SUBSET LockType]
      /\ snapshot' \in [Request -> SUBSET (Operation \X Price)]
      /\ request'[r] = Idle /\ held'[r] = {} /\ snapshot'[r] = Nothing
      /\ \A q \in Request \ {r} : request'[q] = request[q] /\ held'[q] = held[q] /\ snapshot'[q] = snapshot[q]
      /\ now' = now
  BY DEF IInv, RequestInv, End, Nothing
<1>2. \A x \in Owner : status[x] # "ABSENT" => status'[x] # "ABSENT"
  BY DEF TablesStep
<1>3. TypeOK'
  BY <1>1 DEF IInv, TypeOK, TablesStep, RowsTyped
<1>4. RequestInv'
  <2>1. AskInv(Idle)'
    BY DEF AskInv, Idle, Versioned, Creating
  <2>2. ASSUME NEW q \in Request \ {r} PROVE AskInv(request[q])'
    <3>1. AskInv(request[q]) /\ request'[q] = request[q]
      BY <1>1 DEF IInv, RequestInv
    <3>2. Known \subseteq Known'
      BY <1>2 DEF Known, Owner
    <3>3. QED
      BY <1>2, <3>1, <3>2 DEF AskInv, Versioned, Owner
  <2>3. QED
    BY <1>1, <2>1, <2>2 DEF RequestInv
<1>5. LockInv'
  BY <1>1 DEF IInv, LockInv
<1>6. ASSUME NEW q \in Request \ {r}, NEW a \in held[q], NEW b \in held[r] PROVE ~Conflicts(b, a)
  BY <1>6 DEF IInv, LockInv
<1>7. FoundInv'
  <2> SUFFICES ASSUME NEW q \in Request
               PROVE  /\ request'[q].kind \in {"assign", "reassign"} /\ Exclusive(request'[q].to) \in held'[q] =>
                           status'[request'[q].to] = "ACTIVE"
                      /\ request'[q].kind \in Versioned /\ Exclusive(request'[q].of) \in held'[q] =>
                           version'[request'[q].of] = request'[q].expects
    BY DEF FoundInv, Exclusive
  <2>1. CASE q = r
    BY <1>1, <2>1
  <2>2. CASE q # r
    <3>1. ASSUME request[q].kind \in {"assign", "reassign"}, Exclusive(request[q].to) \in held[q]
          PROVE  status'[request[q].to] = "ACTIVE"
      <4>1. request[q].to \in Owner /\ status[request[q].to] = "ACTIVE"
        BY <3>1 DEF IInv, RequestInv, AskInv, Known, Owner, FoundInv
      <4>2. Exclusive(request[q].to) \notin held[r]
        BY <1>6, <2>2, <3>1 DEF Conflicts, Exclusive
      <4>3. QED
        BY <4>1, <4>2 DEF TablesStep
    <3>2. ASSUME request[q].kind \in Versioned, Exclusive(request[q].of) \in held[q]
          PROVE  version'[request[q].of] = request[q].expects
      <4>1. request[q].of \in Owner /\ version[request[q].of] = request[q].expects
        BY <3>2 DEF IInv, RequestInv, AskInv, Owner, FoundInv, Versioned
      <4>2. Exclusive(request[q].of) \notin held[r]
        BY <1>6, <2>2, <3>2 DEF Conflicts, Exclusive
      <4>3. QED
        BY <4>1, <4>2 DEF TablesStep
    <3>3. QED
      BY <1>1, <2>2, <3>1, <3>2
  <2>3. QED
    BY <2>1, <2>2
<1>8. ASSUME NEW q \in Request \ {r}, Shared(Model) \in held[q]
      PROVE  /\ ActiveOperations' = ActiveOperations
             /\ \A o \in Locked(q) : Of(o)' = Of(o)
  <2>1. Exclusive(Model) \notin held[r]
    BY <1>6, <1>8 DEF Conflicts, Exclusive, Shared
  <2>2. \A o \in Locked(q) : Exclusive(o) \notin held[r]
    BY <1>6, <1>8 DEF Conflicts, Exclusive, Shared, Locked
  <2>3. \A o \in Operation : status'[o] = status[o]
    BY <2>1 DEF TablesStep, Owner
  <2>4. QED
    BY <2>1, <2>2, <2>3 DEF TablesStep, ActiveOperations, Locked
<1>9. ASSUME NEW q \in Request \ {r} PROVE Locked(q)' = Locked(q)
  BY <1>1 DEF Locked, Shared
<1>10. BatchInv'
  <2> SUFFICES ASSUME NEW q \in Request
               PROVE  /\ snapshot'[q] # Nothing => request'[q].kind = "batch"
                      /\ request'[q].kind = "batch" =>
                           /\ Locked(q)' # {} => Shared(Model) \in held'[q]
                           /\ Locked(q)' \subseteq ActiveOperations'
                           /\ \A entry \in snapshot'[q] : entry[1] \in Locked(q)'
    BY DEF BatchInv, Nothing, Shared
  <2>1. CASE q = r
    BY <1>1, <2>1 DEF Idle, Nothing
  <2>2. CASE q # r
    BY <1>1, <1>8, <1>9, <2>2 DEF IInv, BatchInv
  <2>3. QED
    BY <2>1, <2>2
<1>11. SnapshotHolds'
  <2> SUFFICES ASSUME NEW q \in Request, snapshot'[q] # Nothing
               PROVE  /\ Locked(q)' = ActiveOperations'
                      /\ \A entry \in snapshot'[q] : Answers(entry[1], request[q].begun)' = {entry[2]}
    BY DEF SnapshotHolds, Nothing
  <2>1. q # r /\ snapshot[q] # Nothing /\ request'[q] = request[q] /\ snapshot'[q] = snapshot[q]
    BY <1>1
  <2>2. /\ Locked(q) = ActiveOperations
        /\ \A entry \in snapshot[q] : entry[1] \in Locked(q) /\ Answers(entry[1], request[q].begun) = {entry[2]}
    BY <2>1 DEF IInv, SnapshotHolds, BatchInv
  <2>3. Shared(Model) \in held[q]
    BY <2>1, <2>2 DEF IInv, BatchInv, Nothing
  <2>4. PICK t : t = request[q].begun
    OBVIOUS
  <2>5. \A entry \in snapshot[q] : Answers(entry[1], t)' = Answers(entry[1], t)
    BY <1>8, <2>1, <2>2, <2>3, SameAnswers
  <2>6. \A entry \in snapshot[q] : Answers(entry[1], t)' = {entry[2]}
    BY <2>2, <2>4, <2>5
  <2>7. \A entry \in snapshot[q] : Answers(entry[1], request[q].begun)' = Answers(entry[1], t)'
    BY <2>1, <2>4 DEF Answers, Covers
  <2>8. QED
    BY <1>8, <1>9, <2>1, <2>2, <2>3, <2>6, <2>7
<1>12. QED
  BY <1>3, <1>4, <1>5, <1>7, <1>10, <1>11 DEF IInv, HistoryStep

\* A request ends without a change of the tables.
LEMMA GiveUpKeeps ==
  ASSUME IInv, NEW r \in Request, End(r), UNCHANGED tables
  PROVE  IInv'
BY EndKeeps, NothingWritten

LEMMA BeginKeeps ==
  ASSUME IInv, NEW r \in Request, request[r] = Idle,
         NEW q \in AskType, AskInv(q), q.begun = now,
         request' = [request EXCEPT ![r] = q], UNCHANGED <<now, tables, held, snapshot>>
  PROVE  IInv'
<1>1. /\ request' \in [Request -> {Idle} \cup AskType] /\ request'[r] = q
      /\ \A p \in Request \ {r} : request'[p] = request[p]
  BY DEF IInv, RequestInv
<1>2. held[r] = {} /\ snapshot[r] = Nothing /\ q # Idle /\ now \in 0 .. now
  <2>1. held[r] = {} /\ snapshot[r] = Nothing /\ now \in 0 .. now
    BY DEF IInv, TypeOK
  <2>2. q.kind # "none"
    BY DEF AskType, Kinds, Versioned, Creating
  <2>3. QED
    BY <2>1, <2>2 DEF Idle
<1>3. TypeOK'
  BY <1>1, <1>2 DEF IInv, TypeOK, tables
<1>4. RequestInv'
  BY <1>1 DEF IInv, RequestInv, AskInv, Known, tables
<1>5. LockInv' /\ AbsentInv' /\ NoOverlap' /\ PriceTimeline' /\ InactiveHoldsNone'
  BY DEF IInv, LockInv, AbsentInv, NoOverlap, PriceTimeline, InactiveHoldsNone, OpenRows, OpenOf, tables
<1>6. FoundInv'
  BY <1>1, <1>2 DEF IInv, FoundInv, tables
<1>7. BatchInv'
  BY <1>1, <1>2 DEF IInv, BatchInv, Locked, ActiveOperations, Nothing, tables
<1>8. SnapshotHolds'
  BY <1>1, <1>2 DEF IInv, SnapshotHolds, Locked, ActiveOperations, Answers, Covers, Nothing, tables
<1>9. QED
  BY <1>3, <1>4, <1>5, <1>6, <1>7, <1>8 DEF IInv

\* The record a request begins with.
LEMMA Asked ==
  ASSUME IInv, NEW kind \in Kinds, NEW of \in Subject \cup Owner,
         NEW to \in Holder \cup Status \cup {Unsaid}, NEW at \in Time, NEW expects \in 0 .. MaxVersion
  PROVE  [kind |-> kind, of |-> of, to |-> to, at |-> at, expects |-> expects, begun |-> now] \in AskType
BY HistoryAssumption DEF IInv, TypeOK, AskType, Time

\* What is begun is of the type its operation needs.
BeginsWell(kind, of, to, expects) ==
  /\ kind \in Kinds
  /\ kind \in {"assign", "reassign"} => of \in Badge /\ to \in Known
  /\ kind = "release" => of \in Badge /\ to = Unsaid
  /\ kind = "update_worker" => of \in Worker
  /\ kind = "update_model" => of = Model
  /\ kind \in {"update_operation", "change_price"} \cup Creating => of \in Operation
  /\ kind \in {"change_price"} \cup Creating => to \in Price
  /\ kind \in {"update_worker", "update_model"} => to \in Status \ {"ABSENT"}
  /\ kind = "update_operation" => to \in (Status \ {"ABSENT"}) \cup {Unsaid}
  /\ kind = "batch" => of = Model /\ to = Unsaid
  /\ IF kind \in Versioned THEN expects \in Seen(of) ELSE expects = 0

LEMMA BeginWellKeeps ==
  ASSUME IInv, NEW r \in Request, NEW kind, NEW of, NEW to, NEW at \in Time, NEW expects,
         BeginsWell(kind, of, to, expects), Begin(r, kind, of, to, at, expects)
  PROVE  IInv'
<1> DEFINE q == [kind |-> kind, of |-> of, to |-> to, at |-> at, expects |-> expects, begun |-> now]
<1>1. of \in Subject \cup Owner
  <2>1. CASE kind \in Versioned \cup Creating
    BY <2>1 DEF BeginsWell, Versioned, Creating, Owner
  <2>2. CASE kind \in {"assign", "reassign", "release", "batch"}
    BY <2>2 DEF BeginsWell, Subject, Owner
  <2>3. QED
    BY <2>1, <2>2 DEF BeginsWell, Kinds
<1>2. to \in Holder \cup Status \cup {Unsaid}
  <2>1. CASE kind \in Versioned \cup Creating
    BY <2>1 DEF BeginsWell, Versioned, Creating, Holder
  <2>2. CASE kind \in {"assign", "reassign", "release", "batch"}
    BY <2>2 DEF BeginsWell, Holder, Known
  <2>3. QED
    BY <2>1, <2>2 DEF BeginsWell, Kinds
<1>3. expects \in 0 .. MaxVersion /\ (kind \in Versioned => expects < MaxVersion /\ status[of] # "ABSENT")
  <2>1. CASE kind \in Versioned
    <3>1. expects = version[of] /\ expects < MaxVersion /\ status[of] # "ABSENT" /\ of \in Owner
      BY <2>1 DEF BeginsWell, Seen, Versioned, Owner
    <3>2. QED
      BY <3>1, HistoryAssumption DEF IInv, TypeOK
  <2>2. CASE kind \notin Versioned
    BY <2>2, HistoryAssumption DEF BeginsWell
  <2>3. QED
    BY <2>1, <2>2
<1>4. q \in AskType
  BY <1>1, <1>2, <1>3, Asked DEF BeginsWell
<1>5. AskInv(q)
  BY <1>3 DEF BeginsWell, AskInv
<1>6. QED
  BY <1>4, <1>5, BeginKeeps DEF Begin

LEMMA EveryBeginKeeps ==
  ASSUME IInv, NEW r \in Request,
         \/ BeginAssign(r) \/ BeginReassign(r) \/ BeginRelease(r) \/ BeginUpdateWorker(r)
         \/ BeginUpdateModel(r) \/ BeginCreateOperation(r) \/ BeginCreateCustom(r)
         \/ BeginUpdateOperation(r) \/ BeginChangePrice(r) \/ BeginBatch(r)
  PROVE  IInv'
<1>1. now \in Time
  BY HistoryAssumption DEF IInv, TypeOK, Time
<1>2. CASE BeginAssign(r)
  <2>1. PICK b \in Badge, w \in Known, at \in Time : Begin(r, "assign", b, w, at, 0)
    BY <1>2 DEF BeginAssign
  <2>2. BeginsWell("assign", b, w, 0)
    BY DEF BeginsWell, Kinds, Versioned, Creating
  <2>3. QED
    BY <2>1, <2>2, BeginWellKeeps
<1>3. CASE BeginReassign(r)
  <2>1. PICK b \in Badge, w \in Known, at \in Time : Begin(r, "reassign", b, w, at, 0)
    BY <1>3 DEF BeginReassign
  <2>2. BeginsWell("reassign", b, w, 0)
    BY DEF BeginsWell, Kinds, Versioned, Creating
  <2>3. QED
    BY <2>1, <2>2, BeginWellKeeps
<1>4. CASE BeginRelease(r)
  <2>1. PICK b \in Badge, at \in Time : Begin(r, "release", b, Unsaid, at, 0)
    BY <1>4 DEF BeginRelease
  <2>2. BeginsWell("release", b, Unsaid, 0)
    BY DEF BeginsWell, Kinds, Versioned, Creating
  <2>3. QED
    BY <2>1, <2>2, BeginWellKeeps
<1>5. CASE BeginUpdateWorker(r)
  <2>1. PICK w \in Worker, s \in Status \ {"ABSENT"} : \E seen \in Seen(w) :
          Begin(r, "update_worker", w, s, now, seen)
    BY <1>5 DEF BeginUpdateWorker
  <2>2. PICK seen \in Seen(w) : Begin(r, "update_worker", w, s, now, seen)
    BY <2>1
  <2>3. BeginsWell("update_worker", w, s, seen)
    BY DEF BeginsWell, Kinds, Versioned, Creating
  <2>4. QED
    BY <1>1, <2>2, <2>3, BeginWellKeeps
<1>6. CASE BeginUpdateModel(r)
  <2>1. PICK s \in Status \ {"ABSENT"} : \E seen \in Seen(Model) :
          Begin(r, "update_model", Model, s, now, seen)
    BY <1>6 DEF BeginUpdateModel
  <2>2. PICK seen \in Seen(Model) : Begin(r, "update_model", Model, s, now, seen)
    BY <2>1
  <2>3. BeginsWell("update_model", Model, s, seen)
    BY DEF BeginsWell, Kinds, Versioned, Creating
  <2>4. QED
    BY <1>1, <2>2, <2>3, BeginWellKeeps
<1>7. CASE BeginCreateOperation(r)
  <2>1. PICK o \in Operation, price \in Price : Begin(r, "create_operation", o, price, now, 0)
    BY <1>7 DEF BeginCreateOperation
  <2>2. BeginsWell("create_operation", o, price, 0)
    BY DEF BeginsWell, Kinds, Versioned, Creating
  <2>3. QED
    BY <1>1, <2>1, <2>2, BeginWellKeeps
<1>8. CASE BeginCreateCustom(r)
  <2>1. PICK o \in Operation, price \in Price, from \in Time : Begin(r, "create_custom", o, price, from, 0)
    BY <1>8 DEF BeginCreateCustom
  <2>2. BeginsWell("create_custom", o, price, 0)
    BY DEF BeginsWell, Kinds, Versioned, Creating
  <2>3. QED
    BY <2>1, <2>2, BeginWellKeeps
<1>9. CASE BeginUpdateOperation(r)
  <2>1. PICK o \in Operation, s \in (Status \ {"ABSENT"}) \cup {Unsaid} : \E seen \in Seen(o) :
          Begin(r, "update_operation", o, s, now, seen)
    BY <1>9 DEF BeginUpdateOperation
  <2>2. PICK seen \in Seen(o) : Begin(r, "update_operation", o, s, now, seen)
    BY <2>1
  <2>3. BeginsWell("update_operation", o, s, seen)
    BY DEF BeginsWell, Kinds, Versioned, Creating
  <2>4. QED
    BY <1>1, <2>2, <2>3, BeginWellKeeps
<1>10. CASE BeginChangePrice(r)
  <2>1. PICK o \in Operation, price \in Price, at \in Time : \E seen \in Seen(o) :
          Begin(r, "change_price", o, price, at, seen)
    BY <1>10 DEF BeginChangePrice
  <2>2. PICK seen \in Seen(o) : Begin(r, "change_price", o, price, at, seen)
    BY <2>1
  <2>3. BeginsWell("change_price", o, price, seen)
    BY DEF BeginsWell, Kinds, Versioned, Creating
  <2>4. QED
    BY <2>2, <2>3, BeginWellKeeps
<1>11. CASE BeginBatch(r)
  <2>1. BeginsWell("batch", Model, Unsaid, 0)
    BY DEF BeginsWell, Kinds, Versioned, Creating
  <2>2. QED
    BY <1>1, <1>11, <2>1, BeginWellKeeps DEF BeginBatch
<1>12. QED
  BY <1>2, <1>3, <1>4, <1>5, <1>6, <1>7, <1>8, <1>9, <1>10, <1>11

\* The locks of one statement, or of two that run in this order.
LEMMA WantedOfOne ==
  ASSUME NEW r \in Request, NEW S, Statements(request[r]) = <<S>>
  PROVE  Wanted(r) = S \ held[r]
<1>1. Head(<<S>>) = S /\ Len(<<S>>) = 1 /\ <<S>>[1] = S
  OBVIOUS
<1>2. QED
  BY <1>1, Zenon DEF Wanted

LEMMA WantedOfTwo ==
  ASSUME NEW r \in Request, NEW S, NEW T, Statements(request[r]) = <<S, T>>
  PROVE  Wanted(r) = IF S \ held[r] # {} THEN S \ held[r] ELSE T \ held[r]
<1>1. Head(<<S, T>>) = S /\ Len(<<S, T>>) = 2 /\ <<S, T>>[2] = T
  OBVIOUS
<1>2. QED
  BY <1>1, Zenon DEF Wanted

\* What a request asks the database to lock next.
LEMMA WantedLock ==
  ASSUME IInv, NEW r \in Request, request[r] # Idle, NEW lock \in Wanted(r)
  PROVE  /\ lock \in LockType /\ lock \notin held[r]
         /\ lock.shared => request[r].kind = "batch"
         /\ request[r].kind = "batch" =>
              \/ lock = Shared(Model)
              \/ Shared(Model) \in held[r] /\ \E o \in ActiveOperations : lock = Shared(o)
<1> DEFINE q == request[r]
<1>1. q \in AskType /\ AskInv(q)
  BY DEF IInv, RequestInv
<1>2. Exclusive(q.of) \in LockType /\ Shared(Model) \in LockType /\ Exclusive(Model) \in LockType
  BY <1>1 DEF AskType, LockType, Exclusive, Shared, Owner
<1>3. \A x : Exclusive(x).shared = FALSE
  BY DEF Exclusive
<1>4. CASE q.kind \in {"assign", "reassign"}
  <2>1. Statements(q) = <<{Exclusive(q.of)}, {Exclusive(q.to)}>>
    BY <1>4 DEF Statements
  <2>2. Exclusive(q.to) \in LockType
    BY <1>1, <1>4 DEF AskInv, Known, LockType, Exclusive, Owner
  <2>3. lock \notin held[r] /\ (lock = Exclusive(q.of) \/ lock = Exclusive(q.to))
    BY <2>1, WantedOfTwo
  <2>4. QED
    BY <1>2, <1>3, <1>4, <2>2, <2>3
<1>5. CASE q.kind \in {"release", "update_worker", "change_price", "update_model"}
  <2>1. Statements(q) = <<{Exclusive(q.of)}>>
    BY <1>5 DEF Statements
  <2>2. lock \notin held[r] /\ lock = Exclusive(q.of)
    BY <2>1, WantedOfOne
  <2>3. QED
    BY <1>2, <1>3, <1>5, <2>2
<1>6. CASE q.kind = "create_operation"
  <2>1. Statements(q) = <<{Exclusive(Model)}>>
    BY <1>6 DEF Statements
  <2>2. lock \notin held[r] /\ lock = Exclusive(Model)
    BY <2>1, WantedOfOne
  <2>3. QED
    BY <1>2, <1>3, <1>6, <2>2
<1>7. CASE q.kind \in {"update_operation", "create_custom"}
  <2>1. Statements(q) = <<{Exclusive(Model)}, {Exclusive(q.of)}>>
    BY <1>7 DEF Statements
  <2>2. lock \notin held[r] /\ (lock = Exclusive(Model) \/ lock = Exclusive(q.of))
    BY <2>1, WantedOfTwo
  <2>3. QED
    BY <1>2, <1>3, <1>7, <2>2
<1>8. CASE q.kind = "batch"
  <2>1. Statements(q) = <<{Shared(Model)}, {Shared(o) : o \in ActiveOperations}>>
    BY <1>8 DEF Statements
  <2>2. \A o \in ActiveOperations : Shared(o) \in LockType
    BY DEF ActiveOperations, LockType, Shared, Owner
  <2>3. /\ lock \notin held[r]
        /\ \/ lock = Shared(Model)
           \/ Shared(Model) \in held[r] /\ \E o \in ActiveOperations : lock = Shared(o)
    BY <2>1, WantedOfTwo
  <2>4. QED
    BY <1>2, <1>8, <2>2, <2>3
<1>9. QED
  BY <1>1, <1>4, <1>5, <1>6, <1>7, <1>8 DEF AskType, Kinds, Versioned, Creating

LEMMA AcquireKeeps ==
  ASSUME IInv, NEW r \in Request, Acquire(r)
  PROVE  IInv'
<1>1. PICK lock \in Wanted(r) :
        /\ \A q \in Request \ {r} : \A other \in held[q] : ~Conflicts(lock, other)
        /\ IF Unfit(request[r], lock.on)
           THEN End(r)
           ELSE /\ held' = [held EXCEPT ![r] = @ \cup {lock}]
                /\ UNCHANGED <<now, request, snapshot>>
  BY DEF Acquire
<1>2. request[r] # Idle /\ UNCHANGED tables
  BY DEF Acquire
<1>3. CASE Unfit(request[r], lock.on)
  BY <1>1, <1>2, <1>3, GiveUpKeeps
<1>4. CASE ~Unfit(request[r], lock.on)
  <2>1. /\ UNCHANGED <<now, request, snapshot, tables>>
        /\ held' \in [Request -> SUBSET LockType]
        /\ held'[r] = held[r] \cup {lock}
        /\ \A q \in Request \ {r} : held'[q] = held[q]
    BY <1>1, <1>2, <1>4, WantedLock DEF IInv, RequestInv
  <2>2. TypeOK'
    BY <1>2, <2>1 DEF IInv, TypeOK, tables
  <2>3. RequestInv'
    BY <2>1 DEF IInv, RequestInv, AskInv, Known, tables
  <2>4. LockInv'
    BY <1>1, <2>1 DEF IInv, LockInv, Conflicts
  <2>5. AbsentInv' /\ NoOverlap' /\ PriceTimeline' /\ InactiveHoldsNone'
    BY <2>1 DEF IInv, AbsentInv, NoOverlap, PriceTimeline, InactiveHoldsNone, OpenRows, OpenOf, tables
  <2>6. FoundInv'
    <3>1. ASSUME request[r].kind \in {"assign", "reassign"}, lock = Exclusive(request[r].to)
          PROVE  status[request[r].to] = "ACTIVE"
      BY <1>4, <3>1 DEF Unfit, Exclusive
    <3>2. ASSUME request[r].kind \in Versioned, lock = Exclusive(request[r].of)
          PROVE  version[request[r].of] = request[r].expects
      BY <1>4, <3>2 DEF Unfit, Exclusive, Versioned
    <3>3. QED
      BY <2>1, <3>1, <3>2 DEF IInv, FoundInv, tables
  <2>7. ActiveOperations' = ActiveOperations /\ \A q \in Request \ {r} : Locked(q)' = Locked(q)
    BY <2>1 DEF ActiveOperations, Locked, tables, Shared
  <2>8. /\ request[r].kind = "batch" =>
             /\ Locked(r) \subseteq Locked(r)'
             /\ Locked(r)' # {} => Shared(Model) \in held'[r]
             /\ Locked(r)' \subseteq ActiveOperations
        /\ snapshot[r] # Nothing => Locked(r)' = Locked(r)
    <3>1. CASE request[r].kind = "batch"
      <4>1. /\ Locked(r) # {} => Shared(Model) \in held[r]
            /\ Locked(r) \subseteq ActiveOperations
        BY <3>1 DEF IInv, BatchInv
      <4>2. CASE lock = Shared(Model)
        <5>1. \A o \in Operation : Shared(o) # Shared(Model)
          BY HistoryAssumption DEF Shared
        <5>2. Locked(r)' = Locked(r)
          BY <2>1, <4>2, <5>1 DEF Locked, Shared
        <5>3. QED
          BY <2>1, <4>1, <4>2, <5>2
      <4>3. CASE Shared(Model) \in held[r] /\ \E o \in ActiveOperations : lock = Shared(o)
        <5>1. PICK o \in ActiveOperations : lock = Shared(o)
          BY <4>3
        <5>2. o \in Operation /\ lock \notin held[r]
          BY <1>2, WantedLock DEF ActiveOperations
        <5>3. Locked(r)' = Locked(r) \cup {o}
          BY <2>1, <5>1, <5>2 DEF Locked, Shared
        <5>4. o \notin Locked(r)
          BY <5>1, <5>2 DEF Locked
        <5>5. snapshot[r] = Nothing
          BY <5>4 DEF IInv, SnapshotHolds
        <5>6. QED
          BY <2>1, <4>1, <4>3, <5>3, <5>5
      <4>4. QED
        BY <1>2, <3>1, <4>2, <4>3, WantedLock
    <3>2. CASE request[r].kind # "batch"
      BY <3>2 DEF IInv, BatchInv
    <3>3. QED
      BY <3>1, <3>2
  <2>9. BatchInv'
    <3> SUFFICES ASSUME NEW q \in Request
                 PROVE  /\ snapshot'[q] # Nothing => request'[q].kind = "batch"
                        /\ request'[q].kind = "batch" =>
                             /\ Locked(q)' # {} => Shared(Model) \in held'[q]
                             /\ Locked(q)' \subseteq ActiveOperations'
                             /\ \A entry \in snapshot'[q] : entry[1] \in Locked(q)'
      BY DEF BatchInv, Nothing, Shared
    <3>1. CASE q = r
      BY <2>1, <2>7, <2>8, <3>1 DEF IInv, BatchInv
    <3>2. CASE q # r
      BY <2>1, <2>7, <3>2 DEF IInv, BatchInv
    <3>3. QED
      BY <3>1, <3>2
  <2>10. SnapshotHolds'
    <3> SUFFICES ASSUME NEW q \in Request, snapshot[q] # Nothing
                 PROVE  /\ Locked(q)' = ActiveOperations'
                        /\ \A entry \in snapshot[q] : Answers(entry[1], request[q].begun)' = {entry[2]}
      BY <2>1 DEF SnapshotHolds, Nothing
    <3>1. Locked(q)' = Locked(q)
      BY <2>7, <2>8
    <3>2. \A entry \in snapshot[q] : Answers(entry[1], request[q].begun)' = Answers(entry[1], request[q].begun)
      BY <2>1 DEF Answers, Covers, tables
    <3>3. QED
      BY <2>7, <3>1, <3>2 DEF IInv, SnapshotHolds
  <2>11. QED
    BY <2>2, <2>3, <2>4, <2>5, <2>6, <2>9, <2>10 DEF IInv
<1>5. QED
  BY <1>3, <1>4

LEMMA TickKeeps == IInv /\ Tick => IInv'
<1> SUFFICES ASSUME IInv, Tick PROVE IInv'
  OBVIOUS
<1>1. now' \in 0 .. MaxNow /\ now' = now + 1 /\ UNCHANGED <<tables, request, held, snapshot>>
  BY HistoryAssumption DEF Tick, IInv, TypeOK
<1>2. TypeOK'
  BY <1>1, HistoryAssumption DEF IInv, TypeOK, tables
<1>3. RequestInv'
  BY <1>1 DEF IInv, RequestInv, AskInv, Known, tables
<1>4. LockInv' /\ AbsentInv' /\ NoOverlap' /\ PriceTimeline' /\ InactiveHoldsNone' /\ FoundInv'
  BY <1>1 DEF IInv, LockInv, AbsentInv, NoOverlap, PriceTimeline, InactiveHoldsNone, FoundInv,
              OpenRows, OpenOf, tables
<1>5. BatchInv'
  BY <1>1 DEF IInv, BatchInv, Locked, ActiveOperations, tables
<1>6. SnapshotHolds'
  BY <1>1 DEF IInv, SnapshotHolds, Locked, ActiveOperations, Answers, Covers, tables
<1>7. QED
  BY <1>2, <1>3, <1>4, <1>5, <1>6 DEF IInv

\* A worker that is created holds no badge yet, and no request names it.
LEMMA CreateWorkerKeeps ==
  ASSUME IInv, NEW w \in Worker, CreateWorker(w)
  PROVE  IInv'
<1>1. PICK s \in Status \ {"ABSENT"} : status' = [status EXCEPT ![w] = s]
  BY DEF CreateWorker
<1>2. /\ status[w] = "ABSENT" /\ UNCHANGED <<now, version, history, request, held, snapshot>>
      /\ w \in Owner /\ w \notin Operation /\ w # Model
  BY HistoryAssumption DEF CreateWorker, Owner
<1>3. /\ status' \in [Owner -> Status] /\ status'[w] = s
      /\ \A x \in Owner : x # w => status'[x] = status[x]
  BY <1>1, <1>2 DEF IInv, TypeOK
<1>4. TypeOK'
  BY <1>2, <1>3 DEF IInv, TypeOK
<1>5. Known \subseteq Known' /\ ActiveOperations' = ActiveOperations
  BY <1>2, <1>3 DEF Known, ActiveOperations, Owner
<1>6. RequestInv'
  <2> SUFFICES ASSUME NEW q \in Request PROVE AskInv(request[q])'
    BY <1>2 DEF IInv, RequestInv
  <2>1. AskInv(request[q])
    BY DEF IInv, RequestInv
  <2>2. QED
    BY <1>2, <1>3, <1>5, <2>1 DEF AskInv, Versioned, Owner
<1>7. LockInv' /\ NoOverlap'
  BY <1>2 DEF IInv, LockInv, NoOverlap
<1>8. AbsentInv' /\ PriceTimeline'
  <2>1. RowsTyped(history')
    BY <1>2 DEF IInv, TypeOK, RowsTyped
  <2>2. \A o \in Operation : Of(o)' = Of(o) /\ status'[o] = status[o]
    BY <1>2, <1>3 DEF Of, Owner
  <2>3. QED
    BY <2>1, <2>2, OperationsKept DEF IInv
<1>9. InactiveHoldsNone'
  BY <1>2, <1>3 DEF IInv, InactiveHoldsNone, OpenOf, Owner
<1>10. FoundInv'
  <2> SUFFICES ASSUME NEW q \in Request, request[q].kind \in {"assign", "reassign"},
                      Exclusive(request[q].to) \in held[q]
               PROVE  status'[request[q].to] = "ACTIVE"
    BY <1>2 DEF IInv, FoundInv
  <2>1. status[request[q].to] = "ACTIVE" /\ request[q].to \in Owner
    BY DEF IInv, FoundInv, RequestInv, AskInv, Known, Owner
  <2>2. QED
    BY <1>2, <1>3, <2>1
<1>11. BatchInv'
  BY <1>2, <1>5 DEF IInv, BatchInv, Locked
<1>12. SnapshotHolds'
  BY <1>2, <1>5 DEF IInv, SnapshotHolds, Locked, Answers, Covers
<1>13. QED
  BY <1>4, <1>6, <1>7, <1>8, <1>9, <1>10, <1>11, <1>12 DEF IInv

-----------------------------------------------------------------------------
(* What a batch reads.                                                     *)

\* Rows that do not overlap give one answer.
LEMMA OneAnswer ==
  ASSUME TypeOK, NoOverlap, NEW s, NEW t \in Int, NEW x \in Answers(s, t)
  PROVE  Answers(s, t) = {x}
<1> SUFFICES ASSUME NEW y \in Answers(s, t) PROVE y = x
  OBVIOUS
<1>1. PICK a \in history : a.of = s /\ Covers(a, t) /\ a.is = x
  BY DEF Answers
<1>2. PICK b \in history : b.of = s /\ Covers(b, t) /\ b.is = y
  BY DEF Answers
<1>3. a \in RowType /\ b \in RowType
  BY DEF TypeOK
<1>4. Overlap(a, b)
  BY <1>1, <1>2, <1>3 DEF Covers, Overlap, RowType, Time, Open
<1>5. QED
  BY <1>1, <1>2, <1>4 DEF NoOverlap

\* A batch that reads prices is a batch, and has locked every active operation.
LEMMA BatchHasLocked ==
  ASSUME IInv, NEW r \in Request, Ready(r, "batch") \/ snapshot[r] # Nothing
  PROVE  request[r].kind = "batch" /\ request[r] \in AskType /\ Locked(r) = ActiveOperations
<1>1. request[r].kind = "batch"
  BY DEF IInv, BatchInv, Ready
<1>2. request[r] \in AskType
  BY <1>1 DEF IInv, RequestInv, Idle
<1>3. Locked(r) = ActiveOperations
  <2>1. CASE Ready(r, "batch")
    BY <1>1, <2>1, ReadyHoldsOperations DEF IInv, BatchInv
  <2>2. CASE snapshot[r] # Nothing
    BY <2>2 DEF IInv, SnapshotHolds
  <2>3. QED
    BY <2>1, <2>2
<1>4. QED
  BY <1>1, <1>2, <1>3

LEMMA ReadPriceKeeps ==
  ASSUME IInv, NEW r \in Request, ReadPrice(r)
  PROVE  IInv'
<1>1. /\ request[r].kind = "batch" /\ request[r] \in AskType /\ Locked(r) = ActiveOperations
      /\ UNCHANGED tables
  BY BatchHasLocked DEF ReadPrice
<1>2. PICK t : t = request[r].begun
  OBVIOUS
<1>3. t \in Int
  BY <1>1, <1>2 DEF AskType, Time
<1>4. PICK o \in Unread(r) :
        IF Answers(o, request[r].begun) = {}
        THEN End(r)
        ELSE /\ \E price \in Answers(o, request[r].begun) :
                  snapshot' = [snapshot EXCEPT ![r] = @ \cup {<<o, price>>}]
             /\ UNCHANGED <<now, request, held>>
  BY DEF ReadPrice
<1>5. CASE End(r)
  BY <1>1, <1>5, GiveUpKeeps
<1>6. CASE ~End(r)
  <2>1. PICK price \in Answers(o, t) :
          /\ snapshot' = [snapshot EXCEPT ![r] = @ \cup {<<o, price>>}]
          /\ UNCHANGED <<now, request, held>>
    BY <1>2, <1>4, <1>6
  <2>2. o \in Operation /\ o \in Locked(r)
    BY DEF Unread, Locked
  <2>3. price \in Price
    <3>1. PICK row \in history : row.of = o /\ row.is = price
      BY <2>1 DEF Answers
    <3>2. QED
      BY <2>2, <3>1, Apart DEF IInv, Holder
  <2>4. Answers(o, t) = {price}
    BY <1>3, <2>1, OneAnswer DEF IInv
  <2>5. /\ snapshot' \in [Request -> SUBSET (Operation \X Price)]
        /\ snapshot'[r] = snapshot[r] \cup {<<o, price>>}
        /\ \A q \in Request \ {r} : snapshot'[q] = snapshot[q]
    BY <2>1, <2>2, <2>3 DEF IInv, RequestInv
  <2>6. TypeOK'
    <3>1. request[r] # Idle
      BY <1>1 DEF Idle
    <3>2. QED
      BY <1>1, <2>1, <2>5, <3>1 DEF IInv, TypeOK, tables
  <2>7. RequestInv'
    BY <1>1, <2>1, <2>5 DEF IInv, RequestInv, AskInv, Known, tables
  <2>8. LockInv' /\ FoundInv' /\ AbsentInv' /\ NoOverlap' /\ PriceTimeline' /\ InactiveHoldsNone'
    BY <1>1, <2>1 DEF IInv, LockInv, FoundInv, AbsentInv, NoOverlap, PriceTimeline, InactiveHoldsNone,
                      OpenRows, OpenOf, tables
  <2>9. ActiveOperations' = ActiveOperations /\ \A q \in Request : Locked(q)' = Locked(q)
    BY <1>1, <2>1 DEF ActiveOperations, Locked, tables
  <2>10. BatchInv'
    <3> SUFFICES ASSUME NEW q \in Request
                 PROVE  /\ snapshot'[q] # Nothing => request'[q].kind = "batch"
                        /\ request'[q].kind = "batch" =>
                             /\ Locked(q)' # {} => Shared(Model) \in held'[q]
                             /\ Locked(q)' \subseteq ActiveOperations'
                             /\ \A entry \in snapshot'[q] : entry[1] \in Locked(q)'
      BY DEF BatchInv, Nothing, Shared
    <3>1. CASE q = r
      BY <1>1, <2>1, <2>2, <2>5, <2>9, <3>1 DEF IInv, BatchInv
    <3>2. CASE q # r
      BY <2>1, <2>5, <2>9, <3>2 DEF IInv, BatchInv
    <3>3. QED
      BY <3>1, <3>2
  <2>11. SnapshotHolds'
    <3> SUFFICES ASSUME NEW q \in Request, snapshot'[q] # Nothing
                 PROVE  /\ Locked(q) = ActiveOperations
                        /\ \A entry \in snapshot'[q] : Answers(entry[1], request[q].begun) = {entry[2]}
      BY <1>1, <2>1, <2>9 DEF SnapshotHolds, Nothing, Answers, Covers, tables
    <3>1. CASE q = r
      <4>1. ASSUME NEW entry \in snapshot[r]
            PROVE  Answers(entry[1], request[r].begun) = {entry[2]}
        BY <4>1 DEF IInv, SnapshotHolds, Nothing
      <4>2. QED
        BY <1>1, <1>2, <2>4, <2>5, <3>1, <4>1
    <3>2. CASE q # r
      BY <2>5, <3>2 DEF IInv, SnapshotHolds
    <3>3. QED
      BY <3>1, <3>2
  <2>12. QED
    BY <2>6, <2>7, <2>8, <2>10, <2>11 DEF IInv
<1>7. QED
  BY <1>5, <1>6

-----------------------------------------------------------------------------
(* The steps that end a request.                                           *)

Concludes(r) ==
  \/ Assign(r) \/ Reassign(r) \/ Release(r) \/ UpdateWorker(r) \/ UpdateModel(r)
  \/ CreateOperation(r) \/ CreateCustom(r) \/ UpdateOperation(r) \/ ChangePrice(r)

LEMMA ConcludesStep ==
  ASSUME IInv, NEW r \in Request, Concludes(r)
  PROVE  End(r) /\ TablesStep(r) /\ HistoryStep(r) /\ request[r] # Idle
<1>1. request[r] # Idle
  <2>1. ASSUME NEW kind, kind # "none", Ready(r, kind) PROVE request[r] # Idle
    BY <2>1 DEF Ready, Idle
  <2>2. CASE Assign(r) \/ Reassign(r) \/ Release(r)
    BY <2>1, <2>2 DEF Assign, Reassign, Release
  <2>3. CASE UpdateWorker(r) \/ UpdateModel(r)
    BY <2>1, <2>3 DEF UpdateWorker, UpdateModel
  <2>4. CASE CreateOperation(r) \/ CreateCustom(r)
    BY <2>1, <2>4 DEF CreateOperation, CreateCustom
  <2>5. CASE UpdateOperation(r) \/ ChangePrice(r)
    BY <2>1, <2>5 DEF UpdateOperation, ChangePrice
  <2>6. QED
    BY <2>2, <2>3, <2>4, <2>5 DEF Concludes
<1>2. QED
  BY <1>1, AssignStep, ReassignStep, ReleaseStep, UpdateWorkerStep, UpdateModelStep,
     CreateStep, UpdateOperationStep, ChangePriceStep DEF Concludes

LEMMA InitInvariant == Init => IInv
<1> SUFFICES ASSUME Init PROVE IInv
  OBVIOUS
<1>1. TypeOK
  BY HistoryAssumption DEF Init, TypeOK, Status
<1>2. AskInv(Idle)
  BY DEF AskInv, Idle, Versioned, Creating
<1>3. RequestInv
  BY <1>2 DEF Init, RequestInv, Nothing
<1>4. FoundInv
  BY DEF Init, FoundInv
<1>5. BatchInv /\ SnapshotHolds
  BY DEF Init, BatchInv, SnapshotHolds, Idle
<1>6. PriceTimeline
  BY HistoryAssumption DEF Init, PriceTimeline, Owner
<1>7. LockInv /\ AbsentInv /\ NoOverlap /\ InactiveHoldsNone
  BY DEF Init, LockInv, AbsentInv, NoOverlap, InactiveHoldsNone, OpenOf
<1>8. QED
  BY <1>1, <1>3, <1>4, <1>5, <1>6, <1>7 DEF IInv

LEMMA NextKeeps == IInv /\ [Next]_vars => IInv'
<1> SUFFICES ASSUME IInv, [Next]_vars PROVE IInv'
  OBVIOUS
<1>1. CASE Tick
  BY <1>1, TickKeeps
<1>2. ASSUME NEW w \in Worker, CreateWorker(w) PROVE IInv'
  BY <1>2, CreateWorkerKeeps
<1>3. ASSUME NEW r \in Request,
             \/ BeginAssign(r) \/ BeginReassign(r) \/ BeginRelease(r) \/ BeginUpdateWorker(r)
             \/ BeginUpdateModel(r) \/ BeginCreateOperation(r) \/ BeginCreateCustom(r)
             \/ BeginUpdateOperation(r) \/ BeginChangePrice(r) \/ BeginBatch(r)
      PROVE  IInv'
  BY <1>3, EveryBeginKeeps
<1>4. ASSUME NEW r \in Request, Acquire(r) PROVE IInv'
  BY <1>4, AcquireKeeps
<1>5. ASSUME NEW r \in Request, RollBack(r) PROVE IInv'
  BY <1>5, GiveUpKeeps DEF RollBack
<1>6. ASSUME NEW r \in Request, Concludes(r) PROVE IInv'
  BY <1>6, ConcludesStep, EndKeeps
<1>7. ASSUME NEW r \in Request, ReadPrice(r) PROVE IInv'
  BY <1>7, ReadPriceKeeps
<1>8. ASSUME NEW r \in Request, CommitBatch(r) PROVE IInv'
  BY <1>8, GiveUpKeeps DEF CommitBatch
<1>9. CASE UNCHANGED vars
  <2>1. TypeOK' /\ RequestInv'
    BY <1>9 DEF IInv, TypeOK, RequestInv, AskInv, Known, vars
  <2>2. LockInv' /\ FoundInv' /\ AbsentInv' /\ BatchInv'
    BY <1>9 DEF IInv, LockInv, FoundInv, AbsentInv, BatchInv, Locked, ActiveOperations, vars
  <2>3. NoOverlap' /\ PriceTimeline' /\ InactiveHoldsNone' /\ SnapshotHolds'
    BY <1>9 DEF IInv, NoOverlap, PriceTimeline, InactiveHoldsNone, SnapshotHolds, OpenRows, OpenOf,
                Locked, ActiveOperations, Answers, Covers, vars
  <2>4. QED
    BY <2>1, <2>2, <2>3 DEF IInv
<1>10. QED
  BY <1>1, <1>2, <1>3, <1>4, <1>5, <1>6, <1>7, <1>8, <1>9 DEF Next, Concludes

-----------------------------------------------------------------------------
(* The theorems.                                                           *)

\* The inductive invariant: the tables are well-formed, locks exclude each
\* other, what a request found under a lock stays while it holds the lock, and
\* the two histories are as their readers need them.
THEOREM HistoryInvariant == Spec => []IInv
BY InitInvariant, NextKeeps, PTL DEF Spec

\* Every row is a proper interval, a badge has workers and an operation has
\* prices, and a request that is over holds neither locks nor prices.
THEOREM HistoryTypeCorrect == Spec => []TypeOK
<1>1. IInv => TypeOK
  BY DEF IInv
<1>2. QED
  BY HistoryInvariant, <1>1, PTL

\* No instant is covered by two rows of one badge or one operation, whatever
\* transactions assigned, reassigned, released, scheduled or deactivated at once.
THEOREM RowsNeverOverlap == Spec => []NoOverlap
<1>1. IInv => NoOverlap
  BY DEF IInv
<1>2. QED
  BY HistoryInvariant, <1>1, PTL

\* An existing operation has one open price, and its prices leave no gap.
THEOREM PricesLeaveNoGap == Spec => []PriceTimeline
<1>1. IInv => PriceTimeline
  BY DEF IInv
<1>2. QED
  BY HistoryInvariant, <1>1, PTL

\* A worker who is not active holds no open badge: the lock on the worker is
\* the one that an assignment and a deactivation have in common.
THEOREM InactiveWorkerHoldsNoBadge == Spec => []InactiveHoldsNone
<1>1. IInv => InactiveHoldsNone
  BY DEF IInv
<1>2. QED
  BY HistoryInvariant, <1>1, PTL

\* The prices a batch has read are those of all active operations at the time it
\* began, and remain so until it commits: its shared locks keep out every writer.
THEOREM BatchPricesHold == Spec => []SnapshotHolds
<1>1. IInv => SnapshotHolds
  BY DEF IInv
<1>2. QED
  BY HistoryInvariant, <1>1, PTL

\* What was answered for an instant changes only by the commit of a request that
\* had begun by that instant; the first price of an operation is the exception.
THEOREM HistoryNotRewritten == Spec => NothingRewritten
<1> DEFINE A == history' # history =>
             \A s \in Subject, t \in Time :
               Answers(s, t)' # Answers(s, t) /\ (s \in Badge \/ Answers(s, t) # {}) =>
                 \E r \in Request : request[r] # Idle /\ request'[r] = Idle /\ request[r].begun <= t
<1>1. IInv /\ [Next]_vars => [A]_vars
  <2> SUFFICES ASSUME IInv, Next, history' # history PROVE A
    BY DEF vars
  <2>1. PICK r \in Request : Concludes(r)
    BY DEF Next, Concludes, Tick, CreateWorker, Begin, BeginAssign, BeginReassign, BeginRelease,
           BeginUpdateWorker, BeginUpdateModel, BeginCreateOperation, BeginCreateCustom,
           BeginUpdateOperation, BeginChangePrice, BeginBatch, Acquire, RollBack, ReadPrice,
           CommitBatch, tables
  <2>2. End(r) /\ NotRewritten(r) /\ request[r] # Idle
    BY <2>1, ConcludesStep DEF HistoryStep
  <2>3. request'[r] = Idle
    BY <2>2 DEF End, IInv, RequestInv
  <2>4. QED
    BY <2>2, <2>3 DEF NotRewritten
<1>2. QED
  BY HistoryInvariant, <1>1, PTL DEF Spec, NothingRewritten
=============================================================================
