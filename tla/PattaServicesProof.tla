------------------------- MODULE PattaServicesProof -------------------------
(***************************************************************************)
(* Further proofs about PattaDocuments: the order in which requests wait   *)
(* for each other, the distribution of a batch over its sizes, and what    *)
(* the services foresee of the triggers.                                   *)
(***************************************************************************)
EXTENDS PattaDocumentsProof

-----------------------------------------------------------------------------
(* Waiting.                                                                *)

LEMMA RowsDiffer ==
  /\ \A b, n : BatchRow(b) # PattaRow(n) /\ BatchRow(b) # SheetRow(n) /\ BatchRow(b) # SheetRows(n)
  /\ \A n, s : PattaRow(n) # SheetRow(s) /\ PattaRow(n) # SheetRows(s) /\ SheetRow(n) # SheetRows(s)
  /\ \A x : /\ PartiyaSequence \notin {BatchRow(x), PattaRow(x), SheetRow(x), SheetRows(x)}
            /\ PattaSequence \notin {BatchRow(x), PattaRow(x), SheetRow(x), SheetRows(x)}
  /\ PartiyaSequence # PattaSequence
  /\ \A x, y : /\ BatchRow(x) = BatchRow(y) => x = y
               /\ PattaRow(x) = PattaRow(y) => x = y
               /\ SheetRow(x) = SheetRow(y) => x = y
               /\ SheetRows(x) = SheetRows(y) => x = y
BY DEF BatchRow, PattaRow, SheetRow, SheetRows, PartiyaSequence, PattaSequence

\* What a request waits for, when it is no update.
LEMMA WaitFacts ==
  ASSUME IInv, QueueInv, NEW q \in Request, NEW p \in Request, WaitsFor(q, p), req[q].kind \notin Updates
  PROVE  /\ Wanting(q, req[q], Head(want[q])) /\ Head(want[q]) \in held[p] /\ p # q
         /\ Head(want[q]) \in Promised(q)
         /\ \A row \in held[q] : Holding(q, req[q], row) /\ row \notin held[p]
         /\ held[q] # {} => stage[q] \notin Opening
         /\ held[q] \cap LastRows = {}
<1>1. /\ want[q] # <<>> /\ want[q] \in Seq(Rows) /\ QueueOf(q, req[q]) /\ Head(want[q]) \in held[p] /\ p # q
      /\ held[p] \cap held[q] = {}
  BY IInvFacts DEF WaitsFor, QueueInv, LocksTyped
<1>2. Head(want[q]) = want[q][1] /\ 1 \in 1 .. Len(want[q])
  BY <1>1
<1>3. Head(want[q]) \in Promised(q)
  BY <1>2 DEF Promised
<1>4. QED
  BY <1>1, <1>2, <1>3 DEF QueueOf

\* A request that waits for a sheet another one has locked is not held up in a circle.
LEMMA NoCircleOverASheet ==
  ASSUME IInv, QueueInv, NEW q \in Request, NEW p \in Request, NEW t \in Request,
         WaitsFor(q, p), WaitsFor(p, t), req[q].kind \in Listing, req[p].kind \notin Updates,
         NEW s \in Sheet, Head(want[q]) = SheetRow(s)
  PROVE  Head(want[p]) \in LastRows
<1>1. req[q].kind \notin Updates
  BY DEF Listing, Updates, Corrections
<1>2. SheetRow(s) \in held[p] /\ ~NewTo(q, s) /\ p # q
  BY <1>1, WaitFacts DEF NewTo
<1>3. /\ Holding(p, req[p], SheetRow(s)) /\ Wanting(p, req[p], Head(want[p])) /\ stage[p] \notin Opening
      /\ ~NewTo(p, s)
  BY <1>2, WaitFacts DEF NewTo, Promised
<1>4. req[p].kind \notin Listing
  BY <1>2, <1>3 DEF QueueInv
<1>5. req[p].kind \in {"reuse", "trash", "restore", "purge"}
  BY <1>3, <1>4, RowsDiffer DEF Holding, Listing, Corrections
<1>6. Head(want[p]) = SheetRows(req[p].sheet) /\ req[p].sheet \in Sheet
  <2>1. AskInv(req[p])
    BY IInvFacts DEF Standing
  <2>2. req[p].sheet \in Sheet
    BY <1>5, <2>1 DEF AskInv, Entering
  <2>3. QED
    BY <1>3, <1>5, <2>2 DEF Wanting, Opening, Corrections
<1>7. QED
  BY <1>6 DEF LastRows

\* Two requests lock the Pattas of a batch under the lock of the batch, so one of
\* them waits for a Patta only if the other is about to create a sheet of it.
LEMMA NoCircleOverAPatta ==
  ASSUME IInv, QueueInv, NEW q \in Request, NEW p \in Request, NEW t \in Request,
         WaitsFor(q, p), WaitsFor(p, t), req[q].kind \in Corrections, stage[q] = "pattas", req[p].kind \notin Updates
  PROVE  req[p].kind = "create_linked" /\ \E s \in Sheet : Head(want[p]) = SheetRow(s)
<1> DEFINE row == Head(want[q])
<1>1. req[q].kind \notin Updates
  BY DEF Updates, Corrections
<1>2. row \in held[p] /\ p # q /\ held[p] # {} /\ Wanting(q, req[q], row) /\ held[q] \cap held[p] = {}
  BY <1>1, WaitFacts
<1>3. Holding(p, req[p], row) /\ Wanting(p, req[p], Head(want[p])) /\ stage[p] \notin Opening
  BY <1>2, WaitFacts
<1> HIDE DEF row
<1>4. row \in PattaRowsOf(req[q].batch)
  BY <1>2 DEF Wanting, Corrections, Opening
<1>5. PICK n \in Number : row = PattaRow(n) /\ Present(pattas[n]) /\ pattas[n].batch = req[q].batch
  BY <1>4 DEF PattaRowsOf
<1>6. Standing(q, req[q]) /\ Standing(p, req[p])
  BY IInvFacts
<1>7. req[q].batch \in Batch /\ BatchRow(req[q].batch) \in held[q]
  BY <1>6 DEF Standing, AskInv, LockOf, CorrectionLocks
<1>8. CASE req[p].kind \in Corrections
  <2>1. row \in PattaRowsOf(req[p].batch)
    BY <1>3, <1>5, <1>8, RowsDiffer DEF Holding, Corrections, AnySheet
  <2>2. req[p].batch = req[q].batch
    BY <1>5, <2>1, RowsDiffer DEF PattaRowsOf
  <2>3. BatchRow(req[p].batch) \in held[p]
    BY <1>3, <1>6, <1>8 DEF Standing, LockOf, CorrectionLocks, Opening
  <2>4. QED
    BY <1>2, <1>7, <2>2, <2>3
<1>9. CASE req[p].kind = "legacy"
  <2>1. req[p].patta = n
    BY <1>3, <1>5, <1>9, RowsDiffer DEF Holding, Corrections, AnySheet
  <2>2. n \in LegacyNumber
    BY <1>6, <1>9, <2>1 DEF Standing, AskInv
  <2>3. pattas[n].batch = "none"
    BY <2>2, IInvFacts DEF Sound, ReferenceInv
  <2>4. QED
    BY <1>5, <1>7, <2>3, DocumentsAssumption
<1>10. CASE req[p].kind = "create_linked"
  <2>1. Head(want[p]) \in AnySheet
    BY <1>3, <1>10 DEF Wanting, Opening, Corrections
  <2>2. QED
    BY <1>10, <2>1 DEF AnySheet
<1>11. QED
  BY <1>3, <1>5, <1>8, <1>9, <1>10, RowsDiffer DEF Holding, Corrections

\* A circle of waits has an update in it.
LEMMA NoCircle ==
  ASSUME IInv, QueueInv
  PROVE  CyclesNeedAnUpdate
<1> SUFFICES ASSUME NEW R \in SUBSET Request, Deadlocked(R), \A r \in R : req[r].kind \notin Updates PROVE FALSE
  BY DEF CyclesNeedAnUpdate, Updates
<1>1. R # {} /\ \A r \in R : \E q \in R : WaitsFor(r, q)
  BY DEF Deadlocked
<1>2. ASSUME NEW r \in R PROVE Head(want[r]) \notin LastRows
  <2>1. PICK q \in R : WaitsFor(r, q)
    BY <1>1
  <2>2. PICK p \in R : WaitsFor(q, p)
    BY <1>1
  <2>3. Head(want[r]) \in held[q] /\ held[q] \cap LastRows = {}
    BY <2>1, <2>2, WaitFacts
  <2>4. QED
    BY <2>3
<1>3. PICK r \in R : TRUE
  BY <1>1
<1>4. PICK q \in R : WaitsFor(r, q)
  BY <1>1
<1>5. PICK p \in R : WaitsFor(q, p)
  BY <1>1
<1>6. PICK t \in R : WaitsFor(p, t)
  BY <1>1
<1>7. PICK u \in R : WaitsFor(t, u)
  BY <1>1
<1>8. /\ held[q] # {} /\ stage[q] \notin Opening /\ held[q] \cap LastRows = {}
      /\ Wanting(q, req[q], Head(want[q])) /\ Head(want[q]) \in held[p]
      /\ \A row \in held[q] : Holding(q, req[q], row) /\ row \notin held[p]
  BY <1>4, <1>5, WaitFacts
<1>9. Holding(p, req[p], Head(want[q]))
  BY <1>6, <1>8, WaitFacts
<1>10. CASE req[q].kind = "create" /\ stage[q] = "numbers" /\ Head(want[q]) \in {PartiyaSequence, PattaSequence}
  <2>1. Head(want[q]) = PartiyaSequence
    BY <1>2, <1>10 DEF LastRows
  <2>2. held[q] \subseteq {PartiyaSequence}
    BY <1>8, <1>10 DEF Holding, Corrections, LastRows
  <2>3. QED
    BY <1>8, <2>1, <2>2
<1>11. CASE req[q].kind \in Listing /\ \E s \in Sheet : Head(want[q]) = SheetRow(s)
  BY <1>2, <1>5, <1>6, <1>11, NoCircleOverASheet
<1>12. CASE req[q].kind \in Corrections /\ stage[q] = "pattas"
  <2>1. req[p].kind = "create_linked" /\ \E s \in Sheet : Head(want[p]) = SheetRow(s)
    BY <1>5, <1>6, <1>12, NoCircleOverAPatta
  <2>2. QED
    BY <1>2, <1>6, <1>7, <2>1, NoCircleOverASheet DEF Listing
<1>13. \/ req[q].kind = "create" /\ stage[q] = "numbers" /\ Head(want[q]) \in {PartiyaSequence, PattaSequence}
       \/ req[q].kind \in Corrections /\ stage[q] = "pattas"
       \/ req[q].kind \in Listing /\ Head(want[q]) \in AnySheet
       \/ Head(want[q]) = PattaSequence
       \/ req[q].kind = "purge" /\ Head(want[q]) = SheetRows(req[q].sheet)
  BY <1>8 DEF Wanting, Opening, Listing
<1>14. CASE req[q].kind = "purge" /\ Head(want[q]) = SheetRows(req[q].sheet)
  <2>1. AskInv(req[q])
    BY IInvFacts DEF Standing
  <2>2. req[q].sheet \in Sheet
    BY <1>14, <2>1 DEF AskInv, Entering
  <2>3. QED
    BY <1>2, <1>14, <2>2 DEF LastRows
<1>15. QED
  BY <1>2, <1>10, <1>11, <1>12, <1>13, <1>14 DEF AnySheet, LastRows

-----------------------------------------------------------------------------
(* What each operation writes, row by row.                                 *)

\* The numbers a request gives to new Pattas, with their sizes.
Added(a) ==
  CASE a.kind = "create"     -> NextNumbers(a.first, Slots(a.target))
    [] a.kind = "correct"    -> NextNumbers(a.first, Plan(a).deficits)
    [] a.kind \in Claiming   -> a.sizes
    [] OTHER                 -> <<>>

PattaAfter(a, n) ==
  IF n \in DOMAIN Added(a)
  THEN NewPatta(IF a.kind = "register_one" THEN "none" ELSE a.batch, Added(a)[n], a.soni)
  ELSE IF a.kind \in Corrections /\ n \in Active(a.batch) THEN Recounted(Plan(a), a.soni, n)
  ELSE IF a.kind = "legacy" /\ n = a.patta THEN PattaWithSoni(pattas[n], a.soni)
  ELSE pattas[n]

\* The sheets whose quantity a request corrects.
Corrects(a, s) ==
  \/ a.kind \in Corrections /\ batches[a.batch].soni # a.soni /\ s \in SheetsOf(Active(a.batch))
  \/ a.kind = "legacy" /\ s \in SheetsOf({a.patta})

EntryAfter(a) ==
  CASE a.kind = "create_linked"     -> NewSheet(a.patta, pattas[a.patta].razmer, pattas[a.patta].soni)
    [] a.kind = "create_standalone" -> NewSheet(NoNumber, 0, a.soni)
    [] a.kind = "edit_linked"       ->
         [sheets[a.sheet] EXCEPT !.rows = pattas[sheets[a.sheet].patta].soni, !.version = a.expected + 1]
    [] a.kind = "edit_standalone"   ->
         [sheets[a.sheet] EXCEPT !.rows = sheets[a.sheet].soni, !.updates = @ + 1, !.version = a.expected + 1]
    [] a.kind = "trash"             -> [sheets[a.sheet] EXCEPT !.trashed = TRUE, !.version = a.expected + 1]
    [] a.kind = "restore"           -> [sheets[a.sheet] EXCEPT !.trashed = FALSE, !.version = a.expected + 1]
    [] a.kind = "purge"             -> Absent

SheetAfter(a, s) ==
  IF Corrects(a, s) THEN SheetWithSoni(sheets[s], a.soni)
  ELSE IF a.kind \in Entering /\ s = a.sheet THEN EntryAfter(a)
  ELSE sheets[s]

BatchAfter(a, b) ==
  IF a.kind \in Founding /\ b = a.batch THEN NewBatch(a)
  ELSE IF a.kind \in Corrections /\ b = a.batch THEN BatchCorrected(batches[b], a)
  ELSE IF a.kind = "print" /\ b = a.batch THEN BatchPrinted(batches[b], a.outcome)
  ELSE batches[b]

\* A request that enters a sheet changes nothing else.
LEMMA EntryOutcome ==
  ASSUME TablesTyped, NEW a, AskInv(a), a.kind \in Entering \ {"reuse"}
  PROVE  /\ Outcome(a) = WithSheet(a.sheet, EntryAfter(a))
         /\ \A n \in Number : PattaAfter(a, n) = pattas[n]
         /\ \A s \in Sheet : SheetAfter(a, s) = IF s = a.sheet THEN EntryAfter(a) ELSE sheets[s]
         /\ \A b \in Batch : BatchAfter(a, b) = batches[b]
<1>1. Outcome(a) = WithSheet(a.sheet, EntryAfter(a))
  BY DEF Entering, Outcome, EntryAfter, LinkedCreated, StandaloneCreated, LinkedEdited, StandaloneEdited, Trashed,
         Removed, Corrections
<1>2. DOMAIN Added(a) = {}
  BY DEF Added, Entering, Claiming
<1>3. \A n \in Number : PattaAfter(a, n) = pattas[n]
  BY <1>2 DEF PattaAfter, Entering, Corrections
<1>4. \A s \in Sheet : SheetAfter(a, s) = IF s = a.sheet THEN EntryAfter(a) ELSE sheets[s]
  BY DEF SheetAfter, Corrects, Entering, Corrections
<1>5. \A b \in Batch : BatchAfter(a, b) = batches[b]
  BY DEF BatchAfter, Entering, Corrections, Founding
<1>6. QED
  BY <1>1, <1>3, <1>4, <1>5

LEMMA OutcomeFacts ==
  ASSUME TablesTyped, NEW a, AskInv(a), a.kind \notin {"none", "reuse"}, NEW after, after = Outcome(a)
  PROVE  /\ \A n \in Number : after.pattas[n] = PattaAfter(a, n)
         /\ \A s \in Sheet : after.sheets[s] = SheetAfter(a, s)
         /\ \A b \in Batch : after.batches[b] = BatchAfter(a, b)
<1>1. CASE a.kind \in Entering
  <2> DEFINE x == EntryAfter(a)
  <2>1. after = WithSheet(a.sheet, x) /\ a.sheet \in Sheet
    BY <1>1, EntryOutcome DEF AskInv
  <2> HIDE DEF x
  <2>2. after.batches = batches /\ after.pattas = pattas /\ after.sheets = [sheets EXCEPT ![a.sheet] = x]
    BY <2>1 DEF WithSheet, After
  <2>3. \A s \in Sheet : after.sheets[s] = IF s = a.sheet THEN x ELSE sheets[s]
    BY <2>1, <2>2 DEF TablesTyped
  <2>4. QED
    BY <1>1, <2>2, <2>3, EntryOutcome DEF x
<1>2. CASE a.kind \in {"create", "register"}
  <2>1. /\ after.batches = [batches EXCEPT ![a.batch] = NewBatch(a)]
        /\ after.pattas = Inserted(pattas, a.batch, a.soni, Added(a)) /\ after.sheets = sheets
    BY <1>2 DEF Outcome, Created, Registered, After, Added, Claiming, Corrections
  <2>2. a.batch \in Batch
    BY <1>2 DEF AskInv, Founding
  <2>3. \A b \in Batch : after.batches[b] = BatchAfter(a, b)
    BY <1>2, <2>1, <2>2 DEF BatchAfter, Founding, TablesTyped, Corrections
  <2>4. \A s \in Sheet : after.sheets[s] = SheetAfter(a, s)
    BY <1>2, <2>1 DEF SheetAfter, Corrects, Entering, Corrections
  <2>5. \A n \in Number : after.pattas[n] = PattaAfter(a, n)
    BY <1>2, <2>1 DEF PattaAfter, Inserted, Corrections
  <2>6. QED
    BY <2>3, <2>4, <2>5
<1>3. CASE a.kind = "register_one"
  <2>1. /\ after.batches = batches /\ after.sheets = sheets
        /\ after.pattas = Inserted(pattas, "none", a.soni, Added(a))
    BY <1>3 DEF Outcome, RegisteredOne, After, Added, Claiming, Corrections
  <2>2. QED
    BY <1>3, <2>1 DEF BatchAfter, SheetAfter, Corrects, PattaAfter, Inserted, Founding, Corrections, Entering
<1>4. CASE a.kind \in Corrections
  <2> DEFINE plan == Plan(a)
             added == IF a.kind = "correct" THEN NextNumbers(a.first, plan.deficits) ELSE a.sizes
             written == [n \in Number |-> IF n \in Active(a.batch) THEN Recounted(plan, a.soni, n) ELSE pattas[n]]
  <2>1. /\ after.batches = [batches EXCEPT ![a.batch] = BatchCorrected(@, a)]
        /\ after.pattas = Inserted(written, a.batch, a.soni, added)
        /\ after.sheets = IF batches[a.batch].soni = a.soni THEN sheets ELSE Requantified(Active(a.batch), a.soni)
    BY <1>4 DEF Outcome, Corrected, After, Corrections
  <2>2. added = Added(a)
    BY <1>4 DEF Added, Claiming, Corrections
  <2>3. a.batch \in Batch
    BY <1>4 DEF AskInv
  <2>4. \A b \in Batch : after.batches[b] = BatchAfter(a, b)
    BY <1>4, <2>1, <2>3 DEF BatchAfter, Founding, Corrections, TablesTyped
  <2>5. \A s \in Sheet : after.sheets[s] = SheetAfter(a, s)
    BY <1>4, <2>1 DEF SheetAfter, Corrects, Requantified, Entering, Corrections
  <2>6. ASSUME NEW n \in Number PROVE after.pattas[n] = PattaAfter(a, n)
    <3>1. after.pattas[n] = IF n \in DOMAIN added THEN NewPatta(a.batch, added[n], a.soni) ELSE written[n]
      BY <2>1 DEF Inserted
    <3>2. written[n] = IF n \in Active(a.batch) THEN Recounted(plan, a.soni, n) ELSE pattas[n]
      OBVIOUS
    <3> HIDE DEF added, written
    <3>3. QED
      BY <1>4, <2>2, <3>1, <3>2 DEF PattaAfter, Corrections
  <2>7. QED
    BY <2>4, <2>5, <2>6
<1>5. CASE a.kind = "legacy"
  <2>1. /\ after.batches = batches /\ after.pattas = [pattas EXCEPT ![a.patta] = PattaWithSoni(@, a.soni)]
        /\ after.sheets = Requantified({a.patta}, a.soni)
    BY <1>5 DEF Outcome, LegacyCorrected, After, Corrections
  <2>2. a.patta \in Number /\ DOMAIN Added(a) = {}
    BY <1>5, NumberFacts DEF AskInv, Added, Claiming
  <2>3. \A s \in Sheet : after.sheets[s] = SheetAfter(a, s)
    BY <1>5, <2>1 DEF SheetAfter, Corrects, Requantified, Entering, Corrections
  <2>4. \A n \in Number : after.pattas[n] = PattaAfter(a, n)
    BY <1>5, <2>1, <2>2 DEF PattaAfter, Corrections, TablesTyped
  <2>5. QED
    BY <1>5, <2>1, <2>3, <2>4 DEF BatchAfter, Founding, Corrections
<1>6. CASE a.kind = "print"
  <2>1. /\ after.batches = [batches EXCEPT ![a.batch] = BatchPrinted(@, a.outcome)]
        /\ after.pattas = pattas /\ after.sheets = sheets
    BY <1>6 DEF Outcome, Printed, After, Corrections
  <2>2. a.batch \in Batch /\ DOMAIN Added(a) = {}
    BY <1>6 DEF AskInv, Added, Claiming
  <2>3. \A b \in Batch : after.batches[b] = BatchAfter(a, b)
    BY <1>6, <2>1, <2>2 DEF BatchAfter, Founding, Corrections, TablesTyped
  <2>4. QED
    BY <1>6, <2>1, <2>2, <2>3 DEF SheetAfter, Corrects, PattaAfter, Entering, Corrections
<1>7. a.kind \in Entering \cup Corrections \cup {"create", "register", "register_one", "legacy", "print"}
  BY DEF AskInv, Operations, Founding
<1>8. QED
  BY <1>1, <1>2, <1>3, <1>4, <1>5, <1>6, <1>7

\* A Patta that is there stays in its batch.
LEMMA BatchKept ==
  ASSUME TablesTyped, Judged, NEW a, AskInv(a), NEW n \in Number, Present(pattas[n]), pattas'[n] = PattaAfter(a, n)
  PROVE  pattas'[n].batch = pattas[n].batch
<1>1. pattas[n] \in PattaRecord
  BY PresentFacts
<1>2. CASE n \in DOMAIN Added(a)
  <2>1. pattas'[n].version = 1
    BY <1>2 DEF PattaAfter, NewPatta
  <2>2. pattas[n].version \in Nat \ {0}
    BY <1>1 DEF PattaRecord
  <2>3. pattas'[n] = pattas[n]
    BY <2>1, <2>2 DEF Judged
  <2>4. QED
    BY <2>3
<1>3. CASE n \notin DOMAIN Added(a) /\ a.kind \in Corrections /\ n \in Active(a.batch)
  <2>1. pattas'[n] = Recounted(Plan(a), a.soni, n) /\ a.target \in Distribution /\ a.soni \in Soni
    BY <1>3 DEF PattaAfter, AskInv
  <2>2. QED
    BY <1>3, <2>1, RecountedFacts
<1>4. CASE n \notin DOMAIN Added(a) /\ a.kind = "legacy" /\ n = a.patta
  <2>1. pattas'[n] = PattaWithSoni(pattas[n], a.soni) /\ a.soni \in Soni /\ 1 \in Razmer
    BY <1>4, DocumentsAssumption DEF PattaAfter, AskInv, Corrections
  <2>2. QED
    BY <1>1, <2>1, PattaChangeFacts
<1>5. CASE /\ n \notin DOMAIN Added(a) /\ ~(a.kind \in Corrections /\ n \in Active(a.batch))
           /\ ~(a.kind = "legacy" /\ n = a.patta)
  BY <1>5 DEF PattaAfter
<1>6. QED
  BY <1>2, <1>3, <1>4, <1>5

LEMMA PattaRowsOnly ==
  ASSUME NEW numbers \in SUBSET Number
  PROVE  \A i \in 1 .. Len(PattaRows(numbers)) : \E n \in numbers : PattaRows(numbers)[i] = PattaRow(n)
<1> DEFINE order == InNumberOrder(numbers)
           k == Cardinality(numbers)
<1>1. IsFiniteSet(numbers) /\ numbers \subseteq Nat
  BY NumberFacts, FS_Subset
<1>2. k \in Nat /\ order \in [1 .. k -> numbers]
  BY <1>1, NumberOrderFacts
<1>3. PattaRows(numbers) = [i \in 1 .. k |-> PattaRow(order[i])]
  BY DEF PattaRows
<1> HIDE DEF order, k
<1>4. Len(PattaRows(numbers)) = k
  BY <1>2, <1>3
<1>5. QED
  BY <1>2, <1>3, <1>4

LEMMA SheetRowsOnly ==
  ASSUME NEW numbers \in SUBSET Number
  PROVE  \A i \in 1 .. Len(SheetRowsOf(numbers)) : \E s \in SheetsOf(numbers) : SheetRowsOf(numbers)[i] = SheetRow(s)
<1> DEFINE entered == {sheets[s].patta : s \in SheetsOf(numbers)}
           sheetOf(n) == CHOOSE s \in SheetsOf(numbers) : sheets[s].patta = n
           order == InNumberOrder(entered)
           k == Cardinality(entered)
<1>1. entered \subseteq numbers
  BY DEF SheetsOf
<1>2. IsFiniteSet(entered) /\ entered \subseteq Nat
  BY <1>1, NumberFacts, FS_Subset
<1>3. k \in Nat /\ order \in [1 .. k -> entered]
  BY <1>2, NumberOrderFacts
<1>4. SheetRowsOf(numbers) = [i \in 1 .. k |-> SheetRow(sheetOf(order[i]))]
  BY DEF SheetRowsOf
<1>5. \A n \in entered : sheetOf(n) \in SheetsOf(numbers)
  OBVIOUS
<1> HIDE DEF order, k, entered, sheetOf
<1>6. Len(SheetRowsOf(numbers)) = k
  BY <1>3, <1>4
<1>7. QED
  BY <1>3, <1>4, <1>5, <1>6

-----------------------------------------------------------------------------
(* The order in which requests lock rows.                                  *)

\* What a request holds fits its next statement too.
LEMMA HoldingKept ==
  ASSUME NEW r, NEW a, NEW row, Holding(r, a, row), stage[r] = "numbers" => stage'[r] \in {"numbers", "write"},
         stage[r] = "write" => stage'[r] = "write",
         \A n \in Number : Present(pattas[n]) => Present(pattas'[n]) /\ pattas'[n].batch = pattas[n].batch
  PROVE  Holding(r, a, row)'
<1>1. PattaRowsOf(a.batch) \subseteq PattaRowsOf(a.batch)'
  BY DEF PattaRowsOf
<1>2. QED
  BY <1>1 DEF Holding, AnySheet

LEMMA WantingKept ==
  ASSUME NEW r, NEW a, NEW row, Wanting(r, a, row), stage'[r] = stage[r],
         \A n \in Number : Present(pattas[n]) => Present(pattas'[n]) /\ pattas'[n].batch = pattas[n].batch
  PROVE  Wanting(r, a, row)'
<1>1. PattaRowsOf(a.batch) \subseteq PattaRowsOf(a.batch)'
  BY DEF PattaRowsOf
<1>2. QED
  BY <1>1 DEF Wanting, AnySheet

\* A request that is not there holds nothing.
LEMMA IdleHoldsNothing ==
  ASSUME IInv, QueueInv, NEW r \in Request, req[r] = Idle
  PROVE  want[r] = <<>> /\ held[r] = {} /\ Promised(r) = {}
<1>1. QueueOf(r, Idle) /\ want[r] \in Seq(Rows) /\ Idle.kind = "none"
  BY IInvFacts DEF QueueInv, Updates, Idle, LocksTyped
<1>2. \A row : ~Wanting(r, Idle, row) /\ ~Holding(r, Idle, row)
  BY <1>1 DEF Wanting, Holding, Corrections
<1>3. held[r] = {} /\ Len(want[r]) = 0
  BY <1>1, <1>2 DEF QueueOf
<1>4. want[r] = <<>>
  BY <1>1, <1>3
<1>5. QED
  BY <1>3, <1>4 DEF Promised

\* What the step of a request leaves to the queue of another.
LEMMA QueueOfOther ==
  ASSUME NEW q, NEW a, QueueOf(q, a), stage'[q] = stage[q], want'[q] = want[q], held'[q] = held[q],
         \A n \in Number : Present(pattas[n]) => Present(pattas'[n]) /\ pattas'[n].batch = pattas[n].batch
  PROVE  QueueOf(q, a)'
<1>1. \A row : (Wanting(q, a, row) => Wanting(q, a, row)') /\ (Holding(q, a, row) => Holding(q, a, row)')
  BY HoldingKept, WantingKept
<1>2. LastRows' = LastRows /\ Opening' = Opening
  BY DEF LastRows, Opening
<1>3. QED
  BY <1>1, <1>2 DEF QueueOf

\* A step of r that leaves the tables alone.
LEMMA QueueKeeps ==
  ASSUME IInv, IInv', QueueInv, NEW r \in Request, UNCHANGED data,
         \A q \in Request \ {r} : /\ req'[q] = req[q] /\ stage'[q] = stage[q]
                                  /\ want'[q] = want[q] /\ held'[q] = held[q],
         \A a : a = req'[r] => (a.kind \notin Updates => QueueOf(r, a)') /\ (a.kind \in Listing => ListOf(r)'),
         \A s \in Sheet : NewTo(r, s)' \/ Present(sheets[s]) \/ (~NewTo(r, s) /\ req'[r].kind = req[r].kind),
         \A a : a = req'[r] /\ a.kind \in Creating => a = req[r] \/ \A q \in Request : NewTo(q, a.sheet)'
  PROVE  QueueInv'
<1>1. \A q \in Request \ {r} : /\ req'[q] = req[q]
                               /\ \A s : NewTo(q, s)' <=> NewTo(q, s)
  BY DEF NewTo, Promised
<1>2. \A n \in Number : Present(pattas[n]) => Present(pattas'[n]) /\ pattas'[n].batch = pattas[n].batch
  BY DEF data
<1>3. ASSUME NEW q \in Request \ {r}, NEW a, a = req[q]
      PROVE  (a.kind \notin Updates => QueueOf(q, a)') /\ (a.kind \in Listing => ListOf(q)')
  <2>1. (a.kind \notin Updates => QueueOf(q, a)) /\ (a.kind \in Listing => ListOf(q))
    BY <1>3 DEF QueueInv
  <2>2. ListOf(q)' <=> ListOf(q)
    BY DEF ListOf, Promised, data
  <2>3. QED
    BY <1>2, <2>1, <2>2, QueueOfOther
<1>4. ASSUME NEW q \in Request, NEW a, a = req[q], a.kind \in Creating
      PROVE  \A p \in Request : NewTo(p, a.sheet)'
  <2>1. AskInv(a) /\ \A p \in Request : NewTo(p, a.sheet)
    BY <1>4, IInvFacts DEF Standing, QueueInv
  <2>2. a.sheet \in Sheet /\ ~Present(sheets[a.sheet])
    BY <1>4, <2>1 DEF AskInv, Creating, Entering
  <2>3. NewTo(r, a.sheet)'
    BY <2>1, <2>2
  <2>4. \A p \in Request \ {r} : NewTo(p, a.sheet)'
    BY <1>1, <2>1
  <2>5. QED
    BY <2>3, <2>4
<1>5. ASSUME NEW q \in Request, NEW a, a = req'[q], a.kind \in Creating
      PROVE  \A p \in Request : NewTo(p, a.sheet)'
  <2>1. CASE a = req[q]
    BY <1>4, <1>5, <2>1
  <2>2. CASE a # req[q]
    BY <1>1, <1>5, <2>2
  <2>3. QED
    BY <2>1, <2>2
<1>6. ASSUME NEW q \in Request \ {r}, req'[r].kind \in Listing, req[q].kind \in Listing, NEW s \in Sheet
      PROVE  NewTo(r, s)' \/ NewTo(q, s)
  <2>1. CASE Present(sheets[s])
    <3>1. ListOf(r)' /\ ListOf(q)
      BY <1>6 DEF QueueInv
    <3>2. held'[r] \cap held[q] = {}
      <4>1. held'[r] \cap held'[q] = {}
        BY DEF IInv, TypeOK
      <4>2. QED
        BY <4>1
    <3>3. QED
      BY <2>1, <3>1, <3>2 DEF ListOf, NewTo, data
  <2>2. CASE ~NewTo(r, s) /\ req'[r].kind = req[r].kind
    BY <1>6, <2>2 DEF QueueInv
  <2>3. QED
    BY <2>1, <2>2
<1>7. \A q \in Request : \A a \in {req'[q]} :
        /\ a.kind \notin Updates => QueueOf(q, a)'
        /\ a.kind \in Listing => ListOf(q)'
        /\ a.kind \in Creating => \A p \in Request : NewTo(p, a.sheet)'
  <2> SUFFICES ASSUME NEW q \in Request, NEW a, a = req'[q]
               PROVE  /\ a.kind \notin Updates => QueueOf(q, a)'
                      /\ a.kind \in Listing => ListOf(q)'
                      /\ a.kind \in Creating => \A p \in Request : NewTo(p, a.sheet)'
    OBVIOUS
  <2>1. CASE q = r
    BY <1>5, <2>1
  <2>2. CASE q # r
    BY <1>1, <1>3, <1>5, <2>2
  <2>3. QED
    BY <2>1, <2>2
<1>8. \A p, q \in Request : p # q /\ req'[p].kind \in Listing /\ req'[q].kind \in Listing =>
        \A s \in Sheet : NewTo(p, s)' \/ NewTo(q, s)'
  <2> SUFFICES ASSUME NEW p \in Request, NEW q \in Request, p # q, req'[p].kind \in Listing, req'[q].kind \in Listing,
                      NEW s \in Sheet
               PROVE  NewTo(p, s)' \/ NewTo(q, s)'
    OBVIOUS
  <2>1. CASE p = r
    BY <1>1, <1>6, <2>1
  <2>2. CASE q = r
    BY <1>1, <1>6, <2>2
  <2>3. CASE p # r /\ q # r
    BY <1>1, <2>3 DEF QueueInv
  <2>4. QED
    BY <2>1, <2>2, <2>3
<1>9. Updates' = Updates /\ Listing' = Listing /\ Creating' = Creating
  BY DEF Updates, Listing, Creating, Corrections
<1>10. QED
  BY <1>7, <1>8, <1>9 DEF QueueInv

LEMMA AcquireQueues ==
  ASSUME IInv, IInv', QueueInv, NEW r \in Request, Acquire(r)
  PROVE  QueueInv'
<1> DEFINE row == Head(want[r])
<1>1. /\ want[r] # <<>> /\ UNCHANGED data /\ req' = req /\ stage' = stage
      /\ held' = [held EXCEPT ![r] = @ \cup {row}] /\ want' = [want EXCEPT ![r] = Tail(@)]
  BY DEF Acquire, data
<1>2. want[r] \in Seq(Rows)
  BY IInvFacts DEF LocksTyped
<1>3. /\ held'[r] = held[r] \cup {row} /\ want'[r] = Tail(want[r])
      /\ \A q \in Request \ {r} : held'[q] = held[q] /\ want'[q] = want[q]
  BY <1>1, IInvFacts DEF LocksTyped
<1>4. row = want[r][1] /\ 1 \in 1 .. Len(want[r])
  BY <1>1, <1>2
<1> HIDE DEF row
<1>5. /\ Len(Tail(want[r])) = Len(want[r]) - 1 /\ Len(want[r]) \in Nat
      /\ \A i \in 1 .. Len(Tail(want[r])) : i + 1 \in 1 .. Len(want[r]) /\ Tail(want[r])[i] = want[r][i + 1]
  BY <1>1, <1>2
<1>6. Promised(r)' \subseteq Promised(r)
  BY <1>3, <1>4, <1>5 DEF Promised
<1>7. \A n \in Number : Present(pattas[n]) => Present(pattas'[n]) /\ pattas'[n].batch = pattas[n].batch
  BY <1>1 DEF data
<1>8. ASSUME NEW a, a = req[r], a.kind \notin Updates PROVE QueueOf(r, a)'
  <2>1. QueueOf(r, a)
    BY <1>8 DEF QueueInv
  <2>2. \A x : (Wanting(r, a, x) => Wanting(r, a, x)') /\ (Holding(r, a, x) => Holding(r, a, x)')
    BY <1>1, <1>7, HoldingKept, WantingKept
  <2>3. Wanting(r, a, row) /\ (stage[r] \in Opening \/ row \in LastRows => Len(want[r]) = 1)
    BY <1>4, <2>1 DEF QueueOf
  <2>4. Holding(r, a, row)
    BY <2>3 DEF Wanting, Holding, Corrections
  <2>5. stage[r] \in Opening \/ row \in LastRows => want'[r] = <<>>
    <3> DEFINE rest == Tail(want[r])
    <3>1. rest \in Seq(Rows)
      BY <1>1, <1>2
    <3>2. stage[r] \in Opening \/ row \in LastRows => Len(rest) = 0
      BY <1>5, <2>3
    <3>3. want'[r] = rest
      BY <1>3
    <3> HIDE DEF rest
    <3>4. Len(rest) = 0 => rest = <<>>
      BY <3>1
    <3>5. QED
      BY <3>2, <3>3, <3>4
  <2>6. \A x \in held'[r] : Holding(r, a, x)'
    BY <1>3, <2>1, <2>2, <2>4 DEF QueueOf
  <2>7. \A i \in 1 .. Len(want'[r]) :
          /\ Wanting(r, a, want[r][i + 1])
          /\ want'[r][i] = want[r][i + 1]
          /\ stage[r] \in Opening \/ want'[r][i] \in LastRows => i = Len(want'[r])
    <3> SUFFICES ASSUME NEW i \in 1 .. Len(want'[r])
                 PROVE  /\ Wanting(r, a, want[r][i + 1]) /\ want'[r][i] = want[r][i + 1]
                        /\ stage[r] \in Opening \/ want'[r][i] \in LastRows => i = Len(want'[r])
      OBVIOUS
    <3>1. i + 1 \in 1 .. Len(want[r]) /\ want'[r][i] = want[r][i + 1]
      BY <1>3, <1>5
    <3>2. stage[r] \in Opening \/ want'[r][i] \in LastRows => i + 1 = Len(want[r])
      BY <2>1, <3>1 DEF QueueOf
    <3>3. Wanting(r, a, want[r][i + 1])
      BY <2>1, <3>1 DEF QueueOf
    <3>4. Len(want'[r]) = Len(want[r]) - 1
      BY <1>3, <1>5
    <3>5. QED
      BY <1>5, <3>1, <3>2, <3>3, <3>4
  <2>8. \A i \in 1 .. Len(want'[r]) : \A x : x = want'[r][i] => Wanting(r, a, x)'
    BY <2>2, <2>7
  <2>9. want'[r] # <<>> => held'[r] \cap LastRows = {} /\ stage[r] \notin Opening
    BY <1>1, <1>3, <2>1, <2>5 DEF QueueOf
  <2>10. QED
    BY <1>1, <2>6, <2>7, <2>8, <2>9 DEF QueueOf, LastRows, Opening
<1>9. ASSUME NEW a, a = req[r], a.kind \in Listing PROVE ListOf(r)'
  BY <1>1, <1>3, <1>6, <1>9 DEF QueueInv, ListOf, data
<1>10. \A s \in Sheet : NewTo(r, s)' \/ ~NewTo(r, s)
  BY <1>6 DEF NewTo
<1>11. QED
  BY <1>1, <1>3, <1>8, <1>9, <1>10, QueueKeeps

\* The next statement of a request.
LEMMA StatementQueues ==
  ASSUME IInv, IInv', QueueInv, NEW r \in Request, NEW next, NEW rows \in Seq(Rows), Statement(r, next, rows),
         want[r] = <<>>, stage[r] # "write", stage[r] = "numbers" => next = "write",
         NEW a, a = req[r],
         a.kind \notin Updates =>
           /\ next \notin Opening
           /\ \A i \in 1 .. Len(rows) : Wanting(r, a, rows[i])' /\ (rows[i] \in LastRows => i = Len(rows))
           /\ rows = <<>> \/ held[r] \cap LastRows = {},
         \A i \in 1 .. Len(rows) : \A s \in Sheet : rows[i] = SheetRow(s) =>
           Present(sheets[s]) /\ (a.kind \in Listing => PattaRow(sheets[s].patta) \in held[r])
  PROVE  QueueInv'
<1>1. /\ UNCHANGED data /\ req' = req /\ held' = held
      /\ stage' = [stage EXCEPT ![r] = next] /\ want' = [want EXCEPT ![r] = rows]
  BY DEF Statement, data
<1>2. /\ stage'[r] = next /\ want'[r] = rows
      /\ \A q \in Request \ {r} : stage'[q] = stage[q] /\ want'[q] = want[q]
  BY <1>1, IInvFacts DEF LocksTyped
<1>3. Promised(r) = held[r] /\ Promised(r)' = held[r] \cup {rows[i] : i \in 1 .. Len(rows)}
  BY <1>1, <1>2 DEF Promised
<1>4. \A n \in Number : Present(pattas[n]) => Present(pattas'[n]) /\ pattas'[n].batch = pattas[n].batch
  BY <1>1 DEF data
<1>5. ASSUME a.kind \notin Updates PROVE QueueOf(r, a)'
  <2>1. QueueOf(r, a)
    BY <1>5 DEF QueueInv
  <2>2. \A row : Holding(r, a, row) => Holding(r, a, row)'
    BY <1>2, <1>4, HoldingKept
  <2>3. \A i \in 1 .. Len(rows) : \A row : row = rows[i] => Wanting(r, a, row)'
    BY <1>5
  <2>4. \A i \in 1 .. Len(want'[r]) : \A row : row = want'[r][i] => Wanting(r, a, row)'
    BY <1>2, <2>3
  <2>5. QED
    BY <1>1, <1>2, <1>5, <2>1, <2>2, <2>4 DEF QueueOf, LastRows, Opening
<1>6. ASSUME a.kind \in Listing PROVE ListOf(r)'
  <2>1. ListOf(r)
    BY <1>6 DEF QueueInv
  <2>2. QED
    BY <1>1, <1>3, <1>6, <2>1 DEF ListOf, data
<1>7. \A s \in Sheet : NewTo(r, s)' \/ Present(sheets[s]) \/ ~NewTo(r, s)
  BY <1>3 DEF NewTo
<1>8. QED
  BY <1>1, <1>2, <1>5, <1>6, <1>7, QueueKeeps

\* The statement that writes when nothing is left to lock.
LEMMA LastStatementQueues ==
  ASSUME IInv, IInv', QueueInv, NEW r \in Request, Statement(r, "write", <<>>), want[r] = <<>>, stage[r] # "write"
  PROVE  QueueInv'
<1> DEFINE rows == <<>>
<1>1. rows \in Seq(Rows) /\ Len(rows) = 0 /\ rows = <<>> /\ "write" \notin Opening
  BY DEF Opening
<1>2. Statement(r, "write", rows)
  OBVIOUS
<1> HIDE DEF rows
<1>3. \A i \in 1 .. Len(rows) : FALSE
  BY <1>1
<1>4. PICK a : a = req[r]
  OBVIOUS
<1>5. QED
  BY <1>1, <1>2, <1>3, <1>4, StatementQueues

\* A request begins: it holds nothing yet.
LEMMA BeginQueues ==
  ASSUME IInv, IInv', QueueInv, NEW r \in Request, NEW ask, NEW first, NEW rows \in Seq(Rows),
         Begin(r, ask, first, rows),
         ask.kind \notin Updates =>
           \A i \in 1 .. Len(rows) :
             /\ Wanting(r, ask, rows[i])'
             /\ first \in Opening \/ rows[i] \in LastRows => i = Len(rows),
         \A i \in 1 .. Len(rows) : \A s \in Sheet : rows[i] = SheetRow(s) =>
           Present(sheets[s]) /\ ask.kind \notin Listing \cup Creating,
         ask.kind \in Creating => ask.sheet \in Sheet /\ \A q \in Request : NewTo(q, ask.sheet)
  PROVE  QueueInv'
<1>1. /\ UNCHANGED data /\ held' = held /\ req[r] = Idle
      /\ req' = [req EXCEPT ![r] = ask] /\ stage' = [stage EXCEPT ![r] = first] /\ want' = [want EXCEPT ![r] = rows]
  BY DEF Begin, data
<1>2. /\ req'[r] = ask /\ stage'[r] = first /\ want'[r] = rows
      /\ \A q \in Request \ {r} : /\ req'[q] = req[q] /\ stage'[q] = stage[q]
                                  /\ want'[q] = want[q] /\ held'[q] = held[q]
  BY <1>1, IInvFacts DEF LocksTyped
<1>3. held[r] = {} /\ held'[r] = {} /\ Promised(r)' = {rows[i] : i \in 1 .. Len(rows)}
  BY <1>1, <1>2, IdleHoldsNothing DEF Promised
<1>4. ASSUME ask.kind \notin Updates PROVE QueueOf(r, ask)'
  <2>1. \A i \in 1 .. Len(rows) : \A row : row = rows[i] => Wanting(r, ask, row)'
    BY <1>4
  <2>2. \A i \in 1 .. Len(want'[r]) : \A row : row = want'[r][i] => Wanting(r, ask, row)'
    BY <1>2, <2>1
  <2>3. QED
    BY <1>2, <1>3, <1>4, <2>2 DEF QueueOf, LastRows, Opening
<1>5. ask.kind \in Listing => ListOf(r)'
  BY <1>3 DEF ListOf
<1>6. \A s \in Sheet : NewTo(r, s)' \/ Present(sheets[s])
  BY <1>3 DEF NewTo
<1>7. ASSUME NEW a, a = ask, a.kind \in Creating PROVE \A q \in Request : NewTo(q, a.sheet)'
  <2>1. NewTo(r, a.sheet)'
    BY <1>3, <1>7 DEF NewTo
  <2>2. \A q \in Request \ {r} : NewTo(q, a.sheet)'
    BY <1>2, <1>7 DEF NewTo, Promised
  <2>3. QED
    BY <2>1, <2>2
<1>8. QED
  BY <1>1, <1>2, <1>4, <1>5, <1>6, <1>7, QueueKeeps

\* A request ends, whether it wrote or not.
LEMMA EndQueues ==
  ASSUME IInv, IInv', QueueInv, NEW r \in Request, End(r),
         \A n \in Number : Present(pattas[n]) => Present(pattas'[n]) /\ pattas'[n].batch = pattas[n].batch,
         \A s \in Sheet : Present(sheets'[s]) =>
           \/ Present(sheets[s]) /\ sheets'[s].patta = sheets[s].patta
           \/ req[r].kind \in Creating /\ req[r].sheet = s
  PROVE  QueueInv'
<1>1. /\ req'[r] = Idle /\ want'[r] = <<>> /\ held'[r] = {} /\ Idle.kind = "none"
      /\ \A q \in Request \ {r} : /\ req'[q] = req[q] /\ stage'[q] = stage[q]
                                  /\ want'[q] = want[q] /\ held'[q] = held[q]
  BY IInvFacts DEF End, LocksTyped, Idle
<1>2. \A s : NewTo(r, s)'
  BY <1>1 DEF NewTo, Promised
<1>3. \A q \in Request \ {r} : \A s : NewTo(q, s)' <=> NewTo(q, s)
  BY <1>1 DEF NewTo, Promised
<1>4. QueueOf(r, Idle)'
  <2>1. held'[r] = {} /\ Len(want'[r]) = 0
    BY <1>1
  <2>2. QED
    BY <1>1, <2>1 DEF QueueOf
<1>5. ASSUME NEW q \in Request \ {r}, NEW a, a = req[q], a.kind \in Listing PROVE ListOf(q)'
  <2> SUFFICES ASSUME NEW s \in Sheet, ~NewTo(q, s)', Present(sheets'[s])
               PROVE  PattaRow(sheets'[s].patta) \in held'[q]
    BY DEF ListOf, NewTo
  <2>1. ~NewTo(q, s)
    BY <1>3
  <2>2. Present(sheets[s]) /\ sheets'[s].patta = sheets[s].patta
    BY <2>1 DEF QueueInv
  <2>3. ListOf(q)
    BY <1>5 DEF QueueInv
  <2>4. QED
    BY <1>1, <2>1, <2>2, <2>3 DEF ListOf, NewTo
<1>6. ASSUME NEW q \in Request, NEW a, a = req'[q]
      PROVE  /\ a.kind \notin Updates => QueueOf(q, a)'
             /\ a.kind \in Listing => ListOf(q)'
             /\ a.kind \in Creating => \A p \in Request : NewTo(p, a.sheet)'
  <2>1. CASE q = r
    <3>1. a = Idle
      BY <1>1, <1>6, <2>1
    <3>2. QED
      BY <1>1, <1>4, <2>1, <3>1 DEF Listing, Corrections, Creating
  <2>2. CASE q # r
    <3>1. a = req[q]
      BY <1>1, <1>6, <2>2
    <3>2. a.kind \notin Updates => QueueOf(q, a)'
      BY <1>1, <2>2, <3>1, QueueOfOther DEF QueueInv
    <3>3. a.kind \in Creating => \A p \in Request : NewTo(p, a.sheet)
      BY <3>1 DEF QueueInv
    <3>4. a.kind \in Creating => \A p \in Request : NewTo(p, a.sheet)'
      BY <1>2, <1>3, <3>3
    <3>5. QED
      BY <1>5, <2>2, <3>1, <3>2, <3>4
  <2>3. QED
    BY <2>1, <2>2
<1>7. \A p, q \in Request : p # q /\ req'[p].kind \in Listing /\ req'[q].kind \in Listing =>
        \A s \in Sheet : NewTo(p, s)' \/ NewTo(q, s)'
  <2> SUFFICES ASSUME NEW p \in Request, NEW q \in Request, p # q, req'[p].kind \in Listing, req'[q].kind \in Listing,
                      NEW s \in Sheet
               PROVE  NewTo(p, s)' \/ NewTo(q, s)'
    OBVIOUS
  <2>1. CASE p = r \/ q = r
    BY <1>2, <2>1
  <2>2. CASE p # r /\ q # r
    BY <1>1, <1>3, <2>2 DEF QueueInv
  <2>3. QED
    BY <2>1, <2>2
<1>8. Updates' = Updates /\ Listing' = Listing /\ Creating' = Creating
  BY DEF Updates, Listing, Creating, Corrections
<1>9. QED
  BY <1>6, <1>7, <1>8 DEF QueueInv

LEMMA RefuseQueues ==
  ASSUME IInv, IInv', QueueInv, NEW r \in Request, Refuse(r)
  PROVE  QueueInv'
<1>1. End(r) /\ UNCHANGED data
  BY DEF Refuse
<1>2. QED
  BY <1>1, EndQueues DEF data

LEMMA WriteQueues ==
  ASSUME IInv, IInv', QueueInv, NEW r \in Request, Write(r)
  PROVE  QueueInv'
<1>1. CASE Refuse(r)
  BY <1>1, RefuseQueues
<1>2. CASE ~Refuse(r)
  <2>1. Writing(r) /\ Committed(r) /\ End(r)
    BY <1>2 DEF Write, Committed, Commit
  <2>2. Sound /\ TablesTyped /\ req[r].kind \notin {"none", "reuse"} /\ Standing(r, req[r]) /\ AskInv(req[r])
    BY <2>1, IInvFacts DEF Writing, Sound, Standing, FoundOf
  <2>3. Effect(r) /\ Judged
    BY <2>1, <2>2, WriteEffect, CommittedIsJudged
  <2>4. \A n \in Number : pattas'[n] = PattaAfter(req[r], n)
    BY <2>1, <2>2, OutcomeFacts DEF Committed
  <2>5. \A n \in Number : Present(pattas[n]) => Present(pattas'[n]) /\ pattas'[n].batch = pattas[n].batch
    BY <2>2, <2>3, <2>4, BatchKept DEF Effect
  <2>6. \A s \in Sheet : Present(sheets'[s]) =>
          \/ Present(sheets[s]) /\ sheets'[s].patta = sheets[s].patta
          \/ req[r].kind \in Creating /\ req[r].sheet = s
    BY <2>3 DEF Effect
  <2>7. QED
    BY <2>1, <2>5, <2>6, EndQueues
<1>3. QED
  BY <1>1, <1>2

\* What a statement finds of the request that runs it.
LEMMA BeforeStatement ==
  ASSUME IInv, QueueInv, NEW r \in Request, NEW next, NEW rows, Statement(r, next, rows), want[r] = <<>>,
         NEW a, a = req[r]
  PROVE  /\ stage'[r] = next /\ UNCHANGED data /\ AskInv(a) /\ LockOf(r, a) /\ FoundOf(r, a) /\ TablesTyped
         /\ a.kind \notin Updates => \A row \in held[r] : Holding(r, a, row)
<1>1. stage'[r] = next /\ UNCHANGED data
  BY StatementFacts
<1>2. AskInv(a) /\ LockOf(r, a) /\ FoundOf(r, a) /\ TablesTyped
  BY IInvFacts DEF Standing, Sound
<1>3. a.kind \notin Updates => \A row \in held[r] : Holding(r, a, row)
  BY DEF QueueInv, QueueOf
<1>4. QED
  BY <1>1, <1>2, <1>3

LEMMA CorrectBatchQueues ==
  ASSUME IInv, IInv', QueueInv, NEW r \in Request, CorrectBatch(r)
  PROVE  QueueInv'
<1> DEFINE rows == PattaRows(Active(req[r].batch))
<1>1. CASE Refuse(r)
  BY <1>1, RefuseQueues
<1>2. CASE Statement(r, "pattas", rows)
  <2>1. req[r].kind \in Corrections /\ stage[r] = "batch" /\ want[r] = <<>>
    BY DEF CorrectBatch, Correcting, At, Corrections
  <2>2. PICK a : a = req[r]
    OBVIOUS
  <2>3. Active(a.batch) \in SUBSET Number
    BY DEF Active
  <2>4. rows \in Seq(Rows) /\ \A i \in 1 .. Len(rows) : \E n \in Active(a.batch) : rows[i] = PattaRow(n)
    BY <2>2, <2>3, PattaRowsFacts, PattaRowsOnly
  <2> HIDE DEF rows
  <2>5. /\ stage'[r] = "pattas" /\ UNCHANGED data
        /\ a.kind \notin Updates /\ \A row \in held[r] : Holding(r, a, row)
    BY <1>2, <2>1, <2>2, BeforeStatement DEF Corrections, Updates
  <2>6. ASSUME NEW i \in 1 .. Len(rows)
        PROVE  /\ \A row : row = rows[i] => Wanting(r, a, row)'
               /\ rows[i] \notin LastRows /\ \A s : rows[i] # SheetRow(s)
    <3>1. PICK n \in Active(a.batch) : rows[i] = PattaRow(n)
      BY <2>4
    <3>2. rows[i] \in PattaRowsOf(a.batch)'
      BY <2>5, <3>1 DEF PattaRowsOf, Active, data
    <3>3. \A row : row = rows[i] => Wanting(r, a, row)'
      BY <2>1, <2>2, <2>5, <3>2 DEF Wanting
    <3>4. QED
      BY <3>1, <3>3, RowsDiffer DEF LastRows
  <2>7. held[r] \cap LastRows = {}
    BY <2>1, <2>2, <2>5, RowsDiffer DEF Holding, LastRows, AnySheet, PattaRowsOf, Corrections
  <2>8. "pattas" \notin Opening
    BY DEF Opening
  <2>9. QED
    BY <1>2, <2>1, <2>2, <2>4, <2>6, <2>7, <2>8, StatementQueues
<1>3. QED
  BY <1>1, <1>2 DEF CorrectBatch

\* A statement that locks the sheets of Pattas it has locked.
LEMMA ListingQueues ==
  ASSUME IInv, IInv', QueueInv, NEW r \in Request, NEW next, NEW numbers \in SUBSET Number,
         NEW a, a = req[r], a.kind \in Listing, want[r] = <<>>,
         Statement(r, next, SheetRowsOf(numbers)),
         \/ a.kind \in Corrections /\ stage[r] = "pattas" /\ next = "entries"
         \/ a.kind = "legacy" /\ stage[r] = "patta" /\ next = "write"
         \/ a.kind = "create_linked" /\ stage[r] = "patta" /\ next = "prior",
         \A n \in numbers : PattaRow(n) \in held[r]
  PROVE  QueueInv'
<1> DEFINE rows == SheetRowsOf(numbers)
<1>1. TablesTyped /\ QuantitiesAgree
  BY IInvFacts DEF Sound
<1>2. rows \in Seq(Rows) /\ \A i \in 1 .. Len(rows) : \E s \in SheetsOf(numbers) : rows[i] = SheetRow(s)
  BY <1>1, SheetRowsFacts, SheetRowsOnly
<1>3. Statement(r, next, rows)
  OBVIOUS
<1> HIDE DEF rows
<1>4. /\ stage'[r] = next /\ UNCHANGED data
      /\ a.kind \notin Updates /\ \A row \in held[r] : Holding(r, a, row)
  BY <1>3, BeforeStatement DEF Listing, Corrections, Updates
<1>5. ASSUME NEW i \in 1 .. Len(rows)
      PROVE  /\ \A row : row = rows[i] => Wanting(r, a, row)'
             /\ rows[i] \notin LastRows
             /\ \A s \in Sheet : rows[i] = SheetRow(s) => Present(sheets[s]) /\ PattaRow(sheets[s].patta) \in held[r]
  <2>1. PICK s \in SheetsOf(numbers) : rows[i] = SheetRow(s)
    BY <1>2
  <2>2. rows[i] \in AnySheet
    BY <2>1 DEF AnySheet, SheetsOf
  <2>3. \A row : row = rows[i] => Wanting(r, a, row)'
    BY <1>4, <2>2 DEF Wanting, AnySheet
  <2>4. \A t \in Sheet : rows[i] = SheetRow(t) => t \in SheetsOf(numbers)
    BY <2>1, RowsDiffer
  <2>5. QED
    BY <2>1, <2>3, <2>4, RowsDiffer DEF LastRows, SheetsOf
<1>6. held[r] \cap LastRows = {}
  BY <1>4, RowsDiffer DEF Holding, LastRows, AnySheet, PattaRowsOf, Corrections
<1>7. next \notin Opening /\ stage[r] # "write" /\ stage[r] # "numbers"
  BY DEF Opening
<1>8. QED
  BY <1>2, <1>3, <1>5, <1>6, <1>7, StatementQueues

LEMMA CorrectEntriesQueues ==
  ASSUME IInv, IInv', QueueInv, NEW r \in Request, CorrectEntries(r)
  PROVE  QueueInv'
<1>1. PICK a : a = req[r]
  OBVIOUS
<1>2. /\ Statement(r, "entries", SheetRowsOf(Active(a.batch))) /\ a.kind \in Corrections /\ a.kind \in Listing
      /\ stage[r] = "pattas" /\ want[r] = <<>>
  BY <1>1 DEF CorrectEntries, Correcting, At, Corrections, Listing
<1>3. Active(a.batch) \in SUBSET Number
  BY DEF Active
<1>4. \A n \in Active(a.batch) : PattaRow(n) \in held[r]
  <2>1. LockOf(r, a) /\ Promised(r) = held[r]
    BY <1>1, <1>2, BeforeStatement, StatementFacts
  <2>2. QED
    BY <1>2, <2>1 DEF LockOf, CorrectionLocks
<1>5. QED
  BY <1>1, <1>2, <1>3, <1>4, ListingQueues

LEMMA CorrectAssignQueues ==
  ASSUME IInv, IInv', QueueInv, NEW r \in Request, CorrectAssign(r)
  PROVE  QueueInv'
<1>1. req[r].kind \in Corrections /\ stage[r] = "entries" /\ want[r] = <<>>
  BY DEF CorrectAssign, Correcting, At, Corrections
<1>2. \/ Refuse(r)
      \/ Statement(r, "write", <<>>)
      \/ Statement(r, "numbers", <<PattaSequence>>) /\ req[r].kind = "correct"
  BY DEF CorrectAssign, Correcting, At
<1>3. CASE Statement(r, "numbers", <<PattaSequence>>) /\ req[r].kind = "correct"
  <2> DEFINE row == PattaSequence
             rows == <<row>>
  <2>1. Statement(r, "numbers", rows) /\ rows \in Seq(Rows) /\ Len(rows) = 1 /\ rows[1] = row
    BY <1>3, RowTypes
  <2>2. PICK a : a = req[r]
    OBVIOUS
  <2> HIDE DEF rows
  <2>3. /\ stage'[r] = "numbers" /\ a.kind = "correct" /\ a.kind \notin Updates
        /\ \A x \in held[r] : Holding(r, a, x)
    BY <1>1, <1>3, <2>1, <2>2, BeforeStatement DEF Updates
  <2>4. \A i \in 1 .. Len(rows) : i = Len(rows) /\ rows[i] = PattaSequence
    BY <2>1
  <2>5. \A x : x = PattaSequence => Wanting(r, a, x)'
    BY <2>3 DEF Wanting
  <2>6. held[r] \cap LastRows = {}
    BY <1>1, <2>3, RowsDiffer DEF Holding, LastRows, AnySheet, PattaRowsOf, Corrections
  <2>7. "numbers" \notin Opening
    BY DEF Opening
  <2>8. \A i \in 1 .. Len(rows) : Wanting(r, a, rows[i])'
    BY <2>4, <2>5
  <2>9. \A i \in 1 .. Len(rows) : \A s \in Sheet : rows[i] # SheetRow(s)
    BY <2>4, RowsDiffer
  <2>10. QED
    BY <1>1, <2>1, <2>2, <2>4, <2>6, <2>7, <2>8, <2>9, StatementQueues
<1>4. QED
  BY <1>1, <1>2, <1>3, RefuseQueues, LastStatementQueues

LEMMA LegacyEntriesQueues ==
  ASSUME IInv, IInv', QueueInv, NEW r \in Request, LegacyEntries(r)
  PROVE  QueueInv'
<1>1. PICK a : a = req[r]
  OBVIOUS
<1>2. CASE Statement(r, "write", SheetRowsOf({a.patta}))
  <2>1. a.kind = "legacy" /\ stage[r] = "patta" /\ want[r] = <<>> /\ a.kind \in Listing
    BY <1>1 DEF LegacyEntries, At, Listing
  <2>2. AskInv(a) /\ LockOf(r, a) /\ Promised(r) = held[r]
    BY <1>1, <1>2, <2>1, BeforeStatement, StatementFacts
  <2>3. a.patta \in Number
    BY <2>1, <2>2, NumberFacts DEF AskInv
  <2>4. PattaRow(a.patta) \in held[r]
    BY <2>1, <2>2 DEF LockOf, PattaLocks
  <2>5. {a.patta} \in SUBSET Number /\ \A n \in {a.patta} : PattaRow(n) \in held[r]
    BY <2>3, <2>4
  <2>6. QED
    BY <1>1, <1>2, <2>1, <2>5, ListingQueues
<1>3. QED
  BY <1>1, <1>2, RefuseQueues DEF LegacyEntries

LEMMA CreateLinkedPattaQueues ==
  ASSUME IInv, IInv', QueueInv, NEW r \in Request, CreateLinkedPatta(r)
  PROVE  QueueInv'
<1>1. PICK a : a = req[r]
  OBVIOUS
<1>2. CASE Statement(r, "prior", SheetRowsOf({a.patta}))
  <2>1. a.kind = "create_linked" /\ stage[r] = "patta" /\ want[r] = <<>> /\ a.kind \in Listing
    BY <1>1 DEF CreateLinkedPatta, At, Listing
  <2>2. AskInv(a) /\ LockOf(r, a) /\ Promised(r) = held[r]
    BY <1>1, <1>2, <2>1, BeforeStatement, StatementFacts
  <2>3. a.patta \in Number
    BY <2>1, <2>2, NumberFacts DEF AskInv
  <2>4. PattaRow(a.patta) \in held[r]
    BY <2>1, <2>2 DEF LockOf, PattaLocks
  <2>5. {a.patta} \in SUBSET Number /\ \A n \in {a.patta} : PattaRow(n) \in held[r]
    BY <2>3, <2>4
  <2>6. QED
    BY <1>1, <1>2, <2>1, <2>5, ListingQueues
<1>3. QED
  BY <1>1, <1>2, RefuseQueues DEF CreateLinkedPatta

LEMMA EditLinkedQueues ==
  ASSUME IInv, IInv', QueueInv, NEW r \in Request, EditLinked(r)
  PROVE  QueueInv'
<1> DEFINE row == PattaRow(sheets[req[r].sheet].patta)
           rows == <<row>>
<1>1. CASE Refuse(r)
  BY <1>1, RefuseQueues
<1>2. CASE Live(req[r].sheet, req[r].expected) /\ Statement(r, "patta", rows)
  <2>1. req[r].kind = "edit_linked" /\ stage[r] = "sheet" /\ want[r] = <<>>
    BY DEF EditLinked, At
  <2>2. PICK a : a = req[r]
    OBVIOUS
  <2>3. sheets[a.sheet].patta \in Number
    <3>1. a.sheet \in Sheet /\ Present(sheets[a.sheet]) /\ sheets[a.sheet].patta # NoNumber /\ TablesTyped
      BY <1>2, <2>1, <2>2, IInvFacts DEF Standing, AskInv, Entering, Live, Sound
    <3>2. sheets[a.sheet] \in SheetRecord
      BY <3>1, PresentFacts
    <3>3. QED
      BY <3>1, <3>2 DEF SheetRecord
  <2>4. rows \in Seq(Rows) /\ Len(rows) = 1 /\ rows[1] = row
    BY <2>2, <2>3, RowTypes
  <2> HIDE DEF rows
  <2>5. \A i \in 1 .. Len(rows) : \A s \in Sheet : rows[i] # SheetRow(s)
    BY <2>4, RowsDiffer
  <2>6. a.kind \in Updates
    BY <2>1, <2>2 DEF Updates
  <2>7. QED
    BY <1>2, <2>1, <2>2, <2>4, <2>5, <2>6, StatementQueues
<1>3. QED
  BY <1>1, <1>2 DEF EditLinked

LEMMA PurgeQueues ==
  ASSUME IInv, IInv', QueueInv, NEW r \in Request, Purge(r)
  PROVE  QueueInv'
<1>1. CASE Refuse(r)
  BY <1>1, RefuseQueues
<1>2. CASE Statement(r, "write", <<SheetRows(req[r].sheet)>>)
  <2>1. req[r].kind = "purge" /\ stage[r] = "sheet" /\ want[r] = <<>>
    BY DEF Purge, At
  <2>2. PICK a : a = req[r]
    OBVIOUS
  <2> DEFINE rows == <<SheetRows(a.sheet)>>
  <2>3. a.sheet \in Sheet /\ Statement(r, "write", rows)
    BY <1>2, <2>1, <2>2, IInvFacts DEF Standing, AskInv, Entering
  <2>4. rows \in Seq(Rows) /\ Len(rows) = 1 /\ rows[1] = SheetRows(a.sheet)
    BY <2>3, RowTypes
  <2>5. \A i \in 1 .. Len(rows) : i = Len(rows) /\ rows[i] = SheetRows(a.sheet)
    OBVIOUS
  <2> HIDE DEF rows
  <2>6. /\ stage'[r] = "write" /\ a.kind = "purge" /\ a.kind \notin Updates
        /\ \A x \in held[r] : Holding(r, a, x)
    BY <2>1, <2>2, <2>3, BeforeStatement DEF Updates
  <2>7. \A x : x = SheetRows(a.sheet) => Wanting(r, a, x)'
    BY <2>6 DEF Wanting
  <2>8. held[r] \cap LastRows = {}
    BY <2>1, <2>6, RowsDiffer DEF Holding, LastRows, Corrections
  <2>9. \A i \in 1 .. Len(rows) : \A s \in Sheet : rows[i] # SheetRow(s)
    BY <2>5, RowsDiffer
  <2>10. \A i \in 1 .. Len(rows) : Wanting(r, a, rows[i])'
    BY <2>5, <2>7
  <2>11. "write" \notin Opening
    BY DEF Opening
  <2>12. QED
    BY <2>1, <2>2, <2>3, <2>4, <2>5, <2>8, <2>9, <2>10, <2>11, StatementQueues
<1>3. QED
  BY <1>1, <1>2 DEF Purge

\* The number is read: what the request holds, and who it is, stay.
LEMMA ReadQueues ==
  ASSUME IInv, IInv', QueueInv, NEW r \in Request, ReadSequence(r), want[r] = <<>>, stage[r] = "numbers",
         req[r].kind \in {"create", "correct"}
  PROVE  QueueInv'
<1>1. PICK a : a = req'[r]
  OBVIOUS
<1>2. /\ UNCHANGED data /\ held' = held /\ stage'[r] = "write" /\ Promised(r)' = Promised(r)
      /\ a.kind = req[r].kind /\ a.batch = req[r].batch
  BY <1>1, ReadFacts
<1>3. /\ req' = [req EXCEPT ![r] = a] /\ stage' = [stage EXCEPT ![r] = "write"]
      /\ want' = [want EXCEPT ![r] = <<>>]
  BY <1>1, IInvFacts DEF ReadSequence, LocksTyped
<1>4. /\ want'[r] = <<>>
      /\ \A q \in Request \ {r} : req'[q] = req[q] /\ stage'[q] = stage[q] /\ want'[q] = want[q]
  BY <1>3, IInvFacts DEF LocksTyped
<1>5. \A n \in Number : Present(pattas[n]) => Present(pattas'[n]) /\ pattas'[n].batch = pattas[n].batch
  BY <1>2 DEF data
<1>6. a.kind \notin Updates /\ a.kind \notin Creating
  BY <1>2 DEF Updates, Creating
<1>7. QueueOf(r, a)'
  <2>1. \A row \in held[r] : Holding(r, req[r], row)
    BY <1>2, <1>6 DEF QueueInv, QueueOf
  <2>2. \A row \in held[r] : Holding(r, a, row)
    BY <1>2, <2>1 DEF Holding, Corrections
  <2>3. \A row \in held[r] : Holding(r, a, row)'
    BY <1>2, <1>5, <2>2, HoldingKept
  <2>4. Len(want'[r]) = 0
    BY <1>4
  <2>5. QED
    BY <1>2, <1>4, <2>3, <2>4 DEF QueueOf
<1>8. ASSUME a.kind \in Listing PROVE ListOf(r)'
  <2>1. ListOf(r)
    BY <1>2, <1>8 DEF QueueInv
  <2>2. QED
    BY <1>2, <2>1 DEF ListOf, data
<1>9. \A s \in Sheet : NewTo(r, s)' \/ Present(sheets[s]) \/ (~NewTo(r, s) /\ req'[r].kind = req[r].kind)
  BY <1>1, <1>2 DEF NewTo
<1>10. QED
  BY <1>1, <1>2, <1>4, <1>6, <1>7, <1>8, <1>9, QueueKeeps

LEMMA NumbersQueues ==
  ASSUME IInv, IInv', QueueInv, NEW r \in Request, TakeNumbers(r) \/ AllocateCorrectionPattaNumbers(r)
  PROVE  QueueInv'
<1>1. /\ want[r] = <<>> /\ stage[r] = "numbers" /\ req[r].kind \in {"create", "correct"}
      /\ Refuse(r) \/ ReadSequence(r)
  BY DEF TakeNumbers, AllocateCorrectionPattaNumbers, At
<1>2. QED
  BY <1>1, RefuseQueues, ReadQueues

\* The statements that only find what they looked for.
LEMMA LookingQueues ==
  ASSUME IInv, IInv', QueueInv, NEW r \in Request,
         \/ PrintBatch(r) \/ CreateLinkedPrior(r) \/ EditLinkedPatta(r) \/ Reused(r) \/ SetTrashed(r)
         \/ NotPermitted(r) \/ RejectSnapshots(r) \/ RejectRows(r) \/ AbortVictim(r) \/ RollBack(r)
  PROVE  QueueInv'
<1>1. Refuse(r) \/ (Statement(r, "write", <<>>) /\ want[r] = <<>> /\ stage[r] # "write")
  BY DEF PrintBatch, CreateLinkedPrior, EditLinkedPatta, Reused, SetTrashed,
         NotPermitted, RejectSnapshots, RejectRows, AbortVictim, RollBack, At
<1>2. QED
  BY <1>1, RefuseQueues, LastStatementQueues

-----------------------------------------------------------------------------
(* Requests begin.                                                         *)

\* A request that begins with a write waits for nothing.
LEMMA BeginWritingQueues ==
  ASSUME IInv, IInv', QueueInv, NEW r \in Request, NEW ask, Begin(r, ask, "write", <<>>),
         ask.kind \in Creating => ask.sheet \in Sheet /\ \A q \in Request : NewTo(q, ask.sheet)
  PROVE  QueueInv'
<1> DEFINE rows == <<>>
<1>1. rows \in Seq(Rows) /\ Len(rows) = 0 /\ Begin(r, ask, "write", rows)
  OBVIOUS
<1> HIDE DEF rows
<1>2. \A i \in 1 .. Len(rows) : FALSE
  BY <1>1
<1>3. QED
  BY <1>1, <1>2, BeginQueues

\* A request that begins with the row it names.
LEMMA BeginOpeningQueues ==
  ASSUME IInv, IInv', QueueInv, NEW r \in Request, NEW ask, NEW first, NEW row \in Rows,
         Begin(r, ask, first, <<row>>),
         \/ ask.kind \in Corrections \cup {"print"} /\ first = "batch" /\ row = BatchRow(ask.batch)
         \/ ask.kind \in {"legacy", "create_linked"} /\ first = "patta" /\ row = PattaRow(ask.patta)
         \/ /\ ask.kind \in Changing /\ first = "sheet" /\ row = SheetRow(ask.sheet)
            /\ ask.sheet \in Sheet /\ Present(sheets[ask.sheet]),
         ask.kind \in Creating => ask.sheet \in Sheet /\ \A q \in Request : NewTo(q, ask.sheet)
  PROVE  QueueInv'
<1> DEFINE rows == <<row>>
<1>1. rows \in Seq(Rows) /\ Len(rows) = 1 /\ rows[1] = row /\ Begin(r, ask, first, rows)
  OBVIOUS
<1> HIDE DEF rows
<1>2. \A i \in 1 .. Len(rows) : i = Len(rows) /\ rows[i] = row
  BY <1>1
<1>3. stage'[r] = first
  BY BeginFacts
<1>4. ask.kind \notin Updates => Wanting(r, ask, row)'
  BY <1>3 DEF Wanting, Corrections, Changing, Updates
<1>5. \A s \in Sheet : row = SheetRow(s) => Present(sheets[s]) /\ ask.kind \notin Listing \cup Creating
  BY RowsDiffer DEF Changing, Listing, Creating, Corrections
<1>6. ask.kind \notin Updates => \A i \in 1 .. Len(rows) :
        /\ Wanting(r, ask, rows[i])'
        /\ first \in Opening \/ rows[i] \in LastRows => i = Len(rows)
  BY <1>2, <1>4
<1>7. \A i \in 1 .. Len(rows) : \A s \in Sheet : rows[i] = SheetRow(s) =>
        Present(sheets[s]) /\ ask.kind \notin Listing \cup Creating
  BY <1>2, <1>5
<1>8. QED
  BY <1>1, <1>6, <1>7, BeginQueues

LEMMA BeginCreateQueues ==
  ASSUME IInv, IInv', QueueInv, NEW r \in Request, BeginCreate(r)
  PROVE  QueueInv'
<1>1. PICK b \in Batch, soni \in Soni, target \in Distribution :
        Begin(r, [kind |-> "create", batch |-> b, soni |-> soni, target |-> target, first |-> NoNumber],
              "numbers", <<PartiyaSequence, PattaSequence>>)
  BY DEF BeginCreate
<1> DEFINE ask == [kind |-> "create", batch |-> b, soni |-> soni, target |-> target, first |-> NoNumber]
           rows == <<PartiyaSequence, PattaSequence>>
<1>2. ask.kind = "create" /\ Begin(r, ask, "numbers", rows)
  BY <1>1
<1>3. Len(rows) = 2 /\ rows[1] = PartiyaSequence /\ rows[2] = PattaSequence /\ rows \in Seq(Rows)
  BY RowTypes
<1> HIDE DEF ask, rows
<1>4. \A i \in 1 .. Len(rows) :
        /\ rows[i] \in {PartiyaSequence, PattaSequence}
        /\ rows[i] = PattaSequence => i = Len(rows)
  BY <1>3, RowsDiffer
<1>5. stage'[r] = "numbers"
  BY <1>2, BeginFacts
<1>6. \A row \in {PartiyaSequence, PattaSequence} :
        /\ Wanting(r, ask, row)'
        /\ row \in LastRows => row = PattaSequence
        /\ \A s \in Sheet : row # SheetRow(s)
  BY <1>2, <1>5, RowsDiffer DEF Wanting, LastRows
<1>7. \A i \in 1 .. Len(rows) :
        /\ Wanting(r, ask, rows[i])'
        /\ rows[i] \in LastRows => i = Len(rows)
        /\ \A s \in Sheet : rows[i] # SheetRow(s)
  BY <1>4, <1>6
<1>8. "numbers" \notin Opening /\ ask.kind \notin Creating
  BY <1>2 DEF Opening, Creating
<1>9. QED
  BY <1>2, <1>3, <1>7, <1>8, BeginQueues

LEMMA BeginRegisterQueues ==
  ASSUME IInv, IInv', QueueInv, NEW r \in Request, BeginRegister(r) \/ BeginRegisterOne(r)
  PROVE  QueueInv'
<1>1. PICK ask : Begin(r, ask, "write", <<>>) /\ ask.kind \in {"register", "register_one"}
  <2>1. CASE BeginRegister(r)
    <3>1. PICK b, soni, target, sizes :
            Begin(r, [kind |-> "register", batch |-> b, soni |-> soni, target |-> target, sizes |-> sizes],
                  "write", <<>>)
      BY <2>1 DEF BeginRegister
    <3>2. QED
      BY <3>1
  <2>2. CASE BeginRegisterOne(r)
    <3>1. PICK soni, sizes : Begin(r, [kind |-> "register_one", soni |-> soni, sizes |-> sizes], "write", <<>>)
      BY <2>2 DEF BeginRegisterOne
    <3>2. QED
      BY <3>1
  <2>3. QED
    BY <2>1, <2>2
<1>2. ask.kind \notin Creating
  BY <1>1 DEF Creating
<1>3. QED
  BY <1>1, <1>2, BeginWritingQueues

LEMMA BeginCorrectQueues ==
  ASSUME IInv, IInv', QueueInv, NEW r \in Request, BeginCorrect(r) \/ BeginCorrectOffline(r)
  PROVE  QueueInv'
<1>1. PICK kind, b, soni, target, sizes, expected :
        /\ kind \in Corrections /\ b \in Batch
        /\ Begin(r, Correction(kind, b, expected, soni, target, sizes), "batch", <<BatchRow(b)>>)
  BY DEF BeginCorrect, BeginCorrectOffline, Corrections
<1> DEFINE ask == Correction(kind, b, expected, soni, target, sizes)
           row == BatchRow(b)
<1>2. /\ ask.kind = kind /\ kind \in Corrections /\ ask.batch = b
      /\ Begin(r, ask, "batch", <<row>>) /\ row \in Rows
  BY <1>1, RowTypes DEF Correction
<1>3. row = BatchRow(ask.batch)
  BY <1>2
<1> HIDE DEF ask, row
<1>4. ask.kind \notin Creating
  BY <1>2 DEF Creating, Corrections
<1>5. QED
  BY <1>2, <1>3, <1>4, BeginOpeningQueues

LEMMA BeginLegacyQueues ==
  ASSUME IInv, IInv', QueueInv, NEW r \in Request, BeginLegacy(r)
  PROVE  QueueInv'
<1>1. PICK n \in LegacyNumber, soni \in Soni, expected \in {1, 2} :
        Begin(r, [kind |-> "legacy", patta |-> n, soni |-> soni, expected |-> expected], "patta", <<PattaRow(n)>>)
  BY DEF BeginLegacy
<1> DEFINE ask == [kind |-> "legacy", patta |-> n, soni |-> soni, expected |-> expected]
           row == PattaRow(n)
<1>2. ask.kind = "legacy" /\ row = PattaRow(ask.patta) /\ Begin(r, ask, "patta", <<row>>) /\ row \in Rows
  BY <1>1, NumberFacts, RowTypes
<1> HIDE DEF ask, row
<1>3. ask.kind \notin Creating
  BY <1>2 DEF Creating
<1>4. QED
  BY <1>2, <1>3, BeginOpeningQueues

LEMMA BeginPrintQueues ==
  ASSUME IInv, IInv', QueueInv, NEW r \in Request, BeginPrint(r)
  PROVE  QueueInv'
<1>1. PICK p \in PrintEvent, b \in Batch, revision \in 1 .. MaxVersion, outcome \in PrintOutcome :
        Begin(r, [kind |-> "print", event |-> p, batch |-> b, revision |-> revision, outcome |-> outcome],
              "batch", <<BatchRow(b)>>)
  BY DEF BeginPrint
<1> DEFINE ask == [kind |-> "print", event |-> p, batch |-> b, revision |-> revision, outcome |-> outcome]
           row == BatchRow(b)
<1>2. ask.kind = "print" /\ row = BatchRow(ask.batch) /\ Begin(r, ask, "batch", <<row>>) /\ row \in Rows
  BY <1>1, RowTypes
<1> HIDE DEF ask, row
<1>3. ask.kind \notin Creating
  BY <1>2 DEF Creating
<1>4. QED
  BY <1>2, <1>3, BeginOpeningQueues

LEMMA BeginCreateLinkedQueues ==
  ASSUME IInv, IInv', QueueInv, NEW r \in Request, BeginCreateLinked(r)
  PROVE  QueueInv'
<1>1. PICK s \in Sheet, n \in Number :
        /\ FreshSheet(s)
        /\ Begin(r, [kind |-> "create_linked", sheet |-> s, patta |-> n], "patta", <<PattaRow(n)>>)
  BY DEF BeginCreateLinked
<1> DEFINE ask == [kind |-> "create_linked", sheet |-> s, patta |-> n]
           row == PattaRow(n)
<1>2. /\ ask.kind = "create_linked" /\ ask.sheet = s /\ row = PattaRow(ask.patta)
      /\ Begin(r, ask, "patta", <<row>>) /\ row \in Rows
  BY <1>1, RowTypes
<1> HIDE DEF ask, row
<1>3. \A q \in Request : NewTo(q, ask.sheet)
  BY <1>1, <1>2 DEF FreshSheet, NewTo
<1>4. QED
  BY <1>2, <1>3, BeginOpeningQueues

LEMMA BeginCreateStandaloneQueues ==
  ASSUME IInv, IInv', QueueInv, NEW r \in Request, BeginCreateStandalone(r)
  PROVE  QueueInv'
<1>1. PICK s \in Sheet, soni \in Soni :
        FreshSheet(s) /\ Begin(r, [kind |-> "create_standalone", sheet |-> s, soni |-> soni], "write", <<>>)
  BY DEF BeginCreateStandalone
<1> DEFINE ask == [kind |-> "create_standalone", sheet |-> s, soni |-> soni]
<1>2. ask.sheet = s /\ Begin(r, ask, "write", <<>>)
  BY <1>1
<1> HIDE DEF ask
<1>3. \A q \in Request : NewTo(q, ask.sheet)
  BY <1>1, <1>2 DEF FreshSheet, NewTo
<1>4. QED
  BY <1>2, <1>3, BeginWritingQueues

LEMMA OnSheetQueues ==
  ASSUME IInv, IInv', QueueInv, NEW r \in Request, NEW kind \in Changing, NEW s \in Sheet, Present(sheets[s]),
         OnSheet(r, kind, s)
  PROVE  QueueInv'
<1>1. PICK expected \in 1 .. MaxVersion - 1 :
        Begin(r, [kind |-> kind, sheet |-> s, expected |-> expected], "sheet", <<SheetRow(s)>>)
  BY DEF OnSheet
<1> DEFINE ask == [kind |-> kind, sheet |-> s, expected |-> expected]
           row == SheetRow(s)
<1>2. /\ ask.kind = kind /\ ask.sheet = s /\ row = SheetRow(ask.sheet)
      /\ Begin(r, ask, "sheet", <<row>>) /\ row \in Rows
  BY <1>1, RowTypes
<1> HIDE DEF ask, row
<1>3. ask.kind \notin Creating
  BY <1>2 DEF Creating, Changing
<1>4. QED
  BY <1>2, <1>3, BeginOpeningQueues

LEMMA BeginOnSheetQueues ==
  ASSUME IInv, IInv', QueueInv, NEW r \in Request, BeginOnSheet(r) \/ ApplyUpdateEvent(r)
  PROVE  QueueInv'
<1>1. PICK kind \in Changing, s \in Sheet : Present(sheets[s]) /\ OnSheet(r, kind, s)
  BY DEF BeginOnSheet, ApplyUpdateEvent, Changing
<1>2. QED
  BY <1>1, OnSheetQueues

LEMMA BeginEditStandaloneQueues ==
  ASSUME IInv, IInv', QueueInv, NEW r \in Request, BeginEditStandalone(r)
  PROVE  QueueInv'
<1>1. PICK s, expected :
        /\ s \in Sheet /\ Present(sheets[s])
        /\ Begin(r, [kind |-> "edit_standalone", sheet |-> s, expected |-> expected],
                 "write", <<SheetRows(s), SheetRow(s)>>)
  BY DEF BeginEditStandalone
<1> DEFINE ask == [kind |-> "edit_standalone", sheet |-> s, expected |-> expected]
           rows == <<SheetRows(s), SheetRow(s)>>
<1>2. ask.kind = "edit_standalone" /\ Begin(r, ask, "write", rows)
  BY <1>1
<1>3. Len(rows) = 2 /\ rows[1] = SheetRows(s) /\ rows[2] = SheetRow(s) /\ rows \in Seq(Rows)
  BY <1>1, RowTypes
<1> HIDE DEF ask, rows
<1>4. \A i \in 1 .. Len(rows) : rows[i] \in {SheetRows(s), SheetRow(s)}
  BY <1>3
<1>5. \A i \in 1 .. Len(rows) : \A t \in Sheet : rows[i] = SheetRow(t) => t = s
  BY <1>4, RowsDiffer
<1>6. ask.kind \in Updates /\ ask.kind \notin Listing \cup Creating
  BY <1>2 DEF Updates, Listing, Creating, Corrections
<1>7. QED
  BY <1>1, <1>2, <1>3, <1>5, <1>6, BeginQueues

-----------------------------------------------------------------------------
(* Circles of waits.                                                       *)

LEMMA InitQueues ==
  ASSUME Init
  PROVE  QueueInv
<1>1. \A r \in Request : req[r] = Idle /\ want[r] = <<>> /\ held[r] = {}
  BY DEF Init
<1>2. Idle.kind = "none"
  BY DEF Idle
<1>3. \A r \in Request : QueueOf(r, Idle)
  <2> SUFFICES ASSUME NEW r \in Request PROVE QueueOf(r, Idle)
    OBVIOUS
  <2>1. Len(want[r]) = 0 /\ held[r] = {} /\ want[r] = <<>>
    BY <1>1
  <2>2. QED
    BY <2>1 DEF QueueOf
<1>4. QED
  BY <1>1, <1>2, <1>3 DEF QueueInv, Listing, Creating, Corrections

LEMMA StutterQueues ==
  ASSUME QueueInv, UNCHANGED vars
  PROVE  QueueInv'
<1>1. /\ UNCHANGED <<batches, pattas, sheets, prints, nextPatta>> /\ UNCHANGED <<req, stage, want, held>>
  BY DEF vars, data
<1>2. \A n \in Number : Present(pattas[n]) => Present(pattas'[n]) /\ pattas'[n].batch = pattas[n].batch
  BY <1>1
<1>3. \A r \in Request : \A s : NewTo(r, s)' <=> NewTo(r, s)
  BY <1>1 DEF NewTo, Promised
<1>4. \A r \in Request : ListOf(r) => ListOf(r)'
  BY <1>1 DEF ListOf, Promised
<1>5. \A r \in Request : \A a : QueueOf(r, a) => QueueOf(r, a)'
  BY <1>1, <1>2, QueueOfOther
<1>6. Updates' = Updates /\ Listing' = Listing /\ Creating' = Creating
  BY DEF Updates, Listing, Creating, Corrections
<1>7. \A r \in Request : \A a : a = req'[r] =>
        /\ a.kind \notin Updates => QueueOf(r, a)'
        /\ a.kind \in Listing => ListOf(r)'
        /\ a.kind \in Creating => \A q \in Request : NewTo(q, a.sheet)'
  BY <1>1, <1>3, <1>4, <1>5 DEF QueueInv
<1>8. QED
  BY <1>1, <1>3, <1>6, <1>7 DEF QueueInv

LEMMA StepQueues ==
  ASSUME IInv, IInv', QueueInv, Next
  PROVE  QueueInv'
<1>1. PICK r \in Request :
         \/ BeginCreate(r) \/ BeginRegister(r) \/ BeginRegisterOne(r)
         \/ BeginCorrect(r) \/ BeginCorrectOffline(r) \/ BeginLegacy(r) \/ BeginPrint(r)
         \/ BeginCreateLinked(r) \/ BeginCreateStandalone(r)
         \/ BeginOnSheet(r) \/ ApplyUpdateEvent(r) \/ BeginEditStandalone(r)
         \/ TakeNumbers(r) \/ CorrectBatch(r) \/ CorrectEntries(r) \/ CorrectAssign(r)
         \/ AllocateCorrectionPattaNumbers(r) \/ LegacyEntries(r) \/ PrintBatch(r)
         \/ CreateLinkedPatta(r) \/ CreateLinkedPrior(r) \/ EditLinked(r) \/ EditLinkedPatta(r)
         \/ Reused(r) \/ SetTrashed(r) \/ Purge(r)
         \/ NotPermitted(r) \/ RejectSnapshots(r) \/ RejectRows(r)
         \/ Acquire(r) \/ AbortVictim(r) \/ RollBack(r) \/ Write(r)
  BY DEF Next
<1>2. CASE \/ BeginCreate(r) \/ BeginRegister(r) \/ BeginRegisterOne(r)
           \/ BeginCorrect(r) \/ BeginCorrectOffline(r) \/ BeginLegacy(r) \/ BeginPrint(r)
  BY <1>2, BeginCreateQueues, BeginRegisterQueues, BeginCorrectQueues, BeginLegacyQueues, BeginPrintQueues
<1>3. CASE \/ BeginCreateLinked(r) \/ BeginCreateStandalone(r)
           \/ BeginOnSheet(r) \/ ApplyUpdateEvent(r) \/ BeginEditStandalone(r)
  BY <1>3, BeginCreateLinkedQueues, BeginCreateStandaloneQueues, BeginOnSheetQueues, BeginEditStandaloneQueues
<1>4. CASE \/ CorrectBatch(r) \/ CorrectEntries(r) \/ CorrectAssign(r) \/ LegacyEntries(r)
           \/ CreateLinkedPatta(r) \/ EditLinked(r) \/ Purge(r)
  BY <1>4, CorrectBatchQueues, CorrectEntriesQueues, CorrectAssignQueues, LegacyEntriesQueues,
     CreateLinkedPattaQueues, EditLinkedQueues, PurgeQueues
<1>5. CASE \/ TakeNumbers(r) \/ AllocateCorrectionPattaNumbers(r) \/ PrintBatch(r)
           \/ CreateLinkedPrior(r) \/ EditLinkedPatta(r) \/ Reused(r) \/ SetTrashed(r)
           \/ NotPermitted(r) \/ RejectSnapshots(r) \/ RejectRows(r) \/ AbortVictim(r) \/ RollBack(r)
  BY <1>5, NumbersQueues, LookingQueues
<1>6. CASE Acquire(r) \/ Write(r)
  BY <1>6, AcquireQueues, WriteQueues
<1>7. QED
  BY <1>1, <1>2, <1>3, <1>4, <1>5, <1>6

\* The inductive invariant of the locks: which rows a request that is no update
\* has locked and which it waits for, by the statement it has come to.
THEOREM QueuesInvariant == Spec => [](IInv /\ QueueInv)
<1>1. Init => IInv /\ QueueInv
  BY InitIsInv, InitQueues
<1>2. IInv /\ QueueInv /\ [Next]_vars => (IInv /\ QueueInv)'
  <2>1. ASSUME IInv, QueueInv, Next PROVE IInv' /\ QueueInv'
    <3>1. IInv'
      BY <2>1, StepKeeps DEF Next
    <3>2. QED
      BY <2>1, <3>1, StepQueues
  <2>2. QED
    BY <2>1, StutterKeeps, StutterQueues
<1>3. QED
  BY <1>1, <1>2, PTL DEF Spec

\* The database aborts a request for a circle of waits only where the update of
\* a sheet takes part: every other operation locks batch, Pattas and sheets in
\* that order.
THEOREM CirclesHaveAnUpdate == Spec => []CyclesNeedAnUpdate
<1>1. IInv /\ QueueInv => CyclesNeedAnUpdate
  BY NoCircle
<1>2. QED
  BY QueuesInvariant, <1>1, PTL

-----------------------------------------------------------------------------
(* Counting.                                                               *)

\* A set numbered one to one by another has as many elements.
LEMMA SameCount ==
  ASSUME NEW S, IsFiniteSet(S), NEW T, NEW f, f \in [S -> T],
         \A x, y \in S : f[x] = f[y] => x = y, \A t \in T : \E x \in S : f[x] = t
  PROVE  IsFiniteSet(T) /\ Cardinality(T) = Cardinality(S)
<1>1. f \in Bijection(S, T)
  BY DEF Bijection, Injection, Surjection, IsInjective
<1>2. ExistsBijection(S, T)
  BY <1>1 DEF ExistsBijection
<1>3. QED
  BY <1>2, FS_Bijection

LEMMA DisjointCount ==
  ASSUME NEW S, IsFiniteSet(S), NEW T, IsFiniteSet(T), S \cap T = {}
  PROVE  /\ IsFiniteSet(S \cup T) /\ Cardinality(S \cup T) = Cardinality(S) + Cardinality(T)
         /\ Cardinality(S) \in Nat /\ Cardinality(T) \in Nat
BY FS_Union, FS_EmptySet, FS_CardinalityType

\* The places of a distribution, in their order.
LEMMA PlaceOrderTotal ==
  ASSUME NEW count \in [Razmer -> Int]
  PROVE  TotalOrder(Places(count), PlaceOrder(Places(count)))
<1> DEFINE places == Places(count)
           order == PlaceOrder(places)
<1>1. \A p \in places : p = <<p[1], p[2]>> /\ p[1] \in Razmer /\ p[1] \in Nat /\ p[2] \in Int
  BY PlaceFacts, DocumentsAssumption
<1>2. \A p, q \in places : <<p, q>> \in order <=> p[1] < q[1] \/ (p[1] = q[1] /\ p[2] <= q[2])
  BY DEF PlaceOrder
<1> HIDE DEF places, order
<1>3. \A p, q \in places : <<p, q>> \in order /\ <<q, p>> \in order => p = q
  BY <1>1, <1>2
<1>4. ASSUME NEW p \in places, NEW q \in places PROVE <<p, q>> \in order \/ <<q, p>> \in order
  <2>1. p[1] \in Nat /\ q[1] \in Nat /\ p[2] \in Int /\ q[2] \in Int
    BY <1>1
  <2>2. QED
    BY <2>1, <1>2
<1>5. \A p, q, s \in places : <<p, q>> \in order /\ <<q, s>> \in order => <<p, s>> \in order
  BY <1>1, <1>2
<1>6. \A p \in places : <<p, p>> \in order
  BY <1>1, <1>2
<1>7. TotalOrder(places, order)
  BY <1>3, <1>4, <1>5, <1>6 DEF TotalOrder
<1>8. QED
  BY <1>7 DEF places, order

\* A distribution has as many slots of a size as it asks for.
LEMMA SlotsCount ==
  ASSUME NEW count \in [Razmer -> Nat], NEW z \in Razmer
  PROVE  /\ IsFiniteSet({i \in 1 .. Len(Slots(count)) : Slots(count)[i] = z})
         /\ Cardinality({i \in 1 .. Len(Slots(count)) : Slots(count)[i] = z}) = count[z]
<1> DEFINE places == Places(count)
           k == Cardinality(places)
           f == InOrder(places, PlaceOrder(places))
           T == {i \in 1 .. k : f[i][1] = z}
           place == [j \in 1 .. count[z] |-> CHOOSE i \in 1 .. k : f[i] = <<z, j>>]
<1>1. count \in [Razmer -> Int]
  OBVIOUS
<1>2. /\ f \in [1 .. k -> places] /\ k \in Nat
      /\ \A i, j \in 1 .. k : i # j => f[i] # f[j]
      /\ \A p \in places : \E i \in 1 .. k : f[i] = p
  BY <1>1, PlacesFinite, PlaceOrderTotal, InOrderFacts
<1>3. Len(Slots(count)) = k /\ \A i \in 1 .. k : Slots(count)[i] = f[i][1]
  BY <1>1, SlotsFacts DEF Slots
<1> HIDE DEF f, k
<1>4. ASSUME NEW j \in 1 .. count[z] PROVE place[j] \in 1 .. k /\ f[place[j]] = <<z, j>>
  <2>1. <<z, j>> \in places
    BY <1>1, PlaceFacts
  <2>2. QED
    BY <1>2, <2>1
<1>5. ASSUME NEW j \in 1 .. count[z] PROVE place[j] \in T
  <2>1. place[j] \in 1 .. k /\ f[place[j]] = <<z, j>>
    BY <1>4
  <2> HIDE DEF place
  <2>2. f[place[j]][1] = z
    BY <2>1
  <2>3. QED
    BY <2>1, <2>2
<1>6. \A i, j \in 1 .. count[z] : place[i] = place[j] => i = j
  <2> SUFFICES ASSUME NEW i \in 1 .. count[z], NEW j \in 1 .. count[z], place[i] = place[j] PROVE i = j
    OBVIOUS
  <2>1. <<z, i>> = <<z, j>>
    BY <1>4
  <2>2. QED
    BY <2>1
<1>7. ASSUME NEW i \in T PROVE \E j \in 1 .. count[z] : place[j] = i
  <2>1. f[i] \in places /\ f[i][1] = z
    BY <1>2
  <2>2. PICK j \in 1 .. count[z] : f[i] = <<z, j>>
    BY <1>1, <2>1, PlaceFacts
  <2>3. f[place[j]] = f[i] /\ place[j] \in 1 .. k
    BY <1>4, <2>2
  <2>4. place[j] = i
    BY <1>2, <2>3
  <2>5. QED
    BY <2>4
<1>8. place \in [1 .. count[z] -> T]
  <2> DEFINE at(j) == CHOOSE i \in 1 .. k : f[i] = <<z, j>>
  <2>1. \A j \in 1 .. count[z] : at(j) \in T
    BY <1>5
  <2> HIDE DEF at, T
  <2>2. [j \in 1 .. count[z] |-> at(j)] \in [1 .. count[z] -> T]
    BY <2>1
  <2>3. QED
    BY <2>2 DEF at
<1>9. count[z] \in Nat /\ IsFiniteSet(1 .. count[z]) /\ Cardinality(1 .. count[z]) = count[z]
  <2>1. count[z] \in Nat
    OBVIOUS
  <2>2. QED
    BY <2>1, 1 \in Int, FS_Interval
<1> HIDE DEF place, T
<1>10. IsFiniteSet(T) /\ Cardinality(T) = count[z]
  BY <1>6, <1>7, <1>8, <1>9, SameCount
<1>11. T = {i \in 1 .. Len(Slots(count)) : Slots(count)[i] = z}
  BY <1>3 DEF T
<1>12. QED
  BY <1>10, <1>11

KeptAt(sizes, target, z) == {n \in Kept(sizes, target) : sizes[n] = z}

\* No more Pattas keep a size than the distribution asks for.
LEMMA KeptCount ==
  ASSUME NEW D, IsFiniteSet(D), D \subseteq Nat, NEW sizes \in [D -> Razmer], NEW target \in [Razmer -> Nat],
         NEW z \in Razmer
  PROVE  /\ IsFiniteSet(KeptAt(sizes, target, z)) /\ Cardinality(KeptAt(sizes, target, z)) \in Nat
         /\ Cardinality(KeptAt(sizes, target, z)) <= target[z]
<1> DEFINE S == {n \in D : sizes[n] = z}
           order == {p \in S \X S : p[1] <= p[2]}
           rank(n) == Cardinality(NotAfter(S, order, n))
           kept == KeptAt(sizes, target, z)
<1>1. S \in SUBSET D
  OBVIOUS
<1>2. IsFiniteSet(S) /\ S \subseteq Nat
  BY <1>1, FS_Subset
<1>3. \A x, y \in S : <<x, y>> \in order <=> x <= y
  OBVIOUS
<1>4. TotalOrder(S, order)
  <2> HIDE DEF order, S
  <2> QED
    BY <1>2, <1>3 DEF TotalOrder
<1>5. ASSUME NEW n \in kept PROVE n \in S /\ rank(n) \in 1 .. target[z]
  <2>1. n \in S /\ Cardinality({m \in DOMAIN sizes : m <= n /\ sizes[m] = sizes[n]}) <= target[z]
    BY DEF Kept, KeptAt
  <2>2. {m \in DOMAIN sizes : m <= n /\ sizes[m] = sizes[n]} = NotAfter(S, order, n)
    <3>1. \A m : m \in {x \in DOMAIN sizes : x <= n /\ sizes[x] = sizes[n]} <=> m \in S /\ m <= n
      BY <2>1
    <3> HIDE DEF order, S
    <3>2. \A m : m \in NotAfter(S, order, n) <=> m \in S /\ m <= n
      BY <1>3, <2>1 DEF NotAfter
    <3>3. QED
      BY <3>1, <3>2
  <2> HIDE DEF order, S
  <2>3. NotAfter(S, order, n) \in SUBSET S /\ n \in NotAfter(S, order, n)
    BY <1>4, <2>1 DEF NotAfter, TotalOrder
  <2>4. rank(n) \in Nat /\ rank(n) # 0
    BY <1>2, <2>3, FS_Subset, FS_CardinalityType, FS_EmptySet
  <2>5. rank(n) <= target[z]
    BY <2>1, <2>2
  <2>6. target[z] \in Nat
    OBVIOUS
  <2> HIDE DEF rank
  <2>7. rank(n) \in 1 .. target[z]
    BY <2>4, <2>5, <2>6
  <2>8. QED
    BY <2>1, <2>7 DEF S
<1> DEFINE f == [n \in kept |-> rank(n)]
<1>6. ASSUME NEW x \in kept, NEW y \in kept, x # y PROVE f[x] # f[y]
  <2>1. x \in S /\ y \in S /\ (<<x, y>> \in order \/ <<y, x>> \in order)
    BY <1>4, <1>5 DEF TotalOrder
  <2>2. rank(x) \in Nat /\ rank(y) \in Nat
    BY <1>5
  <2> HIDE DEF order, S, kept
  <2>3. rank(x) < rank(y) \/ rank(y) < rank(x)
    BY <1>2, <1>4, <1>6, <2>1, RanksDiffer
  <2>4. rank(x) # rank(y)
    <3> HIDE DEF rank
    <3> QED
      BY <2>2, <2>3
  <2>5. QED
    BY <2>4
<1>7. f \in Injection(kept, 1 .. target[z])
  <2>1. \A n \in kept : rank(n) \in 1 .. target[z]
    BY <1>5
  <2>2. \A x, y \in kept : f[x] = f[y] => x = y
    BY <1>6
  <2> HIDE DEF rank, kept
  <2>3. f \in [kept -> 1 .. target[z]]
    BY <2>1
  <2>4. QED
    BY <2>2, <2>3 DEF Injection, IsInjective
<1>8. target[z] \in Nat /\ IsFiniteSet(1 .. target[z]) /\ Cardinality(1 .. target[z]) = target[z]
  <2>1. target[z] \in Nat
    OBVIOUS
  <2>2. QED
    BY <2>1, 1 \in Int, FS_Interval
<1> HIDE DEF f, kept
<1>9. IsFiniteSet(kept) /\ Cardinality(kept) <= target[z]
  BY <1>7, <1>8, FS_Injection
<1>10. QED
  BY <1>9, FS_CardinalityType DEF kept

LEMMA CountOfFacts ==
  ASSUME NEW D, IsFiniteSet(D), NEW sizes, D = DOMAIN sizes, NEW z
  PROVE  /\ IsFiniteSet({n \in D : sizes[n] = z}) /\ CountOf(sizes, z) = Cardinality({n \in D : sizes[n] = z})
         /\ CountOf(sizes, z) \in Nat
<1>1. {n \in D : sizes[n] = z} \in SUBSET D
  OBVIOUS
<1>2. IsFiniteSet({n \in D : sizes[n] = z})
  BY <1>1, FS_Subset
<1>3. QED
  BY <1>2, FS_CardinalityType DEF CountOf

\* What is left of a distribution when the Pattas that keep their size are taken out.
LEMMA LeftToAssign ==
  ASSUME NEW D, IsFiniteSet(D), D \subseteq Nat, NEW sizes \in [D -> Razmer], NEW target \in [Razmer -> Nat],
         NEW count, \A y \in Razmer : count[y] = target[y] - Cardinality(KeptAt(sizes, target, y))
  PROVE  \A y \in Razmer :
           /\ IsFiniteSet(KeptAt(sizes, target, y)) /\ Cardinality(KeptAt(sizes, target, y)) \in Nat
           /\ count[y] \in Nat /\ count[y] + Cardinality(KeptAt(sizes, target, y)) = target[y]
<1>1. ASSUME NEW y \in Razmer
      PROVE  /\ IsFiniteSet(KeptAt(sizes, target, y)) /\ Cardinality(KeptAt(sizes, target, y)) \in Nat
             /\ count[y] \in Nat /\ count[y] + Cardinality(KeptAt(sizes, target, y)) = target[y]
  <2>1. /\ IsFiniteSet(KeptAt(sizes, target, y)) /\ Cardinality(KeptAt(sizes, target, y)) \in Nat
        /\ Cardinality(KeptAt(sizes, target, y)) <= target[y]
    BY KeptCount
  <2>2. count[y] = target[y] - Cardinality(KeptAt(sizes, target, y)) /\ target[y] \in Nat
    OBVIOUS
  <2>3. QED
    BY <2>1, <2>2
<1>2. QED
  BY <1>1

\* The Pattas that have the size z after the moves of a plan.
LeftWith(left, D, sizes, plan, z) ==
  /\ left \in SUBSET D
  /\ \A n \in D : n \in left <=>
       n \notin plan.surplus /\ (IF n \in DOMAIN plan.moves THEN plan.moves[n] = z ELSE sizes[n] = z)

AddUp(m, n, total) == m + n = total

\* The Pattas that a correction leaves, with the sizes it gives them, and those
\* it asks for are distributed as it says.
LEMMA AssignmentCount ==
  ASSUME NEW D, IsFiniteSet(D), D \subseteq Nat, NEW sizes \in [D -> Razmer], NEW target \in [Razmer -> Nat],
         NEW plan, plan = Assignment(sizes, target), NEW z \in Razmer, NEW left, LeftWith(left, D, sizes, plan, z)
  PROVE  /\ IsFiniteSet(left) /\ Cardinality(left) \in Nat /\ CountOf(plan.deficits, z) \in Nat
         /\ AddUp(Cardinality(left), CountOf(plan.deficits, z), target[z])
<1> DEFINE keptAt(y) == KeptAt(sizes, target, y)
           count == [y \in Razmer |-> target[y] - Cardinality(keptAt(y))]
<1>3. /\ \A y \in Razmer : IsFiniteSet(keptAt(y)) /\ Cardinality(keptAt(y)) \in Nat /\ count[y] \in Nat
                           /\ count[y] + Cardinality(keptAt(y)) = target[y]
      /\ count \in [Razmer -> Nat]
  <2>1. \A y \in Razmer : count[y] = target[y] - Cardinality(KeptAt(sizes, target, y))
    OBVIOUS
  <2>2. count = [y \in Razmer |-> count[y]]
    OBVIOUS
  <2> HIDE DEF count
  <2>3. \A y \in Razmer : IsFiniteSet(keptAt(y)) /\ Cardinality(keptAt(y)) \in Nat /\ count[y] \in Nat
                           /\ count[y] + Cardinality(keptAt(y)) = target[y]
    BY <2>1, LeftToAssign
  <2>4. QED
    BY <2>2, <2>3
<1> DEFINE kept == Kept(sizes, target)
           rest == DOMAIN sizes \ kept
           unmatched == InNumberOrder(rest)
           open == Slots(count)
           k == Cardinality(rest)
           m == Len(open)
           moved == IF k <= m THEN k ELSE m
<1>1. kept \subseteq D /\ DOMAIN sizes = D /\ rest \subseteq D
  BY DEF Kept
<1>2. /\ k \in Nat /\ unmatched \in [1 .. k -> rest] /\ Len(unmatched) = k
      /\ \A i, j \in 1 .. k : i # j => unmatched[i] # unmatched[j]
      /\ \A n \in rest : \E i \in 1 .. k : unmatched[i] = n
  <2>1. IsFiniteSet(rest) /\ rest \subseteq Nat
    BY FS_Difference
  <2>2. /\ k \in Nat /\ unmatched \in [1 .. k -> rest]
        /\ \A i, j \in 1 .. k : i # j => unmatched[i] # unmatched[j]
        /\ \A n \in rest : \E i \in 1 .. k : unmatched[i] = n
    BY <2>1, NumberOrderFacts
  <2>3. Len(unmatched) = k
    BY <2>2
  <2>4. QED
    BY <2>2, <2>3
<1>4. count \in [Razmer -> Nat] /\ count \in [Razmer -> Int]
  <2> HIDE DEF count
  <2> QED
    BY <1>3
<1>5. m \in Nat /\ open \in [1 .. m -> Razmer] /\ open \in Seq(Razmer)
  BY <1>4, SlotsFacts
<1>6. /\ IsFiniteSet({i \in 1 .. m : open[i] = z}) /\ Cardinality({i \in 1 .. m : open[i] = z}) = count[z]
  BY <1>4, SlotsCount
<1>7. /\ plan.moves = [n \in {unmatched[i] : i \in 1 .. moved} |->
                         open[CHOOSE i \in 1 .. moved : unmatched[i] = n]]
      /\ plan.surplus = {unmatched[i] : i \in (moved + 1) .. k}
      /\ plan.deficits = SubSeq(open, moved + 1, m)
  <2> DEFINE least == IF Len(unmatched) <= Len(open) THEN Len(unmatched) ELSE Len(open)
             missing == SubSeq(open, least + 1, Len(open))
  <2>1. plan = [moves    |-> [n \in {unmatched[i] : i \in 1 .. least} |->
                                open[CHOOSE i \in 1 .. least : unmatched[i] = n]],
                surplus  |-> {unmatched[i] : i \in (least + 1) .. Len(unmatched)},
                deficits |-> missing]
    BY DEF Assignment, KeptAt
  <2> HIDE DEF unmatched, open, kept
  <2>2. least = moved
    BY <1>2
  <2> HIDE DEF least, k, m, missing
  <2>3. plan.moves = [n \in {unmatched[i] : i \in 1 .. least} |-> open[CHOOSE i \in 1 .. least : unmatched[i] = n]]
    BY <2>1
  <2>4. plan.surplus = {unmatched[i] : i \in (least + 1) .. Len(unmatched)}
    BY <2>1
  <2>5. plan.deficits = missing
    BY <2>1
  <2>6. QED
    BY <1>2, <2>2, <2>3, <2>4, <2>5 DEF missing, m
<1> HIDE DEF kept, keptAt, rest, unmatched, count, open, k, m
<1>8. moved \in Nat /\ moved <= k /\ moved <= m
  BY <1>2, <1>5
<1> HIDE DEF moved
<1> DEFINE given == {i \in 1 .. moved : open[i] = z}
           missing == {i \in (moved + 1) .. m : open[i] = z}
           movers == {n \in DOMAIN plan.moves : plan.moves[n] = z}
<1>9. /\ IsFiniteSet(given) /\ IsFiniteSet(missing) /\ Cardinality(given) \in Nat /\ Cardinality(missing) \in Nat
      /\ Cardinality(given) + Cardinality(missing) = count[z]
  <2>1. given \in SUBSET {i \in 1 .. m : open[i] = z} /\ missing \in SUBSET {i \in 1 .. m : open[i] = z}
    BY <1>5, <1>8
  <2>2. IsFiniteSet(given) /\ IsFiniteSet(missing)
    BY <1>6, <2>1, FS_Subset
  <2>3. given \cap missing = {} /\ given \cup missing = {i \in 1 .. m : open[i] = z}
    BY <1>5, <1>8
  <2> HIDE DEF given, missing
  <2>4. QED
    BY <1>6, <2>2, <2>3, DisjointCount
<1>10. /\ DOMAIN plan.moves = {unmatched[i] : i \in 1 .. moved}
       /\ \A i \in 1 .. moved : plan.moves[unmatched[i]] = open[i]
  <2>1. DOMAIN plan.moves = {unmatched[i] : i \in 1 .. moved}
    BY <1>7
  <2>2. ASSUME NEW i \in 1 .. moved PROVE plan.moves[unmatched[i]] = open[i]
    <3> DEFINE size(n) == open[CHOOSE j \in 1 .. moved : unmatched[j] = n]
    <3>1. plan.moves[unmatched[i]] = size(unmatched[i])
      <4>1. unmatched[i] \in {unmatched[j] : j \in 1 .. moved}
        OBVIOUS
      <4>2. plan.moves = [n \in {unmatched[j] : j \in 1 .. moved} |-> size(n)]
        BY <1>7
      <4> HIDE DEF size
      <4>3. QED
        BY <4>1, <4>2
    <3>2. \A j \in 1 .. moved : unmatched[j] = unmatched[i] => j = i
      BY <1>2, <1>8
    <3>3. (CHOOSE j \in 1 .. moved : unmatched[j] = unmatched[i]) = i
      BY <3>2
    <3>4. QED
      BY <3>1, <3>3
  <2>3. QED
    BY <2>1, <2>2
<1>11. IsFiniteSet(movers) /\ Cardinality(movers) = Cardinality(given)
  <2> DEFINE f == [i \in given |-> unmatched[i]]
  <2>1. \A i \in given : f[i] \in movers
    BY <1>10
  <2>2. \A i, j \in given : f[i] = f[j] => i = j
    <3>1. \A i \in given : f[i] = unmatched[i] /\ i \in 1 .. k
      BY <1>2, <1>8
    <3> HIDE DEF f, given
    <3>2. QED
      BY <1>2, <3>1
  <2>3. \A n \in movers : \E i \in given : f[i] = n
    BY <1>10
  <2>4. f \in [given -> movers]
    <3>1. f = [i \in given |-> f[i]]
      OBVIOUS
    <3> HIDE DEF f, given, movers
    <3>2. QED
      BY <2>1, <3>1
  <2> HIDE DEF f, given, movers
  <2>5. QED
    BY <1>9, <2>2, <2>3, <2>4, SameCount
<1>12. CountOf(plan.deficits, z) = Cardinality(missing)
  <2> DEFINE T == {i \in DOMAIN plan.deficits : plan.deficits[i] = z}
             f == [i \in missing |-> i - moved]
  <2>1. /\ DOMAIN plan.deficits = 1 .. (m - moved)
        /\ \A i \in 1 .. (m - moved) : plan.deficits[i] = open[i + moved]
    BY <1>5, <1>7, <1>8
  <2>2. \A i \in missing : f[i] \in T
    <3> SUFFICES ASSUME NEW i \in missing PROVE i - moved \in T
      OBVIOUS
    <3>1. i - moved \in 1 .. (m - moved) /\ (i - moved) + moved = i
      BY <1>5, <1>8
    <3>2. QED
      BY <2>1, <3>1
  <2>3. \A i, j \in missing : f[i] = f[j] => i = j
    BY <1>5, <1>8
  <2>4. \A t \in T : \E i \in missing : f[i] = t
    <3> SUFFICES ASSUME NEW t \in T PROVE \E i \in missing : f[i] = t
      OBVIOUS
    <3>1. t \in 1 .. (m - moved) /\ open[t + moved] = z
      BY <2>1
    <3>2. t + moved \in (moved + 1) .. m /\ (t + moved) - moved = t
      BY <1>5, <1>8, <3>1
    <3>3. t + moved \in missing
      BY <3>1, <3>2
    <3>4. QED
      BY <3>2, <3>3
  <2>5. f \in [missing -> T]
    <3>1. f = [i \in missing |-> f[i]]
      OBVIOUS
    <3> HIDE DEF f, missing, T
    <3>2. QED
      BY <2>2, <3>1
  <2> HIDE DEF f, missing
  <2>6. Cardinality(T) = Cardinality(missing)
    <3> HIDE DEF T
    <3> QED
      BY <1>9, <2>3, <2>4, <2>5, SameCount
  <2>7. QED
    BY <2>6 DEF CountOf
<1>13. left = keptAt(z) \cup movers /\ keptAt(z) \cap movers = {}
  <2>1. \A n \in D : n \notin plan.surplus /\ n \notin DOMAIN plan.moves <=> n \in kept
    <3> SUFFICES ASSUME NEW n \in D PROVE n \notin plan.surplus /\ n \notin DOMAIN plan.moves <=> n \in kept
      OBVIOUS
    <3>1. CASE n \in kept
      <4>1. n \notin rest
        BY <3>1 DEF rest
      <4>2. \A i \in 1 .. k : unmatched[i] # n
        BY <1>2, <4>1
      <4>3. QED
        BY <1>2, <1>7, <1>8, <1>10, <3>1, <4>2
    <3>2. CASE n \notin kept
      <4>1. n \in rest
        BY <1>1, <3>2 DEF rest
      <4>2. PICK i \in 1 .. k : unmatched[i] = n
        BY <1>2, <4>1
      <4>3. i \in 1 .. moved \/ i \in (moved + 1) .. k
        BY <1>2, <1>8
      <4>4. QED
        BY <1>7, <1>10, <3>2, <4>2, <4>3
    <3>3. QED
      BY <3>1, <3>2
  <2>2. DOMAIN plan.moves \subseteq D /\ DOMAIN plan.moves \cap plan.surplus = {}
    <3>1. \A i \in 1 .. k : unmatched[i] \in D
      BY <1>1, <1>2
    <3>2. \A i \in 1 .. moved : i \in 1 .. k
      BY <1>2, <1>8
    <3>3. DOMAIN plan.moves \subseteq D
      BY <1>10, <3>1, <3>2
    <3>4. \A i \in 1 .. moved : \A j \in (moved + 1) .. k : unmatched[i] # unmatched[j]
      BY <1>2, <1>8
    <3>5. QED
      BY <1>7, <1>10, <3>3, <3>4
  <2>3. \A n : n \in left <=> n \in keptAt(z) \/ n \in movers
    BY <1>1, <2>1, <2>2 DEF keptAt, KeptAt, kept, LeftWith
  <2>4. keptAt(z) \cap movers = {}
    BY <1>1, <2>1 DEF keptAt, KeptAt, kept
  <2> HIDE DEF movers
  <2>5. QED
    BY <2>3, <2>4
<1>14. IsFiniteSet(left) /\ Cardinality(left) = Cardinality(keptAt(z)) + Cardinality(movers)
  <2>1. IsFiniteSet(keptAt(z))
    BY <1>3
  <2> HIDE DEF movers
  <2> HIDE DEF keptAt
  <2>2. /\ IsFiniteSet(keptAt(z) \cup movers)
        /\ Cardinality(keptAt(z) \cup movers) = Cardinality(keptAt(z)) + Cardinality(movers)
    BY <1>11, <1>13, <2>1, DisjointCount
  <2>3. QED
    BY <1>13, <2>2
<1>15. Cardinality(keptAt(z)) \in Nat /\ count[z] + Cardinality(keptAt(z)) = target[z] /\ count[z] \in Nat
  BY <1>3
<1> HIDE DEF given, missing, movers
<1>16. Cardinality(left) + CountOf(plan.deficits, z) = target[z]
  BY <1>9, <1>11, <1>12, <1>14, <1>15
<1>17. QED
  BY <1>9, <1>11, <1>12, <1>14, <1>15, <1>16 DEF AddUp

\* New Pattas take the sizes of the slots, in order.
LEMMA NextNumbersCount ==
  ASSUME NEW first \in Nat, NEW slots \in Seq(Razmer), NEW z
  PROVE  CountOf(NextNumbers(first, slots), z) = CountOf(slots, z)
<1> DEFINE k == Len(slots)
           new == NextNumbers(first, slots)
           S == {i \in 1 .. k : slots[i] = z}
           T == {n \in DOMAIN new : new[n] = z}
           f == [i \in S |-> first + i - 1]
<1>1. k \in Nat /\ DOMAIN slots = 1 .. k
  OBVIOUS
<1>2. /\ DOMAIN new = first .. (first + k - 1)
      /\ \A n \in first .. (first + k - 1) : new[n] = slots[n - first + 1]
  BY DEF NextNumbers
<1> HIDE DEF new, k
<1>3. \A i \in S : f[i] \in T
  <2> SUFFICES ASSUME NEW i \in S PROVE first + i - 1 \in T
    OBVIOUS
  <2>1. first + i - 1 \in first .. (first + k - 1) /\ (first + i - 1) - first + 1 = i
    BY <1>1
  <2>2. QED
    BY <1>2, <2>1
<1>4. \A i, j \in S : f[i] = f[j] => i = j
  BY <1>1
<1>5. \A t \in T : \E i \in S : f[i] = t
  <2> SUFFICES ASSUME NEW t \in T PROVE \E i \in S : f[i] = t
    OBVIOUS
  <2>1. t \in first .. (first + k - 1) /\ slots[t - first + 1] = z
    BY <1>2
  <2>2. t - first + 1 \in 1 .. k /\ first + (t - first + 1) - 1 = t
    BY <1>1, <2>1
  <2>3. t - first + 1 \in S
    BY <2>1, <2>2
  <2>4. QED
    BY <2>2, <2>3
<1>6. f \in [S -> T]
  <2>1. f = [i \in S |-> f[i]]
    OBVIOUS
  <2> HIDE DEF f, S, T
  <2>2. QED
    BY <1>3, <2>1
<1>7. IsFiniteSet(S)
  <2>1. IsFiniteSet(1 .. k)
    BY <1>1, 1 \in Int, FS_Interval
  <2>2. S \in SUBSET (1 .. k)
    OBVIOUS
  <2>3. QED
    BY <2>1, <2>2, FS_Subset
<1>8. Cardinality(T) = Cardinality(S)
  <2> HIDE DEF f, S, T
  <2> QED
    BY <1>4, <1>5, <1>6, <1>7, SameCount
<1>9. QED
  BY <1>1, <1>8 DEF CountOf, new

\* Pattas distributed over the sizes are as many as the places.
LEMMA TotalCount ==
  ASSUME NEW D, IsFiniteSet(D), NEW sizes \in [D -> Razmer], NEW target \in [Razmer -> Nat],
         \A z \in Razmer : CountOf(sizes, z) = target[z]
  PROVE  Cardinality(D) = Cardinality(Places(target))
<1> DEFINE places == Places(target)
           at(z) == {n \in D : sizes[n] = z}
           numbering(z) == CHOOSE g : g \in Bijection(1 .. target[z], at(z))
           f == [p \in places |-> numbering(p[1])[p[2]]]
<1>1. target \in [Razmer -> Int]
  OBVIOUS
<1>2. \A p : p \in places <=> \E z \in Razmer : \E j \in 1 .. target[z] : p = <<z, j>>
  BY <1>1, PlaceFacts
<1>3. ASSUME NEW z \in Razmer
      PROVE  /\ numbering(z) \in [1 .. target[z] -> at(z)]
             /\ \A i, j \in 1 .. target[z] : numbering(z)[i] = numbering(z)[j] => i = j
             /\ \A n \in at(z) : \E j \in 1 .. target[z] : numbering(z)[j] = n
  <2>1. IsFiniteSet(at(z)) /\ Cardinality(at(z)) = target[z]
    BY CountOfFacts
  <2>2. ExistsBijection(1 .. target[z], at(z))
    BY <2>1, FS_CardinalityType
  <2> HIDE DEF at
  <2>3. \E g : g \in Bijection(1 .. target[z], at(z))
    BY <2>2 DEF ExistsBijection
  <2>4. numbering(z) \in Bijection(1 .. target[z], at(z))
    BY <2>3
  <2> HIDE DEF numbering
  <2>5. QED
    BY <2>4 DEF Bijection, Injection, Surjection, IsInjective
<1> HIDE DEF numbering
<1>4. ASSUME NEW z \in Razmer, NEW j \in 1 .. target[z]
      PROVE  <<z, j>> \in places /\ f[<<z, j>>] = numbering(z)[j] /\ f[<<z, j>>] \in D /\ sizes[f[<<z, j>>]] = z
  <2>1. <<z, j>> \in places
    BY <1>2
  <2>2. f[<<z, j>>] = numbering(z)[j]
    BY <2>1
  <2>3. numbering(z)[j] \in at(z)
    BY <1>3
  <2>4. QED
    BY <2>1, <2>2, <2>3
<1> HIDE DEF f, places
<1>5. \A p \in places : f[p] \in D
  BY <1>2, <1>4
<1>6. ASSUME NEW p \in places, NEW q \in places, f[p] = f[q] PROVE p = q
  <2>1. PICK y \in Razmer : \E i \in 1 .. target[y] : p = <<y, i>>
    BY <1>2
  <2>2. PICK i \in 1 .. target[y] : p = <<y, i>>
    BY <2>1
  <2>3. PICK z \in Razmer : \E j \in 1 .. target[z] : q = <<z, j>>
    BY <1>2
  <2>4. PICK j \in 1 .. target[z] : q = <<z, j>>
    BY <2>3
  <2>5. y = z
    BY <1>4, <1>6, <2>2, <2>4
  <2>6. i = j
    BY <1>3, <1>4, <1>6, <2>2, <2>4, <2>5
  <2>7. QED
    BY <2>2, <2>4, <2>5, <2>6
<1>7. ASSUME NEW n \in D PROVE \E p \in places : f[p] = n
  <2>1. sizes[n] \in Razmer /\ n \in at(sizes[n])
    OBVIOUS
  <2>2. PICK j \in 1 .. target[sizes[n]] : numbering(sizes[n])[j] = n
    BY <1>3, <2>1
  <2>3. <<sizes[n], j>> \in places /\ f[<<sizes[n], j>>] = n
    BY <1>4, <2>1, <2>2
  <2>4. QED
    BY <2>3
<1>8. f \in [places -> D]
  BY <1>5 DEF f
<1>9. IsFiniteSet(places)
  BY <1>1, PlacesFinite DEF places
<1>10. QED
  BY <1>6, <1>7, <1>8, <1>9, SameCount DEF places

-----------------------------------------------------------------------------
(* The distribution of a batch.                                            *)

\* The ACTIVE Pattas of a batch in a table, and those of one size.
ActiveIn(ps, b) == {n \in Number : Present(ps[n]) /\ ps[n].batch = b /\ ps[n].status = "ACTIVE"}
SizedIn(ps, b, z) == {n \in ActiveIn(ps, b) : ps[n].razmer = z}

DistributedIn(bs, ps) ==
  \A b \in Batch : Present(bs[b]) =>
    /\ \A z \in Razmer : Cardinality(SizedIn(ps, b, z)) = bs[b].target[z]
    /\ \A n \in ActiveIn(ps, b) : ps[n].soni = bs[b].soni

LEMMA DistributionIsIn == DistributionHolds <=> DistributedIn(batches, pattas)
<1>1. \A b : ActiveIn(pattas, b) = Active(b)
  BY DEF ActiveIn, Active
<1>2. \A b, z : CountOf(SizesOf(b), z) = Cardinality(SizedIn(pattas, b, z))
  <2> SUFFICES ASSUME NEW b, NEW z PROVE CountOf(SizesOf(b), z) = Cardinality(SizedIn(pattas, b, z))
    OBVIOUS
  <2>1. DOMAIN SizesOf(b) = Active(b) /\ \A n \in Active(b) : SizesOf(b)[n] = pattas[n].razmer
    BY DEF SizesOf
  <2>2. {n \in DOMAIN SizesOf(b) : SizesOf(b)[n] = z} = SizedIn(pattas, b, z)
    BY <1>1, <2>1 DEF SizedIn
  <2>3. QED
    BY <2>2 DEF CountOf
<1>3. QED
  BY <1>1, <1>2 DEF DistributionHolds, DistributedIn, Present

LEMMA DistributionIsInAfter ==
  ASSUME NEW bs, NEW ps, bs = batches', ps = pattas', DistributedIn(bs, ps)
  PROVE  DistributionHolds'
<1>1. (DistributionHolds <=> DistributedIn(batches, pattas))'
  BY DistributionIsIn, PTL
<1>2. DistributedIn(batches, pattas)'
  BY DEF DistributedIn, ActiveIn, SizedIn
<1>3. QED
  BY <1>1, <1>2

\* What is known of a request that writes.
LEMMA WritingFacts ==
  ASSUME ServiceInv, NEW r \in Request, Writing(r), NEW a, a = req[r]
  PROVE  /\ Sound /\ TablesTyped /\ a.kind \notin {"none", "reuse"}
         /\ stage[r] = "write" /\ want[r] = <<>> /\ Promised(r) = held[r]
         /\ AskInv(a) /\ LockOf(r, a) /\ FoundOf(r, a) /\ CountedOf(r, a) /\ CheckedOf(r, a) /\ TimesOf(r, a)
<1>1. IInv /\ CheckInv
  BY DEF ServiceInv
<1>2. Sound /\ Standing(r, a) /\ (a.kind = "none" <=> a = Idle)
  BY <1>1, IInvFacts
<1>3. a # Idle /\ stage[r] = "write" /\ want[r] = <<>> /\ Promised(r) = held[r]
  BY DEF Writing, Promised
<1>4. CountedOf(r, a) /\ CheckedOf(r, a) /\ TimesOf(r, a)
  BY <1>1 DEF CheckInv
<1>5. a.kind # "reuse"
  BY <1>2, <1>3 DEF Standing, FoundOf
<1>6. QED
  BY <1>2, <1>3, <1>4, <1>5 DEF Standing, Sound

\* The next numbers of the sequence are free.
LEMMA NextNumbersFree ==
  ASSUME TablesTyped, SequenceIsAhead, NEW first \in Nat, NEW slots \in Seq(Razmer),
         slots = <<>> \/ (first = nextPatta /\ first + Len(slots) <= MaxNumber)
  PROVE  /\ DOMAIN NextNumbers(first, slots) \subseteq 1 .. MaxNumber
         /\ \A n \in DOMAIN NextNumbers(first, slots) :
              pattas[n] = Absent /\ NextNumbers(first, slots)[n] \in Razmer
<1>1. nextPatta \in Nat \ {0} /\ MaxNumber \in Nat /\ Len(slots) \in Nat /\ (slots = <<>> => Len(slots) = 0)
  BY NumberFacts DEF TablesTyped
<1>2. DOMAIN NextNumbers(first, slots) = first .. (first + Len(slots) - 1)
  BY DEF NextNumbers
<1>3. \A n \in DOMAIN NextNumbers(first, slots) : n \in 1 .. MaxNumber /\ ~(n < nextPatta)
  BY <1>1, <1>2
<1>4. \A n \in DOMAIN NextNumbers(first, slots) : NextNumbers(first, slots)[n] \in Razmer
  BY <1>1, NextNumbersFacts
<1>5. QED
  BY <1>3, <1>4 DEF SequenceIsAhead

\* The numbers a request gives are free, and as many of a size as it takes.
LEMMA AddedFacts ==
  ASSUME ServiceInv, NEW r \in Request, Writing(r), NEW a, a = req[r]
  PROVE  /\ DOMAIN Added(a) \subseteq Number
         /\ \A n \in DOMAIN Added(a) : pattas[n] = Absent /\ Added(a)[n] \in Razmer
         /\ \A n \in DOMAIN Added(a) : n \in 1 .. MaxNumber \/ (a.kind \in Claiming /\ n \in DOMAIN a.sizes)
         /\ a.kind \in Founding => \A z \in Razmer : CountOf(Added(a), z) = a.target[z]
         /\ a.kind \in Corrections => \A z \in Razmer : CountOf(Added(a), z) = CountOf(Plan(a).deficits, z)
         /\ a.kind \notin Founding \cup Corrections \cup {"register_one"} => DOMAIN Added(a) = {}
<1>1. /\ TablesTyped /\ SequenceIsAhead /\ AskInv(a) /\ FoundOf(r, a) /\ CountedOf(r, a) /\ stage[r] = "write"
      /\ nextPatta \in Nat /\ MaxNumber \in Nat /\ a.kind \notin {"none", "reuse"}
  BY WritingFacts, NumberFacts DEF Sound, TablesTyped
<1>2. 1 .. MaxNumber \subseteq Number /\ BlockNumber \subseteq Number
  BY NumberFacts DEF Number
<1>3. CASE a.kind = "create"
  <2> DEFINE slots == Slots(a.target)
  <2>1. Added(a) = NextNumbers(a.first, slots) /\ a.first = nextPatta /\ a.first + Len(slots) <= MaxNumber
    BY <1>1, <1>3 DEF Added, FoundOf, Claiming
  <2>2. a.target \in [Razmer -> Nat] /\ a.target \in [Razmer -> Int]
    BY <1>1, <1>3, DocumentsAssumption DEF AskInv, Founding
  <2>3. slots \in Seq(Razmer)
    BY <2>2, SlotsFacts
  <2>4. \A z \in Razmer : CountOf(slots, z) = a.target[z]
    <3>1. DOMAIN slots = 1 .. Len(slots)
      BY <2>3
    <3>2. QED
      BY <2>2, <3>1, SlotsCount DEF CountOf
  <2> HIDE DEF slots
  <2>5. \A z \in Razmer : CountOf(NextNumbers(a.first, slots), z) = CountOf(slots, z)
    BY <1>1, <2>1, <2>3, NextNumbersCount
  <2>6. /\ DOMAIN Added(a) \subseteq 1 .. MaxNumber
        /\ \A n \in DOMAIN Added(a) : pattas[n] = Absent /\ Added(a)[n] \in Razmer
    BY <1>1, <2>1, <2>3, NextNumbersFree
  <2>7. a.kind \in Founding /\ a.kind \notin Corrections
    BY <1>3 DEF Founding, Corrections
  <2>8. QED
    BY <1>2, <2>1, <2>4, <2>5, <2>6, <2>7
<1>4. CASE a.kind = "correct"
  <2> DEFINE slots == Plan(a).deficits
  <2>1. /\ Added(a) = NextNumbers(a.first, slots) /\ a.first \in Nat
        /\ slots = <<>> \/ (a.first = nextPatta /\ a.first + Len(slots) <= MaxNumber)
    <3>1. Added(a) = NextNumbers(a.first, slots)
      BY <1>4 DEF Added, Claiming
    <3>2. a.first \in Nat
      BY <1>1, <1>4 DEF AskInv, Corrections
    <3>3. slots = <<>> \/ (a.first = nextPatta /\ a.first + Len(slots) <= MaxNumber)
      BY <1>1, <1>4 DEF FoundOf
    <3>4. QED
      BY <3>1, <3>2, <3>3
  <2>2. slots \in Seq(Razmer)
    BY <1>1, <1>4, PlanFacts DEF AskInv, Corrections
  <2> HIDE DEF slots
  <2>3. \A z \in Razmer : CountOf(NextNumbers(a.first, slots), z) = CountOf(slots, z)
    BY <1>1, <2>1, <2>2, NextNumbersCount
  <2>4. /\ DOMAIN Added(a) \subseteq 1 .. MaxNumber
        /\ \A n \in DOMAIN Added(a) : pattas[n] = Absent /\ Added(a)[n] \in Razmer
    BY <1>1, <2>1, <2>2, NextNumbersFree
  <2>5. a.kind \in Corrections /\ a.kind \notin Founding
    BY <1>4 DEF Founding, Corrections
  <2>6. QED
    BY <1>2, <2>1, <2>3, <2>4, <2>5 DEF slots
<1>5. CASE a.kind \in Claiming
  <2>1. Added(a) = a.sizes /\ a.sizes \in [DOMAIN a.sizes -> Razmer] /\ DOMAIN a.sizes \subseteq BlockNumber
    BY <1>1, <1>5 DEF Added, Claiming, AskInv
  <2>2. Unused(DOMAIN a.sizes)
    BY <1>1, <1>5 DEF CountedOf, Claiming, Submitted
  <2>3. \A n \in DOMAIN Added(a) : pattas[n] = Absent /\ Added(a)[n] \in Razmer /\ n \in DOMAIN a.sizes
    BY <2>1, <2>2 DEF Unused
  <2>4. a.kind \in Founding => \A z \in Razmer : CountOf(Added(a), z) = a.target[z]
    BY <1>1, <1>5, <2>1 DEF CountedOf, Founding, Claiming
  <2>5. a.kind \in Corrections => \A z \in Razmer : CountOf(Added(a), z) = CountOf(Plan(a).deficits, z)
    BY <1>1, <1>5, <2>1 DEF CountedOf, Corrections, Claiming, Submitted
  <2>6. a.kind \in Founding \cup Corrections \cup {"register_one"}
    BY <1>5 DEF Claiming, Founding, Corrections
  <2>7. QED
    BY <1>2, <1>5, <2>1, <2>3, <2>4, <2>5, <2>6
<1>6. CASE a.kind \notin {"create", "correct"} \cup Claiming
  <2>1. DOMAIN Added(a) = {}
    BY <1>6 DEF Added
  <2>2. a.kind \notin Founding \cup Corrections
    BY <1>6 DEF Founding, Corrections, Claiming
  <2>3. QED
    BY <2>1, <2>2
<1>7. QED
  BY <1>3, <1>4, <1>5, <1>6

\* What a correction makes of a Patta.
LEMMA RecountedValues ==
  ASSUME TablesTyped, NEW a, a.target \in Distribution, a.soni \in Soni, NEW n \in Active(a.batch),
         NEW new, new = Recounted(Plan(a), a.soni, n)
  PROVE  /\ Present(new) /\ new.batch = a.batch /\ new.version = pattas[n].version + 1
         /\ new.status = "ACTIVE" <=> n \notin Plan(a).surplus
         /\ n \notin Plan(a).surplus =>
              /\ new.soni = a.soni
              /\ new.razmer = IF n \in DOMAIN Plan(a).moves THEN Plan(a).moves[n] ELSE pattas[n].razmer
<1> DEFINE plan == Plan(a)
           old == pattas[n]
<1>1. old \in PattaRecord /\ old.batch = a.batch /\ old.status = "ACTIVE"
  BY PresentFacts DEF Active
<1>2. new \in PattaRecord
  BY RecountedFacts
<1>3. Present(new)
  BY <1>2, AbsentFacts DEF Present
<1> HIDE DEF plan, old
<1>4. CASE n \in plan.surplus
  <2>1. new = [old EXCEPT !.status = "VOID", !.version = @ + 1]
    BY <1>4 DEF Recounted, PattaVoid, plan, old
  <2>2. new.status = "VOID" /\ new.version = old.version + 1 /\ new.batch = old.batch
    BY <1>1, <2>1 DEF PattaRecord
  <2>3. QED
    BY <1>1, <1>3, <1>4, <2>2 DEF plan, old
<1>5. CASE n \notin plan.surplus /\ n \in DOMAIN plan.moves
  <2>1. new = [old EXCEPT !.soni = a.soni, !.razmer = plan.moves[n], !.version = @ + 1]
    BY <1>5 DEF Recounted, PattaMoved, plan, old
  <2>2. /\ new.status = old.status /\ new.version = old.version + 1 /\ new.batch = old.batch
        /\ new.soni = a.soni /\ new.razmer = plan.moves[n]
    BY <1>1, <2>1 DEF PattaRecord
  <2>3. QED
    BY <1>1, <1>3, <1>5, <2>2 DEF plan, old
<1>6. CASE n \notin plan.surplus /\ n \notin DOMAIN plan.moves
  <2>1. new = [old EXCEPT !.soni = a.soni, !.version = @ + 1]
    BY <1>6 DEF Recounted, PattaWithSoni, plan, old
  <2>2. /\ new.status = old.status /\ new.version = old.version + 1 /\ new.batch = old.batch
        /\ new.soni = a.soni /\ new.razmer = old.razmer
    BY <1>1, <2>1 DEF PattaRecord
  <2>3. QED
    BY <1>1, <1>3, <1>6, <2>2 DEF plan, old
<1>7. QED
  BY <1>4, <1>5, <1>6

\* A Patta after a request wrote: new, corrected, or as it was.
LEMMA PattaValues ==
  ASSUME ServiceInv, NEW r \in Request, Writing(r), NEW a, a = req[r], NEW n \in Number, NEW new, new = PattaAfter(a, n)
  PROVE  /\ n \in DOMAIN Added(a) =>
              /\ pattas[n] = Absent /\ Present(new) /\ new.status = "ACTIVE" /\ new.version = 1
              /\ new.razmer = Added(a)[n] /\ new.soni = a.soni
              /\ a.kind = "register_one" => new.batch = "none"
              /\ a.kind # "register_one" => new.batch = a.batch /\ a.batch \in Batch
         /\ n \notin DOMAIN Added(a) /\ a.kind \in Corrections /\ n \in Active(a.batch) =>
              /\ a.target \in Distribution /\ a.soni \in Soni
              /\ new = Recounted(Plan(a), a.soni, n)
         /\ n \notin DOMAIN Added(a) /\ a.kind = "legacy" /\ n = a.patta =>
              /\ Present(pattas[n]) /\ Present(new) /\ pattas[n].batch = "none" /\ new.batch = "none"
              /\ new.version = pattas[n].version + 1 /\ new.status = pattas[n].status /\ new.razmer = pattas[n].razmer
              /\ new.soni = a.soni
         /\ \/ n \in DOMAIN Added(a)
            \/ a.kind \in Corrections /\ n \in Active(a.batch)
            \/ a.kind = "legacy" /\ n = a.patta
            \/ new = pattas[n]
<1>1. TablesTyped /\ ReferenceInv /\ AskInv(a)
  BY WritingFacts DEF Sound
<1>2. ASSUME n \in DOMAIN Added(a)
      PROVE  /\ pattas[n] = Absent /\ Present(new) /\ new.status = "ACTIVE" /\ new.version = 1
             /\ new.razmer = Added(a)[n] /\ new.soni = a.soni
             /\ a.kind = "register_one" => new.batch = "none"
             /\ a.kind # "register_one" => new.batch = a.batch /\ a.batch \in Batch
  <2>1. pattas[n] = Absent /\ Added(a)[n] \in Razmer /\ a.kind \in Founding \cup Corrections \cup {"register_one"}
    BY <1>2, AddedFacts
  <2>2. a.soni \in Soni /\ (a.kind # "register_one" => a.batch \in Batch)
    BY <1>1, <2>1 DEF AskInv, Claiming
  <2> DEFINE b == IF a.kind = "register_one" THEN "none" ELSE a.batch
  <2>3. b \in Batch \cup {"none"} /\ a.soni \in Soni \cup {Unknown} /\ new = NewPatta(b, Added(a)[n], a.soni)
    BY <1>2, <2>2 DEF PattaAfter
  <2> HIDE DEF b
  <2>4. /\ Present(new) /\ new.status = "ACTIVE" /\ new.version = 1
        /\ new.razmer = Added(a)[n] /\ new.soni = a.soni /\ new.batch = b
    BY <2>1, <2>3, NewPattaFacts
  <2>5. QED
    BY <2>1, <2>2, <2>4 DEF b
<1>3. ASSUME n \notin DOMAIN Added(a), a.kind \in Corrections, n \in Active(a.batch)
      PROVE  a.target \in Distribution /\ a.soni \in Soni /\ new = Recounted(Plan(a), a.soni, n)
  BY <1>1, <1>3 DEF PattaAfter, AskInv
<1>4. ASSUME n \notin DOMAIN Added(a), a.kind = "legacy", n = a.patta
      PROVE  /\ Present(pattas[n]) /\ Present(new) /\ pattas[n].batch = "none" /\ new.batch = "none"
             /\ new.version = pattas[n].version + 1 /\ new.status = pattas[n].status /\ new.razmer = pattas[n].razmer
             /\ new.soni = a.soni
  <2>1. Present(pattas[n]) /\ pattas[n].batch = "none" /\ a.soni \in Soni
    BY <1>1, <1>4 DEF AskInv, ReferenceInv
  <2>2. pattas[n] \in PattaRecord
    BY <1>1, <2>1, PresentFacts
  <2>3. new = [pattas[n] EXCEPT !.soni = a.soni, !.version = @ + 1]
    BY <1>4 DEF PattaAfter, PattaWithSoni, Corrections
  <2>4. /\ new.batch = pattas[n].batch /\ new.version = pattas[n].version + 1 /\ new.status = pattas[n].status
        /\ new.razmer = pattas[n].razmer /\ new.soni = a.soni
    BY <2>2, <2>3 DEF PattaRecord
  <2>5. PICK y \in Razmer : TRUE
    BY DocumentsAssumption
  <2>6. new \in PattaRecord
    <3>1. PattaWithSoni(pattas[n], a.soni) \in PattaRecord
      BY <2>1, <2>2, <2>5, PattaChangeFacts
    <3>2. QED
      BY <2>3, <3>1 DEF PattaWithSoni
  <2>7. QED
    BY <2>1, <2>4, <2>6, AbsentFacts DEF Present
<1>5. \/ n \in DOMAIN Added(a)
      \/ a.kind \in Corrections /\ n \in Active(a.batch)
      \/ a.kind = "legacy" /\ n = a.patta
      \/ new = pattas[n]
  BY DEF PattaAfter
<1>6. QED
  BY <1>2, <1>3, <1>4, <1>5

\* A batch whose Pattas stay what they were.
LEMMA Undisturbed ==
  ASSUME DistributedIn(batches, pattas), NEW c \in Batch, Present(batches[c]), NEW ps, NEW new,
         new.target = batches[c].target, new.soni = batches[c].soni,
         \A n \in Number :
           \/ ps[n] = pattas[n]
           \/ ~(Present(pattas[n]) /\ pattas[n].batch = c) /\ ps[n].batch # c
  PROVE  /\ \A z \in Razmer : Cardinality(SizedIn(ps, c, z)) = new.target[z]
         /\ \A n \in ActiveIn(ps, c) : ps[n].soni = new.soni
<1>1. ActiveIn(ps, c) = ActiveIn(pattas, c) /\ \A n \in ActiveIn(pattas, c) : ps[n] = pattas[n]
  BY DEF ActiveIn
<1>2. \A z : SizedIn(ps, c, z) = SizedIn(pattas, c, z)
  BY <1>1 DEF SizedIn
<1>3. QED
  BY <1>1, <1>2 DEF DistributedIn

\* The batch of a creation, or of a registration, has the Pattas given to it.
LEMMA FoundedDistribution ==
  ASSUME ServiceInv, NEW r \in Request, Writing(r), NEW a, a = req[r], a.kind \in Founding,
         NEW ps, \A n \in Number : ps[n] = PattaAfter(a, n)
  PROVE  /\ \A z \in Razmer : Cardinality(SizedIn(ps, a.batch, z)) = a.target[z]
         /\ \A n \in ActiveIn(ps, a.batch) : ps[n].soni = a.soni
<1>1. AskInv(a) /\ CheckInv
  BY WritingFacts DEF ServiceInv
<1>2. /\ a.batch \in Batch /\ ~Present(batches[a.batch]) /\ "none" \notin Batch
      /\ a.kind \notin Corrections \cup {"legacy", "register_one"}
  BY <1>1, DocumentsAssumption DEF AskInv, Founding, Corrections
<1>3. \A n \in Number : ~(Present(pattas[n]) /\ pattas[n].batch = a.batch)
  BY <1>1, <1>2 DEF CheckInv
<1>4. DOMAIN Added(a) \subseteq Number /\ \A z \in Razmer : CountOf(Added(a), z) = a.target[z]
  BY AddedFacts
<1>5. \A n \in Number :
        /\ n \in DOMAIN Added(a) => /\ Present(ps[n]) /\ ps[n].batch = a.batch /\ ps[n].status = "ACTIVE"
                                    /\ ps[n].razmer = Added(a)[n] /\ ps[n].soni = a.soni
        /\ n \notin DOMAIN Added(a) => ps[n] = pattas[n]
  BY <1>2, PattaValues
<1>6. ActiveIn(ps, a.batch) = DOMAIN Added(a)
  BY <1>3, <1>4, <1>5 DEF ActiveIn
<1>7. \A z : SizedIn(ps, a.batch, z) = {n \in DOMAIN Added(a) : Added(a)[n] = z}
  BY <1>4, <1>5, <1>6 DEF SizedIn
<1>8. QED
  BY <1>4, <1>5, <1>6, <1>7 DEF CountOf

\* The batch of a correction has the Pattas it keeps, with the sizes it gives
\* them, and those it adds.
LEMMA CorrectedDistribution ==
  ASSUME ServiceInv, NEW r \in Request, Writing(r), NEW a, a = req[r], a.kind \in Corrections,
         NEW ps, \A n \in Number : ps[n] = PattaAfter(a, n)
  PROVE  /\ \A z \in Razmer : Cardinality(SizedIn(ps, a.batch, z)) = a.target[z]
         /\ \A n \in ActiveIn(ps, a.batch) : ps[n].soni = a.soni
<1> DEFINE D == Active(a.batch)
           added == Added(a)
           plan == Plan(a)
           sizes == SizesOf(a.batch)
           target == a.target
           left(z) == {n \in D \ plan.surplus : IF n \in DOMAIN plan.moves THEN plan.moves[n] = z ELSE sizes[n] = z}
           new(z) == {n \in DOMAIN added : added[n] = z}
<1>1. TablesTyped /\ a.target \in Distribution /\ a.soni \in Soni
  BY WritingFacts DEF AskInv
<1>2. D \subseteq Number /\ IsFiniteSet(D) /\ D \subseteq Nat /\ sizes \in [D -> Razmer]
  BY <1>1, SizesOfFacts
<1>3. target \in [Razmer -> Nat] /\ plan = Assignment(sizes, target)
  BY <1>1, DocumentsAssumption DEF Plan
<1>4. DOMAIN added \subseteq Number /\ \A z \in Razmer : CountOf(added, z) = CountOf(plan.deficits, z)
  BY AddedFacts
<1>5. D \cap DOMAIN added = {}
  BY <1>2, AddedFacts DEF Active, Present
<1>6. \A n \in D : sizes[n] = pattas[n].razmer
  BY DEF SizesOf
<1>7. ASSUME NEW n \in DOMAIN added
      PROVE  /\ Present(ps[n]) /\ ps[n].batch = a.batch /\ ps[n].status = "ACTIVE"
             /\ ps[n].razmer = added[n] /\ ps[n].soni = a.soni
  <2>1. n \in Number /\ a.kind # "register_one"
    BY <1>4 DEF Corrections
  <2>2. QED
    BY <2>1, PattaValues
<1>8. ASSUME NEW n \in D
      PROVE  /\ Present(ps[n]) /\ ps[n].batch = a.batch /\ (ps[n].status = "ACTIVE" <=> n \notin plan.surplus)
             /\ n \notin plan.surplus =>
                  /\ ps[n].soni = a.soni
                  /\ ps[n].razmer = IF n \in DOMAIN plan.moves THEN plan.moves[n] ELSE sizes[n]
  <2>1. n \in Number /\ n \notin DOMAIN added
    BY <1>2, <1>5
  <2>2. ps[n] = Recounted(Plan(a), a.soni, n)
    BY <2>1, PattaValues
  <2>3. QED
    BY <1>1, <1>6, <2>2, RecountedValues
<1>9. \A n \in Number \ (D \cup DOMAIN added) : ps[n] = pattas[n]
  BY PattaValues DEF Corrections
<1>10. \A n \in Number \ D : ~(Present(pattas[n]) /\ pattas[n].batch = a.batch /\ pattas[n].status = "ACTIVE")
  BY DEF Active
<1> HIDE DEF D, added, plan, sizes, target
<1>11. ActiveIn(ps, a.batch) = (D \ plan.surplus) \cup DOMAIN added
  <2> HIDE DEF left, new
  <2> DEFINE Used(n) == Present(ps[n]) /\ ps[n].batch = a.batch /\ ps[n].status = "ACTIVE"
  <2>1. \A n \in D \cup DOMAIN added : Used(n) <=> n \in (D \ plan.surplus) \cup DOMAIN added
    BY <1>5, <1>7, <1>8
  <2>2. \A n \in Number \ (D \cup DOMAIN added) : ~Used(n)
    BY <1>9, <1>10
  <2>3. ActiveIn(ps, a.batch) = {n \in Number : Used(n)}
    BY DEF ActiveIn
  <2> HIDE DEF Used
  <2>4. \A n : n \in ActiveIn(ps, a.batch) <=> n \in (D \ plan.surplus) \cup DOMAIN added
    BY <1>2, <1>4, <2>1, <2>2, <2>3
  <2>5. QED
    BY <2>4
<1>12. \A z : SizedIn(ps, a.batch, z) = left(z) \cup new(z)
  <2> SUFFICES ASSUME NEW z PROVE SizedIn(ps, a.batch, z) = left(z) \cup new(z)
    OBVIOUS
  <2>1. \A n \in D \ plan.surplus : ps[n].razmer = z <=> n \in left(z)
    BY <1>8
  <2>2. \A n \in DOMAIN added : ps[n].razmer = z <=> n \in new(z)
    BY <1>7
  <2>3. left(z) \subseteq D \ plan.surplus /\ new(z) \subseteq DOMAIN added
    OBVIOUS
  <2> HIDE DEF left, new
  <2>4. \A n : n \in SizedIn(ps, a.batch, z) <=> n \in left(z) \cup new(z)
    BY <1>11, <2>1, <2>2, <2>3 DEF SizedIn
  <2>5. QED
    BY <2>4
<1>13. ASSUME NEW z \in Razmer PROVE Cardinality(SizedIn(ps, a.batch, z)) = a.target[z]
  <2>1. /\ IsFiniteSet(left(z)) /\ Cardinality(left(z)) \in Nat /\ CountOf(plan.deficits, z) \in Nat
        /\ Cardinality(left(z)) + CountOf(plan.deficits, z) = target[z]
    <3> DEFINE rest == left(z)
    <3>1. LeftWith(rest, D, sizes, plan, z)
      BY DEF LeftWith
    <3> HIDE DEF rest
    <3>2. /\ IsFiniteSet(rest) /\ Cardinality(rest) \in Nat /\ CountOf(plan.deficits, z) \in Nat
          /\ AddUp(Cardinality(rest), CountOf(plan.deficits, z), target[z])
      BY <1>2, <1>3, <3>1, AssignmentCount
    <3>3. QED
      BY <3>2 DEF rest, AddUp
  <2>2. IsFiniteSet(new(z)) /\ Cardinality(new(z)) = CountOf(plan.deficits, z)
    <3>1. IsFiniteSet(DOMAIN added)
      BY <1>4, NumberFacts, FS_Subset
    <3>2. QED
      BY <1>4, <3>1, CountOfFacts
  <2>3. left(z) \cap new(z) = {}
    BY <1>5
  <2>4. Cardinality(left(z) \cup new(z)) = Cardinality(left(z)) + Cardinality(new(z))
    <3> HIDE DEF left, new
    <3>1. QED
      BY <2>1, <2>2, <2>3, DisjointCount
  <2>5. QED
    BY <1>12, <2>1, <2>2, <2>4 DEF target
<1>14. \A n \in ActiveIn(ps, a.batch) : ps[n].soni = a.soni
  BY <1>7, <1>8, <1>11
<1>15. QED
  BY <1>13, <1>14

\* What a request writes is distributed as the size rows it leaves say.
LEMMA OutcomeDistributed ==
  ASSUME ServiceInv, NEW r \in Request, Writing(r), NEW a, a = req[r],
         NEW bs, \A b \in Batch : bs[b] = BatchAfter(a, b), NEW ps, \A n \in Number : ps[n] = PattaAfter(a, n)
  PROVE  DistributedIn(bs, ps)
<1>1. TablesTyped /\ AskInv(a) /\ DistributedIn(batches, pattas) /\ "none" \notin Batch
  BY WritingFacts, DistributionIsIn, DocumentsAssumption DEF ServiceInv
<1> SUFFICES ASSUME NEW c \in Batch, Present(bs[c])
             PROVE  /\ \A z \in Razmer : Cardinality(SizedIn(ps, c, z)) = bs[c].target[z]
                    /\ \A n \in ActiveIn(ps, c) : ps[n].soni = bs[c].soni
  BY DEF DistributedIn
<1>2. CASE a.kind \in Founding /\ c = a.batch
  <2>1. bs[c].target = a.target /\ bs[c].soni = a.soni
    BY <1>2 DEF BatchAfter, NewBatch
  <2>2. QED
    BY <1>2, <2>1, FoundedDistribution
<1>3. CASE a.kind \in Corrections /\ c = a.batch
  <2>1. batches[c] \in BatchRecord
    BY <1>1, <1>3, PresentFacts DEF AskInv
  <2>2. bs[c] = [batches[c] EXCEPT !.soni = a.soni, !.target = a.target, !.version = @ + 1]
    BY <1>3 DEF BatchAfter, BatchCorrected, Founding, Corrections
  <2>3. bs[c].target = a.target /\ bs[c].soni = a.soni
    BY <2>1, <2>2 DEF BatchRecord
  <2>4. QED
    BY <1>3, <2>3, CorrectedDistribution
<1>4. CASE ~(a.kind \in Founding \cup Corrections /\ c = a.batch)
  <2>1. Present(batches[c]) /\ bs[c].target = batches[c].target /\ bs[c].soni = batches[c].soni
    <3>1. CASE a.kind = "print" /\ c = a.batch
      <4>1. bs[c] = [batches[c] EXCEPT !.printed = @ \/ a.outcome = "SUCCEEDED"] /\ Present(batches[c])
        BY <1>1, <3>1 DEF BatchAfter, BatchPrinted, AskInv, Founding, Corrections
      <4>2. batches[c] \in BatchRecord
        BY <1>1, <4>1, PresentFacts
      <4>3. QED
        BY <4>1, <4>2 DEF BatchRecord
    <3>2. CASE ~(a.kind = "print" /\ c = a.batch)
      <4>1. bs[c] = batches[c]
        BY <1>4, <3>2 DEF BatchAfter
      <4>2. QED
        BY <4>1
    <3>3. QED
      BY <3>1, <3>2
  <2>2. ASSUME NEW n \in Number
        PROVE  \/ ps[n] = pattas[n]
               \/ ~(Present(pattas[n]) /\ pattas[n].batch = c) /\ ps[n].batch # c
    <3>1. CASE n \in DOMAIN Added(a)
      <4>1. a.kind \in Founding \cup Corrections \cup {"register_one"}
        BY <3>1, AddedFacts
      <4>2. a.kind # "register_one" => c # a.batch
        BY <1>4, <4>1
      <4>3. ps[n].batch # c /\ ~Present(pattas[n])
        BY <1>1, <3>1, <4>2, PattaValues DEF Present
      <4>4. QED
        BY <4>3
    <3>2. CASE n \notin DOMAIN Added(a) /\ a.kind \in Corrections /\ n \in Active(a.batch)
      <4>1. ps[n] = Recounted(Plan(a), a.soni, n) /\ a.target \in Distribution /\ a.soni \in Soni
        BY <3>2, PattaValues
      <4>2. ps[n].batch = a.batch /\ pattas[n].batch = a.batch
        BY <1>1, <3>2, <4>1, RecountedValues DEF Active
      <4>3. QED
        BY <1>4, <3>2, <4>2
    <3>3. CASE n \notin DOMAIN Added(a) /\ a.kind = "legacy" /\ n = a.patta
      BY <1>1, <3>3, PattaValues
    <3>4. CASE ps[n] = pattas[n]
      BY <3>4
    <3>5. QED
      BY <3>1, <3>2, <3>3, <3>4, PattaValues
  <2>3. QED
    BY <1>1, <2>1, <2>2, Undisturbed
<1>5. QED
  BY <1>2, <1>3, <1>4

-----------------------------------------------------------------------------
(* What the services foresee of the triggers.                              *)

\* The tables that a request leaves have their types.
LEMMA OutcomeTyped ==
  ASSUME ServiceInv, NEW r \in Request, Writing(r), NEW a, a = req[r]
  PROVE  /\ \A n \in Number : PattaAfter(a, n) \in PattaRecord \cup {Absent}
         /\ \A b \in Batch : Present(BatchAfter(a, b)) => BatchAfter(a, b).target \in [Razmer -> Nat]
<1>1. TablesTyped /\ AskInv(a)
  BY WritingFacts
<1>2. ASSUME NEW n \in Number PROVE PattaAfter(a, n) \in PattaRecord \cup {Absent}
  <2> DEFINE new == PattaAfter(a, n)
  <2>1. CASE n \in DOMAIN Added(a)
    <3> DEFINE b == IF a.kind = "register_one" THEN "none" ELSE a.batch
    <3>1. Added(a)[n] \in Razmer /\ a.kind \in Founding \cup Corrections \cup {"register_one"}
      BY <2>1, AddedFacts
    <3>2. a.soni \in Soni /\ b \in Batch \cup {"none"} /\ new = NewPatta(b, Added(a)[n], a.soni)
      BY <1>1, <2>1, <3>1 DEF AskInv, Claiming, PattaAfter
    <3> HIDE DEF b, new
    <3>3. new \in PattaRecord
      BY <3>1, <3>2, NewPattaFacts
    <3>4. QED
      BY <3>3 DEF new
  <2>2. CASE n \notin DOMAIN Added(a) /\ a.kind \in Corrections /\ n \in Active(a.batch)
    <3>1. new = Recounted(Plan(a), a.soni, n) /\ a.target \in Distribution /\ a.soni \in Soni
      BY <2>2, PattaValues
    <3>2. QED
      BY <1>1, <2>2, <3>1, RecountedFacts
  <2>3. CASE n \notin DOMAIN Added(a) /\ a.kind = "legacy" /\ n = a.patta
    <3>1. new = PattaWithSoni(pattas[n], a.soni) /\ a.soni \in Soni /\ 1 \in Razmer /\ Present(pattas[n])
      BY <1>1, <2>3, PattaValues, DocumentsAssumption DEF PattaAfter, AskInv, Corrections
    <3>2. pattas[n] \in PattaRecord
      BY <1>1, <3>1, PresentFacts
    <3>3. QED
      BY <3>1, <3>2, PattaChangeFacts
  <2>4. CASE new = pattas[n]
    BY <1>1, <2>4 DEF TablesTyped
  <2>5. QED
    BY <2>1, <2>2, <2>3, <2>4, PattaValues
<1>3. ASSUME NEW b \in Batch, Present(BatchAfter(a, b)) PROVE BatchAfter(a, b).target \in [Razmer -> Nat]
  <2>1. Present(batches[b]) => batches[b] \in BatchRecord
    BY <1>1, PresentFacts
  <2>2. Distribution \subseteq [Razmer -> Nat]
    BY DocumentsAssumption
  <2>3. CASE a.kind \in Founding /\ b = a.batch
    <3>1. BatchAfter(a, b).target = a.target /\ a.target \in Distribution
      BY <1>1, <2>3 DEF BatchAfter, NewBatch, AskInv
    <3>2. QED
      BY <2>2, <3>1
  <2>4. CASE a.kind \in Corrections /\ b = a.batch
    <3>1. /\ BatchAfter(a, b) = [batches[b] EXCEPT !.soni = a.soni, !.target = a.target, !.version = @ + 1]
          /\ batches[b] \in BatchRecord /\ a.target \in Distribution
      BY <1>1, <2>1, <2>4 DEF BatchAfter, BatchCorrected, AskInv, Founding, Corrections
    <3>2. BatchAfter(a, b).target = a.target
      BY <3>1 DEF BatchRecord
    <3>3. QED
      BY <2>2, <3>1, <3>2
  <2>5. CASE a.kind = "print" /\ b = a.batch
    <3>1. /\ BatchAfter(a, b) = [batches[b] EXCEPT !.printed = @ \/ a.outcome = "SUCCEEDED"]
          /\ batches[b] \in BatchRecord
      BY <1>1, <2>1, <2>5 DEF BatchAfter, BatchPrinted, AskInv, Founding, Corrections
    <3>2. BatchAfter(a, b).target = batches[b].target /\ batches[b].target \in Distribution
      BY <3>1 DEF BatchRecord
    <3>3. QED
      BY <2>2, <3>2
  <2>6. CASE BatchAfter(a, b) = batches[b]
    <3>1. batches[b].target \in Distribution
      BY <1>3, <2>1, <2>6 DEF BatchRecord
    <3>2. QED
      BY <2>2, <2>6, <3>1
  <2>7. QED
    BY <2>3, <2>4, <2>5, <2>6 DEF BatchAfter
<1>4. QED
  BY <1>2, <1>3

LEMMA ContentsForeseen ==
  ASSUME ServiceInv, NEW r \in Request, Writing(r), NEW a, a = req[r], NEW after, after = Outcome(a)
  PROVE  ContentsMatch(after)
<1> DEFINE bs == after.batches
           ps == after.pattas
<1>1. TablesTyped /\ AskInv(a) /\ a.kind \notin {"none", "reuse"}
  BY WritingFacts
<1>2. (\A b \in Batch : bs[b] = BatchAfter(a, b)) /\ (\A n \in Number : ps[n] = PattaAfter(a, n))
  BY <1>1, OutcomeFacts
<1> HIDE DEF bs, ps
<1>3. DistributedIn(bs, ps)
  BY <1>2, OutcomeDistributed
<1>4. \A n \in Number : ps[n] \in PattaRecord \cup {Absent}
  BY <1>2, OutcomeTyped
<1>5. \A b \in Batch : Present(bs[b]) => bs[b].target \in [Razmer -> Nat]
  BY <1>2, OutcomeTyped
<1>6. ASSUME NEW b \in Batch, Present(bs[b])
      PROVE  /\ Cardinality(ActiveIn(ps, b)) = Cardinality(Places(bs[b].target))
             /\ \A n \in ActiveIn(ps, b) : ps[n].soni = bs[b].soni
  <2> DEFINE D == ActiveIn(ps, b)
             sizes == [n \in D |-> ps[n].razmer]
             target == bs[b].target
  <2>1. D \in SUBSET Number
    BY DEF ActiveIn
  <2>2. IsFiniteSet(D)
    BY <2>1, NumberFacts, FS_Subset
  <2>3. \A n \in D : ps[n].razmer \in Razmer
    BY <1>4 DEF ActiveIn, Present, PattaRecord
  <2>4. sizes \in [D -> Razmer] /\ DOMAIN sizes = D /\ target \in [Razmer -> Nat]
    BY <1>5, <1>6, <2>3
  <2>5. ASSUME NEW z \in Razmer PROVE CountOf(sizes, z) = target[z]
    <3>1. {n \in DOMAIN sizes : sizes[n] = z} = SizedIn(ps, b, z)
      BY DEF SizedIn
    <3>2. Cardinality(SizedIn(ps, b, z)) = target[z]
      BY <1>3, <1>6 DEF DistributedIn
    <3>3. QED
      BY <3>1, <3>2 DEF CountOf
  <2> HIDE DEF sizes, D, target
  <2>6. Cardinality(D) = Cardinality(Places(target))
    BY <2>2, <2>4, <2>5, TotalCount
  <2>7. QED
    BY <1>3, <1>6, <2>6 DEF DistributedIn, D, target
<1>7. QED
  BY <1>6 DEF ContentsMatch, ActiveIn, bs, ps, Present

LEMMA BatchesForeseen ==
  ASSUME ServiceInv, NEW r \in Request, Writing(r), NEW a, a = req[r], NEW after, after = Outcome(a)
  PROVE  BatchesMatch(after)
<1>1. TablesTyped /\ AskInv(a) /\ FoundOf(r, a) /\ stage[r] = "write" /\ a.kind \notin {"none", "reuse"}
  BY WritingFacts
<1> DEFINE success(b) == EventOf([batch |-> b, revision |-> batches[b].version, outcome |-> "SUCCEEDED"])
<1> SUFFICES ASSUME NEW b \in Batch, batches[b] # Absent, after.batches[b] # batches[b]
             PROVE  \/ /\ after.batches[b].version = batches[b].version + 1
                       /\ after.batches[b].printed = batches[b].printed
                    \/ /\ after.batches[b] = [batches[b] EXCEPT !.printed = TRUE]
                       /\ \E p \in PrintEvent : after.prints[p] = success(b)
  BY DEF BatchesMatch
<1>2. after.batches[b] = BatchAfter(a, b)
  BY <1>1, OutcomeFacts
<1>3. batches[b] \in BatchRecord
  BY <1>1, PresentFacts DEF Present
<1>4. CASE a.kind \in Founding /\ b = a.batch
  BY <1>1, <1>4 DEF AskInv, Present
<1>5. CASE a.kind \in Corrections /\ b = a.batch
  <2>1. after.batches[b] = [batches[b] EXCEPT !.soni = a.soni, !.target = a.target, !.version = @ + 1]
    BY <1>2, <1>5 DEF BatchAfter, BatchCorrected, Founding, Corrections
  <2>2. QED
    BY <1>3, <2>1 DEF BatchRecord
<1>6. CASE a.kind = "print" /\ b = a.batch
  <2>1. after.batches[b] = [batches[b] EXCEPT !.printed = batches[b].printed \/ a.outcome = "SUCCEEDED"]
    BY <1>2, <1>6 DEF BatchAfter, BatchPrinted, Founding, Corrections
  <2>2. batches[b].printed \in BOOLEAN /\ batches[b] = [batches[b] EXCEPT !.printed = batches[b].printed]
    BY <1>3 DEF BatchRecord
  <2>3. CASE a.outcome = "SUCCEEDED"
    <3>1. (batches[b].printed \/ a.outcome = "SUCCEEDED") = TRUE
      BY <2>3
    <3>2. after.prints = [prints EXCEPT ![a.event] = EventOf(a)]
      BY <1>6 DEF Outcome, Printed, After, Corrections
    <3>3. a.event \in PrintEvent /\ a.revision = batches[b].version
      BY <1>1, <1>6 DEF AskInv, FoundOf
    <3>4. after.prints[a.event] = EventOf(a)
      BY <1>1, <3>2, <3>3 DEF TablesTyped
    <3>5. EventOf(a) = success(b)
      BY <1>6, <2>3, <3>3 DEF EventOf
    <3> HIDE DEF success
    <3>6. QED
      BY <2>1, <3>1, <3>3, <3>4, <3>5
  <2>4. CASE a.outcome # "SUCCEEDED"
    <3>1. (batches[b].printed \/ a.outcome = "SUCCEEDED") = batches[b].printed
      BY <2>2, <2>4
    <3>2. QED
      BY <2>1, <2>2, <3>1
  <2>5. QED
    BY <2>3, <2>4
<1>7. QED
  BY <1>2, <1>4, <1>5, <1>6 DEF BatchAfter

LEMMA PattasForeseen ==
  ASSUME ServiceInv, NEW r \in Request, Writing(r), NEW a, a = req[r], NEW after, after = Outcome(a)
  PROVE  PattasMatch(after)
<1>1. TablesTyped /\ AskInv(a) /\ a.kind \notin {"none", "reuse"}
  BY WritingFacts
<1> SUFFICES ASSUME NEW n \in Number, Present(pattas[n]), after.pattas[n] # pattas[n]
             PROVE  after.pattas[n].version = pattas[n].version + 1
  BY DEF PattasMatch
<1>2. after.pattas[n] = PattaAfter(a, n)
  BY <1>1, OutcomeFacts
<1>3. n \notin DOMAIN Added(a)
  BY AddedFacts DEF Present
<1>4. CASE a.kind \in Corrections /\ n \in Active(a.batch)
  <2>1. PattaAfter(a, n) = Recounted(Plan(a), a.soni, n) /\ a.target \in Distribution /\ a.soni \in Soni
    BY <1>3, <1>4, PattaValues
  <2>2. QED
    BY <1>1, <1>2, <1>4, <2>1, RecountedValues
<1>5. CASE a.kind = "legacy" /\ n = a.patta
  BY <1>2, <1>3, <1>5, PattaValues
<1>6. QED
  BY <1>2, <1>3, <1>4, <1>5, PattaValues

\* A Patta of unknown quantity has no sheet.
LEMMA LegacyHasNoSheet ==
  ASSUME ServiceInv, NEW r \in Request, Writing(r), NEW a, a = req[r], a.kind = "legacy"
  PROVE  SheetsOf({a.patta}) = {}
<1>1. TablesTyped /\ QuantitiesAgree /\ AskInv(a) /\ CheckedOf(r, a) /\ stage[r] = "write"
  BY WritingFacts DEF Sound
<1>2. a.patta \in Number /\ a.patta # NoNumber /\ pattas[a.patta].soni = Unknown
  BY <1>1, NumberFacts DEF AskInv, CheckedOf
<1>3. ASSUME NEW s \in SheetsOf({a.patta}) PROVE FALSE
  <2>1. s \in Sheet /\ Present(sheets[s]) /\ sheets[s].patta = a.patta
    BY DEF SheetsOf
  <2>2. sheets[s].soni = Unknown
    BY <1>1, <1>2, <2>1 DEF QuantitiesAgree
  <2>3. sheets[s].soni \in Soni
    BY <1>1, <2>1, PresentFacts DEF SheetRecord
  <2>4. QED
    BY <2>2, <2>3, DocumentsAssumption DEF Unknown
<1>4. QED
  BY <1>3

\* The quantity that a correction gives a sheet is that of its Patta.
LEMMA CorrectedSheet ==
  ASSUME ServiceInv, NEW r \in Request, Writing(r), NEW a, a = req[r], NEW after, after = Outcome(a),
         NEW s \in Sheet, Corrects(a, s)
  PROVE  /\ Present(sheets[s]) /\ Present(after.sheets[s]) /\ UpdateMatches(after, s)
         /\ a.kind \in Corrections
<1>1. /\ TablesTyped /\ QuantitiesAgree /\ AskInv(a) /\ FoundOf(r, a) /\ a.kind \notin {"none", "reuse"} /\ stage[r] = "write"
  BY WritingFacts DEF Sound
<1>2. a.kind \in Corrections /\ s \in SheetsOf(Active(a.batch))
  BY LegacyHasNoSheet DEF Corrects
<1>3. /\ Present(sheets[s]) /\ sheets[s].patta \in Active(a.batch) /\ sheets[s].patta # NoNumber
      /\ sheets[s] \in SheetRecord
  BY <1>1, <1>2, NumberFacts, PresentFacts DEF SheetsOf, Active
<1>4. a.soni \in Soni /\ a.target \in Distribution
  BY <1>1, <1>2 DEF AskInv
<1> DEFINE n == sheets[s].patta
           new == after.sheets[s]
<1>5. n \in Number /\ Present(pattas[n])
  BY <1>3 DEF Active
<1>6. n \notin Plan(a).surplus
  <2>1. ~InUse(Plan(a))
    BY <1>1, <1>2 DEF FoundOf
  <2>2. QED
    BY <1>3, <2>1 DEF InUse, SheetsOf
<1>7. after.pattas[n] = Recounted(Plan(a), a.soni, n)
  <2>1. n \notin DOMAIN Added(a)
    BY <1>5, AddedFacts DEF Present
  <2>2. PattaAfter(a, n) = Recounted(Plan(a), a.soni, n)
    BY <1>2, <1>3, <1>5, <2>1, PattaValues
  <2>3. QED
    BY <1>1, <1>5, <2>2, OutcomeFacts
<1>8. after.pattas[n].soni = a.soni
  BY <1>1, <1>3, <1>4, <1>6, <1>7, RecountedValues
<1>9. new = [sheets[s] EXCEPT !.soni = a.soni, !.rows = a.soni, !.version = @ + 1]
  BY <1>1, OutcomeFacts DEF SheetAfter, SheetWithSoni
<1>10. /\ new.soni = a.soni /\ new.rows = a.soni /\ new.version = sheets[s].version + 1
       /\ new.patta = n /\ new.trashed = sheets[s].trashed
  BY <1>3, <1>9 DEF SheetRecord
<1>11. Present(new)
  <2>1. SheetWithSoni(sheets[s], a.soni) \in SheetRecord
    BY <1>3, <1>4, SheetWithSoniFacts
  <2>2. QED
    BY <1>9, <2>1, AbsentFacts DEF SheetWithSoni, Present
<1>12. QuantityOf(after, new) = a.soni
  BY <1>3, <1>8, <1>10 DEF QuantityOf
<1> HIDE DEF n
<1>13. UpdateMatches(after, s)
  BY <1>3, <1>10, <1>12 DEF UpdateMatches, n
<1>14. QED
  BY <1>2, <1>3, <1>11, <1>13

\* The sheet that a request enters, when it is no update of a standalone one.
LEMMA EnteredSheet ==
  ASSUME ServiceInv, NEW r \in Request, Writing(r), NEW a, a = req[r], a.kind \in Entering, a.kind # "edit_standalone",
         NEW after, after = Outcome(a), NEW s, s = a.sheet
  PROVE  /\ s \in Sheet
         /\ sheets[s] = Absent => InsertMatches(after, s)
         /\ sheets[s] # Absent /\ after.sheets[s] = Absent => sheets[s].trashed
         /\ sheets[s] # Absent /\ after.sheets[s] # Absent => UpdateMatches(after, s)
<1>1. /\ TablesTyped /\ QuantitiesAgree /\ AskInv(a) /\ FoundOf(r, a) /\ CheckedOf(r, a) /\ a.kind \notin {"none", "reuse"}
      /\ stage[r] = "write" /\ a.kind # "reuse"
  BY WritingFacts DEF Sound
<1>2. s \in Sheet
  BY <1>1 DEF AskInv
<1> DEFINE new == after.sheets[s]
           old == sheets[s]
<1>3. new = EntryAfter(a) /\ \A n \in Number : after.pattas[n] = pattas[n]
  BY <1>1, <1>2, EntryOutcome, OutcomeFacts
<1>4. CASE a.kind = "create_linked"
  <2>1. old = Absent /\ a.patta \in Number /\ pattas[a.patta] \in PattaRecord
    BY <1>1, <1>4, PresentFacts DEF AskInv, Creating, Present
  <2>2. new = NewSheet(a.patta, pattas[a.patta].razmer, pattas[a.patta].soni)
    BY <1>3, <1>4 DEF EntryAfter
  <2>3. /\ new.patta = a.patta /\ new.soni = pattas[a.patta].soni /\ new.razmer = pattas[a.patta].razmer
    BY <2>2 DEF NewSheet
  <2>4. pattas[a.patta].status = "ACTIVE" /\ SheetsOf({a.patta}) = {}
    BY <1>1, <1>4 DEF CheckedOf
  <2>5. \A t \in Sheet : Present(sheets[t]) => sheets[t].patta # a.patta
    BY <2>4 DEF SheetsOf
  <2>6. after.pattas[a.patta] = pattas[a.patta]
    BY <1>3, <2>1
  <2> HIDE DEF new
  <2>7. InsertMatches(after, s)
    BY <2>3, <2>4, <2>5, <2>6 DEF InsertMatches, new
  <2>8. QED
    BY <1>2, <2>1, <2>7
<1>5. CASE a.kind = "create_standalone"
  <2>1. old = Absent /\ new.patta = NoNumber
    BY <1>1, <1>3, <1>5 DEF AskInv, Creating, Present, EntryAfter, NewSheet
  <2>2. QED
    BY <1>2, <2>1 DEF InsertMatches
<1>6. CASE a.kind \in Changing
  <2>1. Present(old) /\ old.version = a.expected /\ old \in SheetRecord
    BY <1>1, <1>2, <1>6, PresentFacts DEF FoundOf, Live
  <2>2. CASE a.kind = "edit_linked"
    <3>1. new = [old EXCEPT !.rows = pattas[old.patta].soni, !.version = a.expected + 1]
      BY <1>3, <2>2 DEF EntryAfter
    <3>2. old.patta # NoNumber /\ pattas[old.patta].soni = old.soni /\ old.patta \in Number
      BY <1>1, <1>2, <2>1, <2>2 DEF AskInv, QuantitiesAgree, SheetRecord
    <3>3. /\ new.version = old.version + 1 /\ new.soni = old.soni /\ new.patta = old.patta /\ new.rows = old.soni
          /\ new # Absent
      BY <2>1, <3>1, <3>2 DEF SheetRecord, Absent
    <3>4. QuantityOf(after, new) = old.soni
      BY <1>3, <3>2, <3>3 DEF QuantityOf
    <3> HIDE DEF new, old
    <3>5. UpdateMatches(after, s)
      BY <3>3, <3>4 DEF UpdateMatches, new, old
    <3>6. QED
      BY <1>2, <2>1, <3>3, <3>5 DEF new, old, Present
  <2>3. CASE a.kind \in {"trash", "restore"}
    <3> DEFINE trashed == IF a.kind = "trash" THEN TRUE ELSE FALSE
    <3>1. new = [old EXCEPT !.trashed = trashed, !.version = a.expected + 1]
      BY <1>3, <2>3 DEF EntryAfter
    <3>2. old.trashed # trashed /\ trashed \in BOOLEAN
      BY <1>1, <2>1, <2>3 DEF CheckedOf, SheetRecord
    <3> HIDE DEF trashed
    <3>3. new.version = old.version + 1 /\ new.soni = old.soni /\ new.trashed = trashed /\ new # Absent
      <4>1. new.version = old.version + 1 /\ new.soni = old.soni /\ new # Absent
        BY <2>1, <3>1 DEF SheetRecord, Absent
      <4>2. new.trashed = trashed
        BY <2>1, <3>1 DEF SheetRecord
      <4>3. QED
        BY <4>1, <4>2
    <3> HIDE DEF new, old
    <3>4. UpdateMatches(after, s)
      BY <3>2, <3>3 DEF UpdateMatches, new, old
    <3>5. QED
      BY <1>2, <2>1, <3>3, <3>4 DEF new, old, Present
  <2>4. CASE a.kind = "purge"
    <3>1. new = Absent /\ old.trashed
      BY <1>1, <1>3, <2>4 DEF EntryAfter, CheckedOf
    <3>2. QED
      BY <1>2, <2>1, <3>1 DEF Present
  <2>5. QED
    BY <1>1, <1>6, <2>2, <2>3, <2>4 DEF Changing
<1>7. QED
  BY <1>4, <1>5, <1>6 DEF Entering, Changing

LEMMA SheetsForeseen ==
  ASSUME ServiceInv, NEW r \in Request, Writing(r), NEW a, a = req[r], a.kind # "edit_standalone",
         NEW after, after = Outcome(a)
  PROVE  SheetsMatch(after)
<1>1. TablesTyped /\ AskInv(a) /\ a.kind \notin {"none", "reuse"}
  BY WritingFacts
<1> SUFFICES ASSUME NEW s \in Sheet, after.sheets[s] # sheets[s]
             PROVE  /\ sheets[s] = Absent => InsertMatches(after, s)
                    /\ sheets[s] # Absent /\ after.sheets[s] = Absent => sheets[s].trashed
                    /\ sheets[s] # Absent /\ after.sheets[s] # Absent => UpdateMatches(after, s)
  BY DEF SheetsMatch, Touched
<1>2. after.sheets[s] = SheetAfter(a, s)
  BY <1>1, OutcomeFacts
<1>3. CASE Corrects(a, s)
  BY <1>3, CorrectedSheet DEF Present
<1>4. CASE a.kind \in Entering /\ s = a.sheet
  BY <1>4, EnteredSheet
<1>5. QED
  BY <1>2, <1>3, <1>4 DEF SheetAfter

LEMMA TimesForeseen ==
  ASSUME ServiceInv, NEW r \in Request, Writing(r), NEW a, a = req[r],
         a.kind \notin Corrections \cup {"edit_standalone"}, NEW after, after = Outcome(a)
  PROVE  TimesMatch(r, after)
<1>1. TablesTyped /\ AskInv(a) /\ FoundOf(r, a) /\ TimesOf(r, a) /\ a.kind \notin {"none", "reuse"} /\ stage[r] = "write"
  BY WritingFacts
<1> SUFFICES ASSUME NEW s \in Sheet, after.sheets[s] # sheets[s]
             PROVE  s \notin overtaken[r]
  BY DEF TimesMatch, Touched
<1>2. after.sheets[s] = SheetAfter(a, s)
  BY <1>1, OutcomeFacts
<1>3. a.kind \in Entering /\ s = a.sheet
  BY <1>2, CorrectedSheet DEF SheetAfter
<1>4. CASE a.kind \in Creating
  BY <1>1, <1>3, <1>4 DEF TimesOf
<1>5. CASE a.kind \in Changing
  <2>1. Present(sheets[s]) /\ sheets[s].version = a.expected
    BY <1>1, <1>3, <1>5 DEF FoundOf, Live
  <2>2. sheets[s].version \in Nat
    BY <1>1, <2>1, PresentFacts DEF SheetRecord
  <2>3. a.kind \notin Creating
    BY <1>5 DEF Changing, Creating
  <2>4. QED
    BY <1>1, <1>3, <2>1, <2>2, <2>3 DEF TimesOf
<1>6. QED
  BY <1>3, <1>4, <1>5 DEF Entering, Creating, Changing

LEMMA ServicesForeseeIt ==
  ASSUME ServiceInv
  PROVE  ServicesForesee
<1> SUFFICES ASSUME NEW r \in Request, Writing(r), req[r].kind # "edit_standalone"
             PROVE  /\ GuardsAccept(req[r], Outcome(req[r]))
                    /\ req[r].kind \notin Corrections => TimesMatch(r, Outcome(req[r]))
  BY DEF ServicesForesee
<1>1. PICK a : a = req[r]
  OBVIOUS
<1>2. PICK after : after = Outcome(a)
  OBVIOUS
<1>3. RowsWritable(a)
  <2>1. CheckedOf(r, a) /\ stage[r] = "write"
    BY <1>1, WritingFacts
  <2>2. QED
    BY <1>1, <2>1 DEF CheckedOf, RowsWritable
<1>4. GuardsAccept(a, after)
  BY <1>1, <1>2, <1>3, ContentsForeseen, BatchesForeseen, PattasForeseen, SheetsForeseen DEF GuardsAccept
<1>5. a.kind \notin Corrections => TimesMatch(r, after)
  BY <1>1, <1>2, TimesForeseen
<1>6. QED
  BY <1>1, <1>2, <1>4, <1>5

-----------------------------------------------------------------------------
(* What a request has checked stays so until it writes.                    *)

Checks(r, a) == CountedOf(r, a) /\ CheckedOf(r, a) /\ TimesOf(r, a)

LEMMA ServiceFacts ==
  ASSUME ServiceInv
  PROVE  /\ IInv /\ ClaimInv /\ CheckInv /\ DistributionHolds
         /\ \A r \in Request : Checks(r, req[r])
BY DEF ServiceInv, CheckInv, Checks

LEMMA ServiceParts ==
  ASSUME IInv', ClaimInv', DistributionHolds', \A r \in Request : \A a : a = req'[r] => Checks(r, a)',
         \A n \in Number : Present(pattas'[n]) /\ pattas'[n].batch # "none" => Present(batches'[pattas'[n].batch])
  PROVE  ServiceInv'
<1>1. CheckInv'
  BY DEF CheckInv, Checks
<1>2. QED
  BY <1>1 DEF ServiceInv

\* Nothing has been checked of a request that is not there.
LEMMA IdleChecks ==
  ASSUME NEW r
  PROVE  Checks(r, Idle)
<1>1. Idle.kind = "none"
  BY DEF Idle
<1>2. QED
  BY <1>1 DEF Checks, CountedOf, CheckedOf, TimesOf, Creating, Entering

\* A step that leaves the tables alone leaves what the others have checked.
LEMMA ChecksStay ==
  ASSUME NEW q, NEW a, Checks(q, a), UNCHANGED data, stage'[q] = stage[q], overtaken'[q] = overtaken[q]
  PROVE  Checks(q, a)'
<1>1. (\A b : SizesOf(b)' = SizesOf(b)) /\ (\A numbers : SheetsOf(numbers)' = SheetsOf(numbers))
  BY SizesKept DEF data, SheetsOf
<1>2. Plan(a)' = Plan(a)
  BY <1>1 DEF Plan
<1>3. \A plan, sizes : Submitted(plan, sizes)' <=> Submitted(plan, sizes)
  BY DEF Submitted, Unused, data
<1>4. CountedOf(q, a)'
  BY <1>2, <1>3 DEF Checks, CountedOf, Unused, data
<1>5. CheckedOf(q, a)'
  BY <1>1 DEF Checks, CheckedOf, data
<1>6. TimesOf(q, a)'
  BY DEF Checks, TimesOf, data
<1>7. QED
  BY <1>4, <1>5, <1>6 DEF Checks

\* Steps that leave the tables alone and change the request r only.
LEMMA ServiceKeeps ==
  ASSUME ServiceInv, IInv', NEW r \in Request, UNCHANGED data,
         \A q \in Request \ {r} : req'[q] = req[q] /\ stage'[q] = stage[q] /\ overtaken'[q] = overtaken[q],
         \A a : a = req'[r] => Checks(r, a)',
         req'[r] = Idle => overtaken'[r] = {},
         \A q \in Request : \A p \in elders'[q] : req'[p] # Idle,
         \A q \in Request \ {r} : req'[r].kind \in Claiming /\ req[q].kind \in Claiming =>
           DOMAIN req'[r].sizes \cap DOMAIN req[q].sizes = {}
  PROVE  ServiceInv'
<1>1. IInv /\ ClaimInv /\ CheckInv /\ DistributionHolds /\ \A q \in Request : Checks(q, req[q])
  BY ServiceFacts
<1>2. ASSUME NEW q \in Request, NEW a, a = req'[q] PROVE Checks(q, a)'
  <2>1. CASE q = r
    BY <1>2, <2>1
  <2>2. CASE q # r
    BY <1>1, <1>2, <2>2, ChecksStay
  <2>3. QED
    BY <2>1, <2>2
<1>3. ClaimInv'
  <2>1. \A p, q \in Request : p # q /\ req'[p].kind \in Claiming /\ req'[q].kind \in Claiming =>
          DOMAIN req'[p].sizes \cap DOMAIN req'[q].sizes = {}
    <3> SUFFICES ASSUME NEW p \in Request, NEW q \in Request, p # q,
                        req'[p].kind \in Claiming, req'[q].kind \in Claiming
                 PROVE  DOMAIN req'[p].sizes \cap DOMAIN req'[q].sizes = {}
      OBVIOUS
    <3>1. CASE p = r
      BY <3>1
    <3>2. CASE q = r
      BY <3>2
    <3>3. CASE p # r /\ q # r
      BY <1>1, <3>3 DEF ClaimInv
    <3>4. QED
      BY <3>1, <3>2, <3>3
  <2>2. \A q \in Request : req'[q] = Idle => overtaken'[q] = {}
    BY <1>1 DEF ClaimInv
  <2>3. Claiming' = Claiming
    BY DEF Claiming
  <2>4. QED
    BY <2>1, <2>2, <2>3 DEF ClaimInv
<1>4. DistributionHolds'
  <2>1. \A b : Active(b)' = Active(b) /\ SizesOf(b)' = SizesOf(b)
    BY SizesKept DEF data
  <2>2. QED
    BY <1>1, <2>1 DEF DistributionHolds, data
<1>5. \A n \in Number : Present(pattas'[n]) /\ pattas'[n].batch # "none" => Present(batches'[pattas'[n].batch])
  BY <1>1 DEF CheckInv, data
<1>6. QED
  BY <1>2, <1>3, <1>4, <1>5, ServiceParts

LEMMA RefuseServes ==
  ASSUME ServiceInv, IInv', NEW r \in Request, Refuse(r)
  PROVE  ServiceInv'
<1>1. IInv /\ ClaimInv
  BY ServiceFacts
<1>2. /\ UNCHANGED data /\ overtaken' = [overtaken EXCEPT ![r] = {}]
      /\ elders' = [q \in Request |-> IF q = r THEN {} ELSE elders[q] \ {r}]
      /\ End(r) /\ LocksTyped
  BY <1>1, IInvFacts DEF Refuse, End
<1>3. overtaken'[r] = {} /\ \A q \in Request \ {r} : overtaken'[q] = overtaken[q]
  BY <1>2 DEF LocksTyped
<1>4. overtaken' \in [Request -> SUBSET Sheet]
  BY <1>2 DEF LocksTyped
<1>5. /\ \A q \in Request \ {r} : req'[q] = req[q] /\ stage'[q] = stage[q]
      /\ req'[r] = Idle /\ req'[r].kind = "none"
  BY <1>1, <1>2, <1>4, EndFacts
<1>6. \A a : a = req'[r] => Checks(r, a)'
  <2>1. Checks(r, Idle)'
    BY IdleChecks, PTL
  <2>2. QED
    BY <1>5, <2>1
<1>7. \A q \in Request : \A p \in elders'[q] : req'[p] # Idle
  <2>1. \A q \in Request : \A p \in elders'[q] : p \in elders[q] /\ p # r /\ p \in Request
    BY <1>2 DEF LocksTyped
  <2>2. QED
    BY <1>1, <1>5, <2>1 DEF ClaimInv
<1>8. req'[r].kind \notin Claiming
  BY <1>5 DEF Claiming
<1>9. QED
  BY <1>2, <1>3, <1>5, <1>6, <1>7, <1>8, ServiceKeeps

LEMMA AcquireServes ==
  ASSUME ServiceInv, IInv', NEW r \in Request, Acquire(r)
  PROVE  ServiceInv'
<1>1. IInv /\ ClaimInv /\ Checks(r, req[r])
  BY ServiceFacts
<1>2. UNCHANGED data /\ req' = req /\ stage' = stage /\ elders' = elders /\ overtaken' = overtaken
  BY DEF Acquire, data
<1>3. \A a : a = req'[r] => Checks(r, a)'
  BY <1>1, <1>2, ChecksStay
<1>4. /\ \A q \in Request : \A p \in elders'[q] : req'[p] # Idle
      /\ req'[r] = Idle => overtaken'[r] = {}
      /\ \A q \in Request \ {r} : req'[r].kind \in Claiming /\ req[q].kind \in Claiming =>
           DOMAIN req'[r].sizes \cap DOMAIN req[q].sizes = {}
  BY <1>1, <1>2 DEF ClaimInv
<1>5. QED
  BY <1>2, <1>3, <1>4, ServiceKeeps

LEMMA StatementServes ==
  ASSUME ServiceInv, IInv', NEW r \in Request, NEW next, NEW rows, Statement(r, next, rows),
         \A a : a = req[r] => Checks(r, a)'
  PROVE  ServiceInv'
<1>1. IInv /\ ClaimInv
  BY ServiceFacts
<1>2. /\ UNCHANGED data /\ req' = req /\ elders' = elders /\ overtaken' = overtaken
      /\ stage' = [stage EXCEPT ![r] = next]
  BY DEF Statement, data
<1>3. \A q \in Request \ {r} : stage'[q] = stage[q]
  BY <1>1, <1>2, IInvFacts
<1>4. /\ \A q \in Request : \A p \in elders'[q] : req'[p] # Idle
      /\ req'[r] = Idle => overtaken'[r] = {}
      /\ \A q \in Request \ {r} : req'[r].kind \in Claiming /\ req[q].kind \in Claiming =>
           DOMAIN req'[r].sizes \cap DOMAIN req[q].sizes = {}
  BY <1>1, <1>2 DEF ClaimInv
<1>5. QED
  BY <1>2, <1>3, <1>4, ServiceKeeps

\* A statement by which nothing comes to be checked.
LEMMA PlainStatement ==
  ASSUME ServiceInv, IInv', NEW r \in Request, NEW next, NEW rows, Statement(r, next, rows), NEW a, a = req[r],
         a.kind = "correct_offline" => next # "write",
         a.kind \in {"legacy", "create_linked"} => stage[r] # "patta" /\ next # "write",
         a.kind \in Changing => stage[r] # "sheet"
  PROVE  ServiceInv'
<1>1. IInv /\ Checks(r, a)
  BY ServiceFacts
<1>2. UNCHANGED data /\ overtaken' = overtaken /\ stage' = [stage EXCEPT ![r] = next]
  BY DEF Statement, data
<1>3. stage'[r] = next
  BY <1>1, <1>2, IInvFacts
<1>4. CountedOf(r, a)'
  BY <1>1, <1>2, <1>3 DEF Checks, CountedOf, Unused, data
<1>5. CheckedOf(r, a)'
  BY <1>1, <1>2, <1>3 DEF Checks, CheckedOf, Changing, data
<1>6. TimesOf(r, a)'
  BY <1>1, <1>2 DEF Checks, TimesOf, data
<1>7. Checks(r, a)'
  BY <1>4, <1>5, <1>6 DEF Checks
<1>8. QED
  BY <1>7, StatementServes

\* A statement of a request that has checked a sheet or a Patta.
LEMMA CheckedStatement ==
  ASSUME ServiceInv, IInv', NEW r \in Request, NEW next, NEW rows, Statement(r, next, rows), NEW a, a = req[r],
         a.kind \in Changing \cup {"legacy", "create_linked"},
         CheckedOf(r, a)'
  PROVE  ServiceInv'
<1>1. IInv /\ Checks(r, a)
  BY ServiceFacts
<1>2. UNCHANGED data /\ overtaken' = overtaken
  BY DEF Statement, data
<1>3. CountedOf(r, a)'
  BY DEF CountedOf, Changing
<1>4. TimesOf(r, a)'
  BY <1>1, <1>2 DEF Checks, TimesOf, data
<1>5. Checks(r, a)'
  BY <1>3, <1>4 DEF Checks
<1>6. QED
  BY <1>5, StatementServes

LEMMA BeginServes ==
  ASSUME ServiceInv, IInv', NEW r \in Request, NEW ask, NEW first, NEW rows, Begin(r, ask, first, rows),
         ask.kind \in Claiming => Unclaimed(DOMAIN ask.sizes),
         stage'[r] = first => Checks(r, ask)'
  PROVE  ServiceInv'
<1>1. IInv /\ ClaimInv
  BY ServiceFacts
<1>2. /\ UNCHANGED data /\ overtaken' = overtaken /\ req[r] = Idle /\ ask.kind \in Kind
      /\ req' = [req EXCEPT ![r] = ask] /\ stage' = [stage EXCEPT ![r] = first]
      /\ elders' = [elders EXCEPT ![r] = {q \in Request : req[q] # Idle}]
  BY DEF Begin, data
<1>3. LocksTyped /\ req = [q \in Request |-> req[q]] /\ stage = [q \in Request |-> stage[q]]
  BY <1>1, IInvFacts
<1>4. req'[r] = ask /\ stage'[r] = first /\ \A q \in Request \ {r} : req'[q] = req[q] /\ stage'[q] = stage[q]
  BY <1>2, <1>3
<1>5. overtaken'[r] = {}
  BY <1>1, <1>2 DEF ClaimInv
<1>6. \A q \in Request : \A p \in elders'[q] : req'[p] # Idle
  <2>1. req'[r] # Idle
    BY <1>2, <1>4, DocumentsAssumption DEF Idle
  <2>2. \A q \in Request : \A p \in elders'[q] : p \in Request /\ req[p] # Idle
    BY <1>1, <1>2, <1>3 DEF ClaimInv, LocksTyped
  <2>3. QED
    BY <1>4, <2>1, <2>2
<1>7. \A q \in Request \ {r} : req'[r].kind \in Claiming /\ req[q].kind \in Claiming =>
        DOMAIN req'[r].sizes \cap DOMAIN req[q].sizes = {}
  BY <1>4 DEF Unclaimed
<1>8. \A a : a = req'[r] => Checks(r, a)'
  BY <1>4
<1>9. QED
  BY <1>2, <1>4, <1>5, <1>6, <1>7, <1>8, ServiceKeeps

\* A request begins, and has checked nothing yet.
LEMMA BeginPlainServes ==
  ASSUME ServiceInv, IInv', NEW r \in Request, NEW ask, NEW first, NEW rows, Begin(r, ask, first, rows),
         ask.kind \notin Entering \cup Claiming, first # "write", ask.kind = "legacy" => first = "patta"
  PROVE  ServiceInv'
<1>1. ASSUME stage'[r] = first PROVE Checks(r, ask)'
  BY <1>1 DEF Checks, CountedOf, CheckedOf, TimesOf, Entering, Claiming, Creating
<1>2. QED
  BY <1>1, BeginServes

\* A request begins with the numbers a device printed.
LEMMA BeginClaimServes ==
  ASSUME ServiceInv, IInv', NEW r \in Request, NEW ask, NEW first, NEW rows, Begin(r, ask, first, rows),
         ask.kind \in Claiming, Unclaimed(DOMAIN ask.sizes),
         ask.kind \in {"register", "register_one"} => Unused(DOMAIN ask.sizes),
         ask.kind = "register" => \A z \in Razmer : CountOf(ask.sizes, z) = ask.target[z],
         ask.kind = "correct_offline" => first # "write"
  PROVE  ServiceInv'
<1>1. UNCHANGED data
  BY DEF Begin
<1>2. ASSUME stage'[r] = first PROVE Checks(r, ask)'
  BY <1>1, <1>2 DEF Checks, CountedOf, CheckedOf, TimesOf, Entering, Claiming, Creating, Unused, data
<1>3. QED
  BY <1>2, BeginServes

\* A request begins on a sheet.
LEMMA BeginEntryServes ==
  ASSUME ServiceInv, IInv', NEW r \in Request, NEW ask, NEW first, NEW rows, Begin(r, ask, first, rows),
         ask.kind \in Entering, ask.kind = "create_linked" => first = "patta", ask.kind \in Changing => first = "sheet",
         ask.kind \notin Creating => ask.expected <= sheets[ask.sheet].version
  PROVE  ServiceInv'
<1>1. UNCHANGED data /\ overtaken' = overtaken /\ req[r] = Idle
  BY DEF Begin, data
<1>2. overtaken'[r] = {}
  BY <1>1, ServiceFacts DEF ClaimInv
<1>3. ask.kind \notin Claiming
  BY DEF Entering, Claiming
<1>4. ASSUME stage'[r] = first PROVE Checks(r, ask)'
  <2>1. CountedOf(r, ask)'
    BY <1>3 DEF CountedOf, Claiming
  <2>2. CheckedOf(r, ask)'
    BY <1>4 DEF CheckedOf, Entering, Changing
  <2>3. TimesOf(r, ask)'
    BY <1>1, <1>2 DEF TimesOf, data
  <2>4. QED
    BY <2>1, <2>2, <2>3 DEF Checks
<1>5. QED
  BY <1>3, <1>4, BeginServes

LEMMA BeginsServe ==
  ASSUME ServiceInv, IInv', NEW r \in Request,
         \/ BeginCreate(r) \/ BeginRegister(r) \/ BeginRegisterOne(r) \/ BeginCorrect(r) \/ BeginCorrectOffline(r)
         \/ BeginLegacy(r) \/ BeginPrint(r)
  PROVE  ServiceInv'
<1>1. CASE BeginCreate(r)
  <2>1. PICK b \in Batch, soni \in Soni, target \in Distribution :
          Begin(r, [kind |-> "create", batch |-> b, soni |-> soni, target |-> target, first |-> NoNumber], "numbers",
                <<PartiyaSequence, PattaSequence>>)
    BY <1>1 DEF BeginCreate
  <2> DEFINE ask == [kind |-> "create", batch |-> b, soni |-> soni, target |-> target, first |-> NoNumber]
  <2>2. ask.kind \notin Entering \cup Claiming /\ ask.kind # "legacy"
    BY DEF Entering, Claiming
  <2> HIDE DEF ask
  <2>3. QED
    BY <2>1, <2>2, BeginPlainServes DEF ask
<1>2. CASE BeginRegister(r)
  <2>1. PICK b \in Batch, soni \in Soni, target \in Distribution, numbers \in SUBSET BlockNumber :
          /\ Unclaimed(numbers) /\ Unused(numbers)
          /\ \E sizes \in OfflineSizes(numbers, target) :
               Begin(r, [kind |-> "register", batch |-> b, soni |-> soni, target |-> target, sizes |-> sizes],
                     "write", <<>>)
    BY <1>2 DEF BeginRegister
  <2>2. PICK sizes \in OfflineSizes(numbers, target) :
          Begin(r, [kind |-> "register", batch |-> b, soni |-> soni, target |-> target, sizes |-> sizes], "write", <<>>)
    BY <2>1
  <2> DEFINE ask == [kind |-> "register", batch |-> b, soni |-> soni, target |-> target, sizes |-> sizes]
  <2>3. ask.kind = "register" /\ ask.kind \in Claiming /\ ask.sizes = sizes /\ ask.target = target
    BY DEF Claiming
  <2>4. DOMAIN sizes = numbers /\ \A z \in Razmer : CountOf(sizes, z) = target[z]
    BY <2>2 DEF OfflineSizes
  <2> HIDE DEF ask
  <2>5. Begin(r, ask, "write", <<>>)
    BY <2>2 DEF ask
  <2>6. QED
    BY <2>1, <2>3, <2>4, <2>5, BeginClaimServes
<1>3. CASE BeginRegisterOne(r)
  <2>1. PICK n \in BlockNumber, soni \in Soni, z \in Razmer :
          /\ Unclaimed({n}) /\ Unused({n})
          /\ Begin(r, [kind |-> "register_one", soni |-> soni, sizes |-> [m \in {n} |-> z]], "write", <<>>)
    BY <1>3 DEF BeginRegisterOne
  <2> DEFINE ask == [kind |-> "register_one", soni |-> soni, sizes |-> [m \in {n} |-> z]]
  <2>2. ask.kind = "register_one" /\ ask.kind \in Claiming /\ DOMAIN ask.sizes = {n}
    BY DEF Claiming
  <2>3. Begin(r, ask, "write", <<>>)
    BY <2>1
  <2> HIDE DEF ask
  <2>4. QED
    BY <2>1, <2>2, <2>3, BeginClaimServes
<1>4. CASE BeginCorrect(r)
  <2>1. PICK b \in Batch, soni \in Soni, target \in Distribution :
          \E expected \in 1 .. batches[b].version :
            Begin(r, Correction("correct", b, expected, soni, target, <<>>), "batch", <<BatchRow(b)>>)
    BY <1>4 DEF BeginCorrect
  <2>2. PICK expected : Begin(r, Correction("correct", b, expected, soni, target, <<>>), "batch", <<BatchRow(b)>>)
    BY <2>1
  <2> DEFINE ask == Correction("correct", b, expected, soni, target, <<>>)
  <2>3. ask.kind \notin Entering \cup Claiming /\ ask.kind # "legacy"
    BY DEF Entering, Claiming, Correction
  <2> HIDE DEF ask
  <2>4. QED
    BY <2>2, <2>3, BeginPlainServes DEF ask
<1>5. CASE BeginCorrectOffline(r)
  <2>1. PICK b \in Batch, soni \in Soni, target \in Distribution, numbers \in SUBSET BlockNumber :
          /\ Unclaimed(numbers)
          /\ \E expected \in 1 .. batches[b].version, sizes \in [numbers -> Razmer] :
               Begin(r, Correction("correct_offline", b, expected, soni, target, sizes), "batch", <<BatchRow(b)>>)
    BY <1>5 DEF BeginCorrectOffline
  <2>2. PICK expected \in 1 .. batches[b].version, sizes \in [numbers -> Razmer] :
          Begin(r, Correction("correct_offline", b, expected, soni, target, sizes), "batch", <<BatchRow(b)>>)
    BY <2>1
  <2> DEFINE ask == Correction("correct_offline", b, expected, soni, target, sizes)
  <2>3. ask.kind = "correct_offline" /\ ask.kind \in Claiming /\ DOMAIN ask.sizes = numbers
    BY DEF Claiming, Correction
  <2> HIDE DEF ask
  <2>4. Begin(r, ask, "batch", <<BatchRow(b)>>)
    BY <2>2 DEF ask
  <2>5. QED
    BY <2>1, <2>3, <2>4, BeginClaimServes
<1>6. CASE BeginLegacy(r)
  <2>1. PICK n \in LegacyNumber, soni \in Soni, expected \in {1, 2} :
          Begin(r, [kind |-> "legacy", patta |-> n, soni |-> soni, expected |-> expected], "patta", <<PattaRow(n)>>)
    BY <1>6 DEF BeginLegacy
  <2> DEFINE ask == [kind |-> "legacy", patta |-> n, soni |-> soni, expected |-> expected]
  <2>2. ask.kind \notin Entering \cup Claiming
    BY DEF Entering, Claiming
  <2> HIDE DEF ask
  <2>3. QED
    BY <2>1, <2>2, BeginPlainServes DEF ask
<1>7. CASE BeginPrint(r)
  <2>1. PICK p \in PrintEvent, b \in Batch, revision \in 1 .. MaxVersion, outcome \in PrintOutcome :
          Begin(r, [kind |-> "print", event |-> p, batch |-> b, revision |-> revision, outcome |-> outcome],
                "batch", <<BatchRow(b)>>)
    BY <1>7 DEF BeginPrint
  <2> DEFINE ask == [kind |-> "print", event |-> p, batch |-> b, revision |-> revision, outcome |-> outcome]
  <2>2. ask.kind \notin Entering \cup Claiming /\ ask.kind # "legacy"
    BY DEF Entering, Claiming
  <2> HIDE DEF ask
  <2>3. QED
    BY <2>1, <2>2, BeginPlainServes DEF ask
<1>8. QED
  BY <1>1, <1>2, <1>3, <1>4, <1>5, <1>6, <1>7

LEMMA OnSheetServes ==
  ASSUME ServiceInv, IInv', NEW r \in Request, NEW kind \in Changing, NEW s,
         OnSheet(r, kind, s)
  PROVE  ServiceInv'
<1>1. PICK expected \in 1 .. MaxVersion - 1 :
        /\ expected <= sheets[s].version
        /\ Begin(r, [kind |-> kind, sheet |-> s, expected |-> expected], "sheet", <<SheetRow(s)>>)
  BY DEF OnSheet
<1> DEFINE ask == [kind |-> kind, sheet |-> s, expected |-> expected]
<1>2. ask.kind \in Entering /\ ask.kind # "create_linked" /\ ask.sheet = s /\ ask.expected = expected
  BY DEF Entering, Changing
<1> HIDE DEF ask
<1>3. Begin(r, ask, "sheet", <<SheetRow(s)>>)
  BY <1>1 DEF ask
<1>4. QED
  BY <1>1, <1>2, <1>3, BeginEntryServes

LEMMA BeginsOnSheetsServe ==
  ASSUME ServiceInv, IInv', NEW r \in Request,
         \/ BeginCreateLinked(r) \/ BeginCreateStandalone(r) \/ BeginOnSheet(r) \/ ApplyUpdateEvent(r)
         \/ BeginEditStandalone(r)
  PROVE  ServiceInv'
<1>1. CASE BeginCreateLinked(r)
  <2>1. PICK s \in Sheet, n \in Number :
          Begin(r, [kind |-> "create_linked", sheet |-> s, patta |-> n], "patta", <<PattaRow(n)>>)
    BY <1>1 DEF BeginCreateLinked
  <2> DEFINE ask == [kind |-> "create_linked", sheet |-> s, patta |-> n]
  <2>2. ask.kind \in Entering /\ ask.kind \in Creating /\ ask.kind \notin Changing
    BY DEF Entering, Creating, Changing
  <2> HIDE DEF ask
  <2>3. QED
    BY <2>1, <2>2, BeginEntryServes DEF ask
<1>2. CASE BeginCreateStandalone(r)
  <2>1. PICK s \in Sheet, soni \in Soni :
          Begin(r, [kind |-> "create_standalone", sheet |-> s, soni |-> soni], "write", <<>>)
    BY <1>2 DEF BeginCreateStandalone
  <2> DEFINE ask == [kind |-> "create_standalone", sheet |-> s, soni |-> soni]
  <2>2. ask.kind \in Entering /\ ask.kind \in Creating /\ ask.kind \notin Changing /\ ask.kind # "create_linked"
    BY DEF Entering, Creating, Changing
  <2> HIDE DEF ask
  <2>3. Begin(r, ask, "write", <<>>)
    BY <2>1 DEF ask
  <2>4. QED
    BY <2>2, <2>3, BeginEntryServes
<1>3. CASE BeginOnSheet(r)
  BY <1>3, OnSheetServes DEF BeginOnSheet, Changing
<1>4. CASE ApplyUpdateEvent(r)
  <2>1. PICK s \in Sheet : OnSheet(r, "edit_linked", s) \/ OnSheet(r, "trash", s) \/ OnSheet(r, "restore", s)
    BY <1>4 DEF ApplyUpdateEvent
  <2>2. QED
    BY <2>1, OnSheetServes DEF Changing
<1>5. CASE BeginEditStandalone(r)
  <2>1. PICK s \in Sheet :
          /\ Present(sheets[s])
          /\ Begin(r, [kind |-> "edit_standalone", sheet |-> s, expected |-> sheets[s].version],
                   "write", <<SheetRows(s), SheetRow(s)>>)
    BY <1>5 DEF BeginEditStandalone
  <2> DEFINE ask == [kind |-> "edit_standalone", sheet |-> s, expected |-> sheets[s].version]
  <2>2. /\ ask.kind \in Entering /\ ask.kind \notin Changing /\ ask.kind # "create_linked"
        /\ ask.sheet = s /\ ask.expected = sheets[s].version
    BY DEF Entering, Changing
  <2>3. sheets[s].version \in Nat
    BY <2>1, ServiceFacts, IInvFacts, PresentFacts DEF Sound, SheetRecord
  <2> HIDE DEF ask
  <2>4. Begin(r, ask, "write", <<SheetRows(s), SheetRow(s)>>)
    BY <2>1 DEF ask
  <2>5. QED
    BY <2>2, <2>3, <2>4, BeginEntryServes
<1>6. QED
  BY <1>1, <1>2, <1>3, <1>4, <1>5

\* The number is read: nothing of what the services check.
LEMMA NumbersServe ==
  ASSUME ServiceInv, IInv', NEW r \in Request, TakeNumbers(r) \/ AllocateCorrectionPattaNumbers(r)
  PROVE  ServiceInv'
<1>1. /\ want[r] = <<>> /\ req[r].kind \in {"create", "correct"}
      /\ Refuse(r) \/ ReadSequence(r)
  BY DEF TakeNumbers, AllocateCorrectionPattaNumbers, At
<1>2. CASE ReadSequence(r)
  <2>1. PICK a : a = req'[r]
    OBVIOUS
  <2>2. IInv /\ ClaimInv
    BY ServiceFacts
  <2>3. UNCHANGED data /\ elders' = elders /\ overtaken' = overtaken /\ a.kind = req[r].kind
    BY <1>1, <1>2, <2>1, <2>2, ReadFacts
  <2>4. /\ req' = [req EXCEPT ![r] = a] /\ stage' = [stage EXCEPT ![r] = "write"]
    BY <1>2, <2>1, <2>2, IInvFacts DEF ReadSequence
  <2>5. req'[r] = a /\ \A q \in Request \ {r} : req'[q] = req[q] /\ stage'[q] = stage[q]
    BY <2>2, <2>4, IInvFacts
  <2>6. a.kind \in {"create", "correct"} /\ a # Idle
    BY <1>1, <2>3 DEF Idle
  <2>7. Checks(r, a)'
    BY <2>6 DEF Checks, CountedOf, CheckedOf, TimesOf, Creating, Entering
  <2>8. \A q \in Request : \A p \in elders'[q] : req'[p] # Idle
    BY <2>2, <2>3, <2>5, <2>6, IInvFacts DEF ClaimInv, LocksTyped
  <2>9. a.kind \notin Claiming
    BY <2>6 DEF Claiming
  <2>10. QED
    BY <2>3, <2>5, <2>6, <2>7, <2>8, <2>9, ServiceKeeps
<1>3. QED
  BY <1>1, <1>2, RefuseServes

\* Statements that refuse, or go on to the next one.
LEMMA CorrectingServes ==
  ASSUME ServiceInv, IInv', NEW r \in Request, CorrectBatch(r) \/ CorrectEntries(r) \/ PrintBatch(r)
  PROVE  ServiceInv'
<1>1. CASE Refuse(r)
  BY <1>1, RefuseServes
<1>2. CASE ~Refuse(r)
  <2>1. PICK a : a = req[r]
    OBVIOUS
  <2>2. /\ a.kind \in {"correct", "correct_offline", "print"}
        /\ \E next, rows : Statement(r, next, rows) /\ (a.kind = "correct_offline" => next # "write")
    BY <1>2, <2>1
       DEF CorrectBatch, CorrectEntries, PrintBatch, Correcting, At
  <2>3. PICK next, rows : Statement(r, next, rows) /\ (a.kind = "correct_offline" => next # "write")
    BY <2>2
  <2>4. a.kind \notin Changing
    BY <2>2 DEF Changing
  <2>5. QED
    BY <2>1, <2>2, <2>3, <2>4, PlainStatement
<1>3. QED
  BY <1>1, <1>2

\* What a device added fits what the batch is missing when it is to be written.
LEMMA CorrectAssignServes ==
  ASSUME ServiceInv, IInv', NEW r \in Request, CorrectAssign(r)
  PROVE  ServiceInv'
<1>1. PICK a : a = req[r]
  OBVIOUS
<1>2. a.kind \in Corrections
  BY <1>1 DEF CorrectAssign, Correcting, At, Corrections
<1>3. CASE Refuse(r)
  BY <1>3, RefuseServes
<1>4. CASE a.kind = "correct" /\ ~Refuse(r)
  <2>1. \E next, rows : Statement(r, next, rows)
    BY <1>1, <1>4 DEF CorrectAssign
  <2>2. PICK next, rows : Statement(r, next, rows)
    BY <2>1
  <2>3. QED
    BY <1>1, <1>4, <2>2, PlainStatement DEF Changing
<1>5. CASE a.kind = "correct_offline" /\ ~Refuse(r)
  <2>1. Submitted(Plan(a), a.sizes) /\ Statement(r, "write", <<>>)
    BY <1>1, <1>5 DEF CorrectAssign
  <2>2. UNCHANGED data
    BY <2>1 DEF Statement
  <2>3. Plan(a)' = Plan(a)
    <3>1. \A b : SizesOf(b)' = SizesOf(b)
      BY <2>2, SizesKept DEF data
    <3>2. QED
      BY <3>1 DEF Plan
  <2>4. CountedOf(r, a)'
    BY <1>5, <2>1, <2>2, <2>3 DEF CountedOf, Submitted, Unused, data
  <2>5. CheckedOf(r, a)' /\ TimesOf(r, a)'
    BY <1>5 DEF CheckedOf, TimesOf, Creating, Entering
  <2>6. Checks(r, a)'
    BY <2>4, <2>5 DEF Checks
  <2>7. QED
    BY <1>1, <2>1, <2>6, StatementServes
<1>6. QED
  BY <1>2, <1>3, <1>4, <1>5 DEF Corrections

\* The Patta of a creation is ACTIVE, and has no sheet when one is written.
LEMMA CreateLinkedServes ==
  ASSUME ServiceInv, IInv', NEW r \in Request, CreateLinkedPatta(r) \/ CreateLinkedPrior(r)
  PROVE  ServiceInv'
<1>1. PICK a : a = req[r]
  OBVIOUS
<1>2. IInv /\ Checks(r, a) /\ a.kind = "create_linked"
  BY <1>1, ServiceFacts DEF CreateLinkedPatta, CreateLinkedPrior, At
<1>3. CASE Refuse(r)
  BY <1>3, RefuseServes
<1>4. CASE CreateLinkedPatta(r) /\ ~Refuse(r)
  <2>1. pattas[a.patta].status = "ACTIVE" /\ Statement(r, "prior", SheetRowsOf({a.patta}))
    BY <1>1, <1>4 DEF CreateLinkedPatta
  <2>2. UNCHANGED data /\ stage' = [stage EXCEPT ![r] = "prior"]
    BY <2>1 DEF Statement
  <2>3. stage'[r] = "prior"
    BY <1>2, <2>2, IInvFacts
  <2>4. CheckedOf(r, a)'
    BY <1>2, <2>1, <2>2, <2>3 DEF CheckedOf, data
  <2>5. QED
    BY <1>1, <1>2, <2>1, <2>4, CheckedStatement
<1>5. CASE CreateLinkedPrior(r) /\ ~Refuse(r)
  <2>1. SheetsOf({a.patta}) = {} /\ Statement(r, "write", <<>>) /\ stage[r] = "prior"
    BY <1>1, <1>5 DEF CreateLinkedPrior, At
  <2>2. UNCHANGED data
    BY <2>1 DEF Statement
  <2>3. \A numbers : SheetsOf(numbers)' = SheetsOf(numbers)
    BY <2>2 DEF SheetsOf, data
  <2>4. CheckedOf(r, a)'
    BY <1>2, <2>1, <2>2, <2>3 DEF Checks, CheckedOf, data
  <2>5. QED
    BY <1>1, <1>2, <2>1, <2>4, CheckedStatement
<1>6. QED
  BY <1>3, <1>4, <1>5

\* The quantity of a legacy Patta is unknown until the correction writes it.
LEMMA LegacyServes ==
  ASSUME ServiceInv, IInv', NEW r \in Request, LegacyEntries(r)
  PROVE  ServiceInv'
<1>1. PICK a : a = req[r]
  OBVIOUS
<1>2. a.kind = "legacy"
  BY <1>1 DEF LegacyEntries, At
<1>3. CASE Refuse(r)
  BY <1>3, RefuseServes
<1>4. CASE ~Refuse(r)
  <2>1. pattas[a.patta].soni = Unknown /\ Statement(r, "write", SheetRowsOf({a.patta}))
    BY <1>1, <1>4 DEF LegacyEntries
  <2>2. UNCHANGED data
    BY <2>1 DEF Statement
  <2>3. CheckedOf(r, a)'
    BY <1>2, <2>1, <2>2 DEF CheckedOf, data
  <2>4. QED
    BY <1>1, <1>2, <2>1, <2>3, CheckedStatement
<1>5. QED
  BY <1>3, <1>4

\* A sheet is in the Trash, or is not, as its operation needs.
LEMMA ChangingServes ==
  ASSUME ServiceInv, IInv', NEW r \in Request, EditLinked(r) \/ EditLinkedPatta(r) \/ SetTrashed(r) \/ Purge(r)
  PROVE  ServiceInv'
<1>1. PICK a : a = req[r]
  OBVIOUS
<1>2. IInv /\ Checks(r, a) /\ a.kind \in Changing
  BY <1>1, ServiceFacts DEF EditLinked, EditLinkedPatta, SetTrashed, Purge, At, Changing
<1>3. CASE Refuse(r)
  BY <1>3, RefuseServes
<1>4. CASE EditLinkedPatta(r) /\ ~Refuse(r)
  <2>1. Statement(r, "write", <<>>) /\ stage[r] = "patta" /\ a.kind = "edit_linked"
    BY <1>1, <1>4 DEF EditLinkedPatta, At
  <2>2. QED
    BY <1>1, <2>1, PlainStatement
<1>5. CASE ~EditLinkedPatta(r) /\ ~Refuse(r)
  <2>1. /\ \E next, rows : Statement(r, next, rows)
        /\ a.kind = "edit_linked" => ~sheets[a.sheet].trashed
    BY <1>1, <1>5 DEF EditLinked, SetTrashed, Purge, At
  <2>2. /\ Present(sheets[a.sheet])
        /\ a.kind = "trash" => ~sheets[a.sheet].trashed
        /\ a.kind \in {"restore", "purge"} => sheets[a.sheet].trashed
    <3>1. Present(sheets[a.sheet])
      BY <1>1, <1>5 DEF EditLinked, SetTrashed, Purge, At, Live
    <3>2. a.sheet \in Sheet
      BY <1>1, <1>2, IInvFacts DEF Standing, AskInv, Changing, Entering
    <3>3. sheets[a.sheet].trashed \in BOOLEAN
      BY <1>2, <3>1, <3>2, IInvFacts, PresentFacts DEF Sound, SheetRecord
    <3>4. a.kind \in {"trash", "restore"} => sheets[a.sheet].trashed = (a.kind = "restore")
      BY <1>1, <1>5 DEF EditLinked, SetTrashed, Purge, At
    <3>5. a.kind = "purge" => sheets[a.sheet].trashed
      BY <1>1, <1>5 DEF EditLinked, SetTrashed, Purge, At
    <3>6. a.kind = "trash" => ~sheets[a.sheet].trashed
      BY <3>4
    <3>7. a.kind = "restore" => sheets[a.sheet].trashed
      BY <3>4
    <3>8. QED
      BY <3>1, <3>5, <3>6, <3>7
  <2>3. PICK next, rows : Statement(r, next, rows)
    BY <2>1
  <2>4. UNCHANGED data
    BY <2>3 DEF Statement
  <2>5. CheckedOf(r, a)'
    BY <1>2, <2>1, <2>2, <2>4 DEF CheckedOf, Changing, data
  <2>6. QED
    BY <1>1, <1>2, <2>3, <2>5, CheckedStatement
<1>6. QED
  BY <1>3, <1>4, <1>5

\* The Patta whose row the writer does not hold stays as it is.
LEMMA PattaUntouched ==
  ASSUME ServiceInv, NEW r \in Request, Writing(r), NEW a, a = req[r], NEW n \in Number, Present(pattas[n]),
         PattaRow(n) \notin held[r]
  PROVE  PattaAfter(a, n) = pattas[n]
<1>1. LockOf(r, a) /\ AskInv(a) /\ stage[r] = "write"
  BY WritingFacts
<1>2. n \notin DOMAIN Added(a)
  BY AddedFacts DEF Present
<1>3. ~(a.kind \in Corrections /\ n \in Active(a.batch))
  BY <1>1 DEF LockOf, CorrectionLocks
<1>4. ~(a.kind = "legacy" /\ n = a.patta)
  BY <1>1 DEF LockOf, PattaLocks
<1>5. QED
  BY <1>2, <1>3, <1>4, PattaValues

\* A free number of a block is taken by the request that claims it only.
LEMMA BlockNumberUntouched ==
  ASSUME ServiceInv, NEW r \in Request, Writing(r), NEW a, a = req[r], NEW n \in BlockNumber, pattas[n] = Absent,
         a.kind \in Claiming => n \notin DOMAIN a.sizes
  PROVE  PattaAfter(a, n) = Absent
<1>1. TablesTyped /\ AskInv(a) /\ ReferenceInv
  BY WritingFacts DEF Sound
<1>2. n \in Number /\ n \notin 1 .. MaxNumber
  BY NumberFacts
<1>3. n \notin DOMAIN Added(a)
  BY <1>2, AddedFacts
<1>4. ~(a.kind \in Corrections /\ n \in Active(a.batch))
  BY DEF Active, Present
<1>5. ~(a.kind = "legacy" /\ n = a.patta)
  BY <1>1 DEF AskInv, ReferenceInv, Present
<1>6. QED
  BY <1>2, <1>3, <1>4, <1>5, PattaValues

\* The write of r.
WriteOf(r, a) ==
  /\ Writing(r) /\ a = req[r] /\ Effect(r) /\ Judged
  /\ \A n \in Number : pattas'[n] = PattaAfter(a, n)
  /\ \A b \in Batch : batches'[b] = BatchAfter(a, b)
  /\ \A q \in Request \ {r} : req'[q] = req[q] /\ stage'[q] = stage[q] /\ held[r] \cap held[q] = {}
  /\ \A q \in Request \ {r} : /\ overtaken[q] \subseteq overtaken'[q]
                              /\ \A s \in overtaken'[q] \ overtaken[q] : sheets'[s] # sheets[s]

LEMMA CountedSurvives ==
  ASSUME ServiceInv, NEW r \in Request, NEW a, WriteOf(r, a), NEW q \in Request \ {r}, NEW c, c = req[q]
  PROVE  CountedOf(q, c)'
<1>1. TablesTyped /\ Standing(q, c) /\ Checks(q, c) /\ ClaimInv
  BY ServiceFacts, IInvFacts DEF Sound
<1>2. ASSUME c.kind \in Claiming, Unused(DOMAIN c.sizes)
      PROVE  Unused(DOMAIN c.sizes)'
  <2>1. DOMAIN c.sizes \subseteq BlockNumber /\ BlockNumber \subseteq Number
    BY <1>1, <1>2, NumberFacts DEF Standing, AskInv
  <2>2. a.kind \in Claiming => DOMAIN a.sizes \cap DOMAIN c.sizes = {}
    BY <1>1, <1>2 DEF ClaimInv, WriteOf
  <2>3. \A n \in DOMAIN c.sizes : pattas[n] = Absent
    BY <1>2 DEF Unused
  <2>4. \A n \in DOMAIN c.sizes : PattaAfter(a, n) = Absent
    BY <2>1, <2>2, <2>3, BlockNumberUntouched DEF WriteOf
  <2>5. \A n \in DOMAIN c.sizes : pattas'[n] = Absent
    BY <2>1, <2>4 DEF WriteOf
  <2>6. QED
    BY <2>5 DEF Unused
<1>3. c.kind \in {"register", "register_one"} => Unused(DOMAIN c.sizes)'
  BY <1>1, <1>2 DEF Checks, CountedOf, Claiming
<1>4. ASSUME c.kind = "correct_offline", stage'[q] = "write" PROVE Submitted(Plan(c), c.sizes)'
  <2>1. stage[q] = "write" /\ Submitted(Plan(c), c.sizes) /\ c.kind \in Corrections
    BY <1>1, <1>4 DEF Checks, CountedOf, WriteOf, Corrections
  <2>2. c.batch \in Batch /\ Present(batches[c.batch]) /\ BatchRow(c.batch) \in held[q]
    BY <1>1, <2>1 DEF Standing, AskInv, LockOf, CorrectionLocks
  <2>3. SizesOf(c.batch)' = SizesOf(c.batch)
    BY <2>2 DEF WriteOf, Effect
  <2>4. Plan(c)' = Plan(c)
    BY <2>3 DEF Plan
  <2>5. Unused(DOMAIN c.sizes)'
    BY <1>2, <1>4, <2>1 DEF Submitted, Claiming
  <2>6. QED
    BY <2>1, <2>4, <2>5 DEF Submitted
<1>5. QED
  BY <1>1, <1>3, <1>4 DEF Checks, CountedOf

LEMMA CheckedSurvives ==
  ASSUME ServiceInv, NEW r \in Request, NEW a, WriteOf(r, a), NEW q \in Request \ {r}, NEW c, c = req[q]
  PROVE  CheckedOf(q, c)'
<1>1. TablesTyped /\ Standing(q, c) /\ Checks(q, c) /\ ReferenceInv
  BY ServiceFacts, IInvFacts DEF Sound
<1>2. stage'[q] = stage[q] /\ held[r] \cap held[q] = {}
  BY DEF WriteOf
<1>3. ASSUME c.kind \in {"legacy", "create_linked"}, stage[q] # "patta"
      PROVE  pattas'[c.patta] = pattas[c.patta] /\ c.patta \in Number /\ PattaRow(c.patta) \notin held[r]
  <2>1. c.patta \in Number /\ Present(pattas[c.patta])
    BY <1>1, <1>3, NumberFacts DEF Standing, AskInv, ReferenceInv
  <2>2. PattaRow(c.patta) \notin held[r]
    BY <1>1, <1>2, <1>3 DEF Standing, LockOf, PattaLocks
  <2>3. QED
    BY <2>1, <2>2, PattaUntouched DEF WriteOf
<1>4. ASSUME c.kind \in Changing, stage[q] # "sheet" PROVE sheets'[c.sheet] = sheets[c.sheet]
  <2>1. c.sheet \in Sheet /\ Present(sheets[c.sheet]) /\ SheetRow(c.sheet) \notin held[r]
    BY <1>1, <1>2, <1>4 DEF Standing, AskInv, LockOf, FoundOf, Live, Changing, Entering
  <2>2. QED
    BY <2>1 DEF WriteOf, Effect
<1>5. ASSUME c.kind = "create_linked", stage[q] = "write" PROVE SheetsOf({c.patta})' = {}
  <2>1. SheetsOf({c.patta}) = {}
    BY <1>1, <1>5 DEF Checks, CheckedOf
  <2>2. c.patta \in Number /\ PattaRow(c.patta) \notin held[r]
    BY <1>3, <1>5
  <2> DEFINE numbers == {c.patta}
  <2>3. NoNumber \notin numbers /\ \A n \in numbers : PattaRow(n) \notin held[r]
    BY <2>2, NumberFacts
  <2>4. Effect(r)
    BY DEF WriteOf
  <2> HIDE DEF numbers
  <2>5. SheetsOf(numbers)' \subseteq SheetsOf(numbers)
    BY <1>1, <2>3, <2>4, SheetsLocked
  <2>6. QED
    BY <2>1, <2>5 DEF numbers
<1>6. QED
  BY <1>1, <1>2, <1>3, <1>4, <1>5 DEF Checks, CheckedOf, Changing

LEMMA TimesSurvive ==
  ASSUME ServiceInv, IInv', NEW r \in Request, NEW a, WriteOf(r, a), NEW q \in Request \ {r}, NEW c, c = req[q]
  PROVE  TimesOf(q, c)'
<1>1. TablesTyped /\ Standing(q, c) /\ Checks(q, c) /\ FreshInv
  BY ServiceFacts, IInvFacts DEF Sound
<1>2. AskInv(c)'
  <2>1. c = req'[q]
    BY DEF WriteOf
  <2>2. QED
    BY <2>1 DEF IInv, RequestInv
<1>3. CASE c.kind \in Creating
  <2>1. sheets[c.sheet] = Absent /\ sheets'[c.sheet] = Absent
    BY <1>1, <1>2, <1>3 DEF Standing, AskInv, Present
  <2>2. c.sheet \notin overtaken[q]
    BY <1>1, <1>3 DEF Checks, TimesOf
  <2>3. c.sheet \notin overtaken'[q]
    BY <2>1, <2>2 DEF WriteOf
  <2>4. QED
    BY <1>3, <2>3 DEF TimesOf
<1>4. CASE c.kind \in Entering \ Creating
  <2> DEFINE s == c.sheet
  <2> SUFFICES ASSUME Present(sheets'[s])
               PROVE  c.expected <= sheets'[s].version /\ (s \in overtaken'[q] => c.expected < sheets'[s].version)
    BY <1>4 DEF TimesOf
  <2>1. s \in Sheet /\ c.expected \in Nat
    BY <1>1, <1>4, DocumentsAssumption DEF Standing, AskInv
  <2>2. Present(sheets[s])
    <3>1. ~(req[r].kind \in Creating /\ req[r].sheet = s)
      BY <1>1, <1>4 DEF FreshInv
    <3>2. QED
      BY <2>1, <3>1 DEF WriteOf, Effect
  <2>3. /\ c.expected <= sheets[s].version /\ (s \in overtaken[q] => c.expected < sheets[s].version)
        /\ sheets[s].version \in Nat
    BY <1>1, <1>4, <2>1, <2>2, PresentFacts DEF Checks, TimesOf, SheetRecord
  <2>4. CASE sheets'[s] = sheets[s]
    <3>1. s \in overtaken'[q] => s \in overtaken[q]
      BY <2>4 DEF WriteOf
    <3>2. QED
      BY <2>3, <2>4, <3>1
  <2>5. CASE sheets'[s] # sheets[s]
    <3>1. sheets'[s].version = sheets[s].version + 1
      BY <2>1, <2>2, <2>5 DEF WriteOf, Judged
    <3> HIDE DEF s
    <3>2. c.expected < sheets'[s].version
      BY <2>1, <2>3, <3>1
    <3>3. c.expected <= sheets'[s].version
      BY <2>1, <2>3, <3>1
    <3>4. QED
      BY <3>2, <3>3
  <2>6. QED
    BY <2>4, <2>5
<1>5. CASE c.kind \notin Entering
  BY <1>5 DEF TimesOf, Entering, Creating
<1>6. QED
  BY <1>3, <1>4, <1>5

\* A Patta that is there has its batch.
LEMMA BatchesStay ==
  ASSUME ServiceInv, NEW r \in Request, NEW a, WriteOf(r, a), NEW n \in Number,
         Present(pattas'[n]), pattas'[n].batch # "none"
  PROVE  Present(batches'[pattas'[n].batch])
<1>1. /\ TablesTyped /\ AskInv(a) /\ CheckInv /\ \A b \in Batch : Present(batches[b]) => Present(batches'[b])
      /\ Judged /\ pattas'[n] = PattaAfter(a, n)
  BY WritingFacts DEF WriteOf, ServiceInv, Effect
<1>2. CASE n \in DOMAIN Added(a)
  <2>1. a.kind \in Founding \cup Corrections \cup {"register_one"}
    BY <1>2, AddedFacts DEF WriteOf
  <2>2. a.kind # "register_one" /\ pattas'[n].batch = a.batch /\ a.batch \in Batch
    BY <1>1, <1>2, PattaValues DEF WriteOf
  <2>3. CASE a.kind \in Founding
    <3>1. a.soni \in Soni /\ a.target \in Distribution
      BY <1>1, <2>3 DEF AskInv
    <3>2. batches'[a.batch] = NewBatch(a)
      BY <2>2, <2>3 DEF WriteOf, BatchAfter
    <3>3. batches'[a.batch] \in BatchRecord
      BY <3>1, <3>2, NewBatchFacts
    <3>4. QED
      BY <2>2, <3>3, AbsentFacts DEF Present
  <2>4. CASE a.kind \in Corrections
    BY <1>1, <2>2, <2>4 DEF AskInv
  <2>5. QED
    BY <2>1, <2>2, <2>3, <2>4
<1>3. CASE n \notin DOMAIN Added(a)
  <2>1. Present(pattas[n])
    BY <1>1, <1>3, PattaValues DEF WriteOf, Active
  <2>2. pattas'[n].batch = pattas[n].batch
    BY <1>1, <2>1, BatchKept
  <2>3. Present(batches[pattas[n].batch]) /\ pattas[n].batch \in Batch
    <3>1. pattas[n] \in PattaRecord
      BY <1>1, <2>1, PresentFacts
    <3>2. QED
      BY <1>1, <2>1, <2>2, <3>1 DEF CheckInv, PattaRecord
  <2>4. QED
    BY <1>1, <2>2, <2>3
<1>4. QED
  BY <1>2, <1>3

\* A write leaves what the others have checked, and every batch distributed.
LEMMA WriteServes ==
  ASSUME ServiceInv, IInv', NEW r \in Request, Write(r)
  PROVE  ServiceInv'
<1>1. CASE Refuse(r)
  BY <1>1, RefuseServes
<1>2. CASE ~Refuse(r)
  <2>1. Writing(r) /\ Committed(r) /\ Commit(r, Touched(Outcome(req[r])))
    BY <1>2 DEF Write, Committed
  <2>2. PICK a : a = req[r]
    OBVIOUS
  <2>3. IInv /\ ClaimInv /\ LocksTyped /\ \A q \in Request : Checks(q, req[q])
    BY ServiceFacts, IInvFacts
  <2>4. Sound /\ TablesTyped /\ a.kind \notin {"none", "reuse"} /\ Standing(r, a) /\ AskInv(a)
    BY <2>1, <2>2, <2>3, IInvFacts DEF Writing, Sound, Standing, FoundOf
  <2>5. Effect(r) /\ Judged
    BY <2>1, <2>2, <2>4, WriteEffect, CommittedIsJudged
  <2>6. /\ \A n \in Number : pattas'[n] = PattaAfter(a, n)
        /\ \A b \in Batch : batches'[b] = BatchAfter(a, b)
    BY <2>1, <2>2, <2>4, OutcomeFacts DEF Committed
  <2>7. /\ End(r) /\ elders' = [q \in Request |-> IF q = r THEN {} ELSE elders[q] \ {r}]
        /\ overtaken' = [q \in Request |->
             IF q = r THEN {} ELSE IF q \in elders[r] THEN overtaken[q] \cup Touched(Outcome(a)) ELSE overtaken[q]]
    BY <2>1, <2>2 DEF Commit, End
  <2>8. overtaken' \in [Request -> SUBSET Sheet]
    BY <2>3, <2>7 DEF LocksTyped, Touched
  <2>9. /\ \A q \in Request \ {r} : /\ req'[q] = req[q] /\ stage'[q] = stage[q]
                                    /\ want'[q] = want[q] /\ held'[q] = held[q]
        /\ req'[r] = Idle /\ req'[r].kind = "none"
    BY <2>3, <2>7, <2>8, EndFacts
  <2>10. \A q \in Request \ {r} : /\ overtaken[q] \subseteq overtaken'[q]
                                  /\ \A s \in overtaken'[q] \ overtaken[q] : sheets'[s] # sheets[s]
    <3>1. \A s \in Touched(Outcome(a)) : sheets'[s] # sheets[s]
      BY <2>1, <2>2 DEF Committed, Touched
    <3> HIDE DEF Touched
    <3>2. QED
      BY <2>7, <3>1
  <2>11. WriteOf(r, a)
    BY <2>1, <2>2, <2>3, <2>5, <2>6, <2>9, <2>10 DEF WriteOf, LocksTyped
  <2>12. ASSUME NEW q \in Request, NEW c, c = req'[q] PROVE Checks(q, c)'
    <3>1. CASE q = r
      <4>1. Checks(r, Idle)'
        BY IdleChecks, PTL
      <4>2. QED
        BY <2>9, <2>12, <3>1, <4>1
    <3>2. CASE q # r
      <4>1. q \in Request \ {r} /\ c = req[q]
        BY <2>9, <2>12, <3>2
      <4>2. CountedOf(q, c)' /\ CheckedOf(q, c)' /\ TimesOf(q, c)'
        BY <2>11, <4>1, CountedSurvives, CheckedSurvives, TimesSurvive
      <4>3. QED
        BY <4>2 DEF Checks
    <3>3. QED
      BY <3>1, <3>2
  <2>13. ClaimInv'
    <3>1. req'[r].kind \notin Claiming
      BY <2>9 DEF Claiming
    <3>2. \A p, q \in Request : p # q /\ req'[p].kind \in Claiming /\ req'[q].kind \in Claiming =>
            DOMAIN req'[p].sizes \cap DOMAIN req'[q].sizes = {}
      BY <2>3, <2>9, <3>1 DEF ClaimInv
    <3>3. \A q \in Request : req'[q] = Idle => overtaken'[q] = {}
      BY <2>3, <2>7, <2>9 DEF ClaimInv
    <3>4. \A q \in Request : \A p \in elders'[q] : req'[p] # Idle
      <4>1. \A q \in Request : \A p \in elders'[q] : p \in elders[q] /\ p # r /\ p \in Request
        BY <2>3, <2>7 DEF LocksTyped
      <4>2. QED
        BY <2>3, <2>9, <4>1 DEF ClaimInv
    <3>5. Claiming' = Claiming
      BY DEF Claiming
    <3>6. QED
      BY <3>2, <3>3, <3>4, <3>5 DEF ClaimInv
  <2>14. DistributionHolds'
    <3>1. PICK bs : bs = batches'
      OBVIOUS
    <3>2. PICK ps : ps = pattas'
      OBVIOUS
    <3>3. DistributedIn(bs, ps)
      BY <2>1, <2>2, <2>6, <3>1, <3>2, OutcomeDistributed
    <3>4. QED
      BY <3>1, <3>2, <3>3, DistributionIsInAfter
  <2>15. \A n \in Number : Present(pattas'[n]) /\ pattas'[n].batch # "none" => Present(batches'[pattas'[n].batch])
    BY <2>11, BatchesStay
  <2>16. QED
    BY <2>12, <2>13, <2>14, <2>15, ServiceParts
<1>3. QED
  BY <1>1, <1>2

\* Requests that look and refuse, or are aborted.
LEMMA RefusalServes ==
  ASSUME ServiceInv, IInv', NEW r \in Request,
         Reused(r) \/ NotPermitted(r) \/ RejectSnapshots(r) \/ RejectRows(r) \/ AbortVictim(r) \/ RollBack(r)
  PROVE  ServiceInv'
<1>1. Refuse(r)
  BY DEF Reused, NotPermitted, RejectSnapshots, RejectRows, AbortVictim, RollBack
<1>2. QED
  BY <1>1, RefuseServes

LEMMA InitServes ==
  ASSUME Init
  PROVE  ServiceInv
<1>1. IInv
  BY InitIsInv
<1>2. \A r \in Request : req[r] = Idle /\ overtaken[r] = {} /\ elders[r] = {}
  BY DEF Init
<1>3. ClaimInv
  BY <1>2 DEF ClaimInv, Claiming, Idle
<1>4. \A r \in Request : Checks(r, Idle)
  BY IdleChecks
<1>5. \A n \in Number : Present(pattas[n]) => pattas[n].batch = "none"
  BY DEF Init, Present, NewPatta
<1>6. CheckInv
  BY <1>2, <1>4, <1>5 DEF CheckInv, Checks
<1>7. \A b \in Batch : batches[b] = Absent
  BY DEF Init
<1>8. DistributionHolds
  BY <1>7 DEF DistributionHolds
<1>9. QED
  BY <1>1, <1>3, <1>6, <1>8 DEF ServiceInv

LEMMA StutterServes ==
  ASSUME ServiceInv, IInv', UNCHANGED vars
  PROVE  ServiceInv'
<1>1. UNCHANGED data /\ UNCHANGED <<req, stage, elders, overtaken>>
  BY DEF vars
<1>2. IInv /\ ClaimInv /\ CheckInv /\ DistributionHolds /\ \A q \in Request : Checks(q, req[q])
  BY ServiceFacts
<1>3. \A q \in Request : \A a : a = req'[q] => Checks(q, a)'
  BY <1>1, <1>2, ChecksStay
<1>4. ClaimInv'
  <2>1. Claiming' = Claiming
    BY DEF Claiming
  <2>2. QED
    BY <1>1, <1>2, <2>1 DEF ClaimInv
<1>5. DistributionHolds'
  <2>1. \A b : Active(b)' = Active(b) /\ SizesOf(b)' = SizesOf(b)
    BY <1>1, SizesKept DEF data
  <2>2. QED
    BY <1>1, <1>2, <2>1 DEF DistributionHolds, data
<1>6. \A n \in Number : Present(pattas'[n]) /\ pattas'[n].batch # "none" => Present(batches'[pattas'[n].batch])
  BY <1>1, <1>2 DEF CheckInv, data
<1>7. QED
  BY <1>3, <1>4, <1>5, <1>6, ServiceParts

LEMMA StepServes ==
  ASSUME ServiceInv, IInv', Next
  PROVE  ServiceInv'
<1>1. PICK r \in Request :
         \/ BeginCreate(r) \/ BeginRegister(r) \/ BeginRegisterOne(r)
         \/ BeginCorrect(r) \/ BeginCorrectOffline(r) \/ BeginLegacy(r) \/ BeginPrint(r)
         \/ BeginCreateLinked(r) \/ BeginCreateStandalone(r)
         \/ BeginOnSheet(r) \/ ApplyUpdateEvent(r) \/ BeginEditStandalone(r)
         \/ TakeNumbers(r) \/ CorrectBatch(r) \/ CorrectEntries(r) \/ CorrectAssign(r)
         \/ AllocateCorrectionPattaNumbers(r) \/ LegacyEntries(r) \/ PrintBatch(r)
         \/ CreateLinkedPatta(r) \/ CreateLinkedPrior(r) \/ EditLinked(r) \/ EditLinkedPatta(r)
         \/ Reused(r) \/ SetTrashed(r) \/ Purge(r)
         \/ NotPermitted(r) \/ RejectSnapshots(r) \/ RejectRows(r)
         \/ Acquire(r) \/ AbortVictim(r) \/ RollBack(r) \/ Write(r)
  BY DEF Next
<1>2. CASE \/ BeginCreate(r) \/ BeginRegister(r) \/ BeginRegisterOne(r) \/ BeginCorrect(r) \/ BeginCorrectOffline(r)
           \/ BeginLegacy(r) \/ BeginPrint(r)
  BY <1>2, BeginsServe
<1>3. CASE \/ BeginCreateLinked(r) \/ BeginCreateStandalone(r) \/ BeginOnSheet(r) \/ ApplyUpdateEvent(r)
           \/ BeginEditStandalone(r)
  BY <1>3, BeginsOnSheetsServe
<1>4. CASE \/ TakeNumbers(r) \/ CorrectBatch(r) \/ CorrectEntries(r)
           \/ AllocateCorrectionPattaNumbers(r) \/ PrintBatch(r)
  BY <1>4, NumbersServe, CorrectingServes
<1>5. CASE \/ CorrectAssign(r) \/ LegacyEntries(r) \/ CreateLinkedPatta(r) \/ CreateLinkedPrior(r)
           \/ EditLinked(r) \/ EditLinkedPatta(r) \/ SetTrashed(r) \/ Purge(r)
  BY <1>5, CorrectAssignServes, LegacyServes, CreateLinkedServes, ChangingServes
<1>6. CASE Reused(r) \/ NotPermitted(r) \/ RejectSnapshots(r) \/ RejectRows(r) \/ AbortVictim(r) \/ RollBack(r)
  BY <1>6, RefusalServes
<1>7. CASE Acquire(r) \/ Write(r)
  BY <1>7, AcquireServes, WriteServes
<1>8. QED
  BY <1>1, <1>2, <1>3, <1>4, <1>5, <1>6, <1>7

\* The inductive invariant behind the distribution of a batch and what the
\* services foresee: a number of a block has one claimant, what a request has
\* checked under its locks stays so until it writes, and every batch is
\* distributed as its size rows say.
THEOREM ServicesInvariant == Spec => []ServiceInv
<1>1. Init => ServiceInv
  BY InitServes
<1>2. ServiceInv /\ [Next]_vars => ServiceInv'
  <2>1. ASSUME ServiceInv, Next PROVE ServiceInv'
    <3>1. IInv'
      BY <2>1, ServiceFacts, StepKeeps DEF Next
    <3>2. QED
      BY <2>1, <3>1, StepServes
  <2>2. ASSUME ServiceInv, UNCHANGED vars PROVE ServiceInv'
    <3>1. IInv'
      BY <2>2, ServiceFacts, StutterKeeps
    <3>2. QED
      BY <2>2, <3>1, StutterServes
  <2>3. QED
    BY <2>1, <2>2
<1>3. QED
  BY <1>1, <1>2, PTL DEF Spec

\* The ACTIVE Pattas of every batch are distributed over the sizes as its size
\* rows say and carry its quantity, whatever creations, registrations and
\* corrections, with their reassignments, ran against each other: the services
\* keep what the trigger validate_patta_print_batch_contents compares only as
\* totals.
THEOREM BatchesAreDistributed == Spec => []DistributionHolds
<1>1. ServiceInv => DistributionHolds
  BY DEF ServiceInv
<1>2. QED
  BY ServicesInvariant, <1>1, PTL

\* No trigger refuses what a service let through, but for the unlocked update of
\* a standalone sheet and a correction overtaken while it waited: what a request
\* checked under its locks is what the triggers compare when it writes.
THEOREM TriggersAgreeWithServices == Spec => []ServicesForesee
<1>1. ServiceInv => ServicesForesee
  BY ServicesForeseeIt
<1>2. QED
  BY ServicesInvariant, <1>1, PTL
=============================================================================
