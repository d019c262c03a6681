------------------------ MODULE PattaDocumentsProof ------------------------
(***************************************************************************)
(* Proofs about PattaDocuments, for any number of requests, batches,       *)
(* sheets, sizes and quantities.                                           *)
(***************************************************************************)
EXTENDS PattaDocuments, FiniteSetTheorems, TLAPS

-----------------------------------------------------------------------------
(* Counting.                                                               *)

\* What is not after x, and how many that are.
NotAfter(S, order, x) == {y \in S : <<y, x>> \in order}

TotalOrder(S, order) ==
  /\ \A x \in S : <<x, x>> \in order
  /\ \A x, y \in S : <<x, y>> \in order \/ <<y, x>> \in order
  /\ \A x, y \in S : <<x, y>> \in order /\ <<y, x>> \in order => x = y
  /\ \A x, y, z \in S : <<x, y>> \in order /\ <<y, z>> \in order => <<x, z>> \in order

LEMMA RanksDiffer ==
  ASSUME NEW S, IsFiniteSet(S), NEW order, TotalOrder(S, order), NEW x \in S, NEW y \in S,
         <<x, y>> \in order, x # y
  PROVE  Cardinality(NotAfter(S, order, x)) < Cardinality(NotAfter(S, order, y))
<1>1. NotAfter(S, order, x) \in SUBSET NotAfter(S, order, y)
  BY DEF NotAfter, TotalOrder
<1>2. y \in NotAfter(S, order, y) /\ y \notin NotAfter(S, order, x)
  BY DEF NotAfter, TotalOrder
<1>3. IsFiniteSet(NotAfter(S, order, y))
  BY FS_Subset DEF NotAfter
<1>4. /\ Cardinality(NotAfter(S, order, x)) <= Cardinality(NotAfter(S, order, y))
      /\ Cardinality(NotAfter(S, order, x)) # Cardinality(NotAfter(S, order, y))
      /\ IsFiniteSet(NotAfter(S, order, x))
  BY <1>1, <1>2, <1>3, FS_Subset
<1>5. /\ Cardinality(NotAfter(S, order, x)) \in Nat
      /\ Cardinality(NotAfter(S, order, y)) \in Nat
  BY <1>3, <1>4, FS_CardinalityType
<1>6. QED
  BY <1>4, <1>5

\* InOrder numbers the elements of a finite set: every element has one number.
LEMMA InOrderFacts ==
  ASSUME NEW S, IsFiniteSet(S), NEW order, TotalOrder(S, order)
  PROVE  /\ Cardinality(S) \in Nat
         /\ InOrder(S, order) \in [1 .. Cardinality(S) -> S]
         /\ \A i, j \in 1 .. Cardinality(S) : i # j => InOrder(S, order)[i] # InOrder(S, order)[j]
         /\ \A x \in S : \E i \in 1 .. Cardinality(S) : InOrder(S, order)[i] = x
         /\ \A i \in 1 .. Cardinality(S) : Cardinality(NotAfter(S, order, InOrder(S, order)[i])) = i
<1> DEFINE rank == [x \in S |-> Cardinality(NotAfter(S, order, x))]
           n == Cardinality(S)
<1>1. n \in Nat
  BY FS_CardinalityType
<1>2. ASSUME NEW x \in S PROVE rank[x] \in 1 .. n
  <2>1. NotAfter(S, order, x) \in SUBSET S /\ x \in NotAfter(S, order, x)
    BY DEF NotAfter, TotalOrder
  <2>2. IsFiniteSet(NotAfter(S, order, x)) /\ Cardinality(NotAfter(S, order, x)) <= n
    BY <2>1, FS_Subset
  <2>3. Cardinality(NotAfter(S, order, x)) \in Nat /\ Cardinality(NotAfter(S, order, x)) # 0
    BY <2>1, <2>2, FS_CardinalityType, FS_EmptySet
  <2>4. QED
    BY <1>1, <2>2, <2>3
<1>3. ASSUME NEW x \in S, NEW y \in S, x # y PROVE rank[x] # rank[y]
  <2>1. <<x, y>> \in order \/ <<y, x>> \in order
    BY DEF TotalOrder
  <2>2. Cardinality(NotAfter(S, order, x)) # Cardinality(NotAfter(S, order, y))
    BY <1>1, <1>2, <1>3, <2>1, RanksDiffer
  <2>3. QED
    BY <2>2
<1>4. rank \in Injection(S, 1 .. n)
  BY <1>2, <1>3 DEF Injection, IsInjective
<1>5. IsFiniteSet(1 .. n) /\ Cardinality(1 .. n) = n
  BY <1>1, FS_Interval
<1>6. rank \in Surjection(S, 1 .. n)
  BY <1>4, <1>5, FS_Injection
<1>7. ASSUME NEW i \in 1 .. n PROVE \E x \in S : Cardinality(NotAfter(S, order, x)) = i
  BY <1>6 DEF Surjection
<1>8. ASSUME NEW i \in 1 .. n
      PROVE  /\ InOrder(S, order)[i] \in S
             /\ Cardinality(NotAfter(S, order, InOrder(S, order)[i])) = i
  <2>1. InOrder(S, order)[i] = CHOOSE x \in S : Cardinality(NotAfter(S, order, x)) = i
    BY DEF InOrder, NotAfter
  <2>2. QED
    BY <1>7, <2>1
<1>9. ASSUME NEW x \in S PROVE InOrder(S, order)[rank[x]] = x
  BY <1>2, <1>3, <1>8
<1>10. InOrder(S, order) \in [1 .. n -> S]
  BY <1>8 DEF InOrder
<1>11. QED
  BY <1>1, <1>2, <1>8, <1>9, <1>10

LEMMA NumberOrderFacts ==
  ASSUME NEW numbers, IsFiniteSet(numbers), numbers \subseteq Nat
  PROVE  /\ Cardinality(numbers) \in Nat
         /\ InNumberOrder(numbers) \in [1 .. Cardinality(numbers) -> numbers]
         /\ \A i, j \in 1 .. Cardinality(numbers) : i # j => InNumberOrder(numbers)[i] # InNumberOrder(numbers)[j]
         /\ \A n \in numbers : \E i \in 1 .. Cardinality(numbers) : InNumberOrder(numbers)[i] = n
<1> DEFINE order == {p \in numbers \X numbers : p[1] <= p[2]}
<1>1. \A x, y \in numbers : <<x, y>> \in order <=> x <= y
  OBVIOUS
<1>2. TotalOrder(numbers, order)
  <2> HIDE DEF order
  <2> QED
    BY <1>1 DEF TotalOrder
<1>3. InNumberOrder(numbers) = InOrder(numbers, order)
  BY DEF InNumberOrder
<1>4. QED
  <2> HIDE DEF order
  <2> QED
    BY <1>2, <1>3, InOrderFacts

LEMMA PlacesFinite ==
  ASSUME NEW count \in [Razmer -> Int]
  PROVE  IsFiniteSet(Places(count))
<1> DEFINE row(z) == {z} \X (1 .. count[z])
<1>1. IsFiniteSet({row(z) : z \in Razmer})
  <2>1. [z \in Razmer |-> row(z)] \in Surjection(Razmer, {row(z) : z \in Razmer})
    BY DEF Surjection
  <2>2. QED
    BY <2>1, DocumentsAssumption, FS_Surjection
<1>2. ASSUME NEW z \in Razmer PROVE IsFiniteSet(row(z))
  <2>1. IsFiniteSet({z}) /\ IsFiniteSet(1 .. count[z])
    <3>1. count[z] \in Int
      OBVIOUS
    <3>2. IsFiniteSet(1 .. count[z])
      BY <3>1, 1 \in Int, FS_Interval
    <3>3. QED
      BY <3>2, FS_Singleton
  <2>2. QED
    BY <2>1, FS_Product
<1>3. \A T \in {row(z) : z \in Razmer} : IsFiniteSet(T)
  BY <1>2
<1>4. IsFiniteSet(UNION {row(z) : z \in Razmer})
  BY <1>1, <1>3, FS_UNION
<1>5. QED
  BY <1>4 DEF Places

LEMMA PlaceFacts ==
  ASSUME NEW count \in [Razmer -> Int], NEW p
  PROVE  p \in Places(count) <=> \E z \in Razmer : \E j \in 1 .. count[z] : p = <<z, j>>
BY DEF Places

\* A distribution has one slot per place: a sequence of sizes.
LEMMA SlotsFacts ==
  ASSUME NEW count \in [Razmer -> Int]
  PROVE  /\ Cardinality(Places(count)) \in Nat
         /\ Slots(count) \in [1 .. Cardinality(Places(count)) -> Razmer]
         /\ Slots(count) \in Seq(Razmer)
         /\ Len(Slots(count)) = Cardinality(Places(count))
<1> DEFINE places == Places(count)
           order == PlaceOrder(places)
<1>1. \A p \in places : p = <<p[1], p[2]>> /\ p[1] \in Razmer /\ p[1] \in Nat /\ p[2] \in Int
  BY PlaceFacts, DocumentsAssumption
<1>2. \A p, q \in places : <<p, q>> \in order <=> p[1] < q[1] \/ (p[1] = q[1] /\ p[2] <= q[2])
  BY DEF PlaceOrder
<1>3. TotalOrder(places, order)
  <2> HIDE DEF places, order
  <2>1. \A p, q \in places : <<p, q>> \in order /\ <<q, p>> \in order => p = q
    BY <1>1, <1>2
  <2>2. ASSUME NEW p \in places, NEW q \in places PROVE <<p, q>> \in order \/ <<q, p>> \in order
    <3>1. p[1] \in Nat /\ q[1] \in Nat /\ p[2] \in Int /\ q[2] \in Int
      BY <1>1
    <3>2. QED
      BY <3>1, <1>2
  <2>3. \A p, q, s \in places : <<p, q>> \in order /\ <<q, s>> \in order => <<p, s>> \in order
    BY <1>1, <1>2
  <2>4. \A p \in places : <<p, p>> \in order
    BY <1>1, <1>2
  <2>5. QED
    BY <2>1, <2>2, <2>3, <2>4 DEF TotalOrder
<1>4. /\ Cardinality(places) \in Nat
      /\ InOrder(places, order) \in [1 .. Cardinality(places) -> places]
  <2> HIDE DEF order
  <2> QED
    BY <1>3, PlacesFinite, InOrderFacts
<1>5. Slots(count) \in [1 .. Cardinality(places) -> Razmer]
  BY <1>1, <1>4 DEF Slots
<1>6. QED
  BY <1>4, <1>5

\* What a correction does to Pattas of these sizes.
LEMMA AssignmentFacts ==
  ASSUME NEW D, IsFiniteSet(D), D \subseteq Nat, NEW sizes \in [D -> Razmer], NEW target \in [Razmer -> Nat],
         NEW plan, plan = Assignment(sizes, target)
  PROVE  /\ plan.moves \in [DOMAIN plan.moves -> Razmer]
         /\ DOMAIN plan.moves \subseteq D /\ plan.surplus \subseteq D
         /\ DOMAIN plan.moves \cap plan.surplus = {}
         /\ plan.deficits \in Seq(Razmer) /\ Len(plan.deficits) \in Nat
<1> DEFINE kept == Kept(sizes, target)
           rest == DOMAIN sizes \ kept
           unmatched == InNumberOrder(rest)
           count == [z \in Razmer |-> target[z] - Cardinality({n \in kept : sizes[n] = z})]
           open == Slots(count)
           k == Cardinality(rest)
           m == Cardinality(Places(count))
           moved == IF k <= m THEN k ELSE m
<1>1. kept \subseteq D
  BY DEF Kept
<1>2. /\ k \in Nat /\ unmatched \in [1 .. k -> rest] /\ Len(unmatched) = k
      /\ \A i, j \in 1 .. k : i # j => unmatched[i] # unmatched[j]
  <2>1. IsFiniteSet(rest) /\ rest \subseteq Nat
    BY FS_Difference
  <2>2. /\ k \in Nat /\ unmatched \in [1 .. k -> rest]
        /\ \A i, j \in 1 .. k : i # j => unmatched[i] # unmatched[j]
    BY <2>1, NumberOrderFacts
  <2>3. Len(unmatched) = k
    BY <2>2
  <2>4. QED
    BY <2>2, <2>3
<1>3. m \in Nat /\ open \in [1 .. m -> Razmer] /\ open \in Seq(Razmer) /\ Len(open) = m
  <2>1. count \in [Razmer -> Int]
    <3>1. ASSUME NEW z \in Razmer PROVE count[z] \in Int
      <4>1. {n \in kept : sizes[n] = z} \in SUBSET D
        BY <1>1
      <4>2. Cardinality({n \in kept : sizes[n] = z}) \in Nat
        BY <4>1, FS_Subset, FS_CardinalityType
      <4>3. QED
        BY <4>2
    <3>2. QED
      BY <3>1
  <2>2. QED
    BY <2>1, SlotsFacts
<1>4. /\ plan.moves = [n \in {unmatched[i] : i \in 1 .. moved} |->
                         open[CHOOSE i \in 1 .. moved : unmatched[i] = n]]
      /\ plan.surplus = {unmatched[i] : i \in (moved + 1) .. k}
      /\ plan.deficits = SubSeq(open, moved + 1, m)
  <2>1. DOMAIN sizes = D
    OBVIOUS
  <2>2. Len(unmatched) = k /\ Len(open) = m
    BY <1>2, <1>3
  <2> DEFINE least == IF Len(unmatched) <= Len(open) THEN Len(unmatched) ELSE Len(open)
           missing == SubSeq(open, least + 1, Len(open))
  <2>3. plan = [moves    |-> [n \in {unmatched[i] : i \in 1 .. least} |->
                                open[CHOOSE i \in 1 .. least : unmatched[i] = n]],
                surplus  |-> {unmatched[i] : i \in (least + 1) .. Len(unmatched)},
                deficits |-> missing]
    BY DEF Assignment
  <2> HIDE DEF unmatched, open, kept
  <2>4. least = moved
    BY <2>2
  <2> HIDE DEF least, k, m, missing
  <2>5. plan.moves = [n \in {unmatched[i] : i \in 1 .. least} |-> open[CHOOSE i \in 1 .. least : unmatched[i] = n]]
    BY <2>3
  <2>6. plan.surplus = {unmatched[i] : i \in (least + 1) .. Len(unmatched)}
    BY <2>3
  <2>7. plan.deficits = missing
    BY <2>3
  <2>8. QED
    BY <2>2, <2>4, <2>5, <2>6, <2>7 DEF missing
<1> HIDE DEF kept, rest, unmatched, count, open, k, m
<1>5. moved \in Nat /\ moved <= k /\ moved <= m
  BY <1>2, <1>3
<1> HIDE DEF moved
<1>6. ASSUME NEW n \in {unmatched[i] : i \in 1 .. moved}
      PROVE  open[CHOOSE i \in 1 .. moved : unmatched[i] = n] \in Razmer
  <2>1. \E i \in 1 .. moved : unmatched[i] = n
    OBVIOUS
  <2>2. (CHOOSE i \in 1 .. moved : unmatched[i] = n) \in 1 .. moved
    BY <2>1
  <2>3. QED
    BY <2>2, <1>3, <1>5
<1>7. rest \subseteq D
  BY DEF rest
<1>8. DOMAIN plan.moves = {unmatched[i] : i \in 1 .. moved}
  BY <1>4
<1>81. \A i \in 1 .. k : unmatched[i] \in D
  BY <1>2, <1>7
<1>82. DOMAIN plan.moves \subseteq D /\ plan.surplus \subseteq D
  <2>1. \A i \in 1 .. moved : i \in 1 .. k
    BY <1>2, <1>5
  <2>2. \A i \in (moved + 1) .. k : i \in 1 .. k
    BY <1>2, <1>5
  <2>3. QED
    BY <1>4, <1>8, <1>81, <2>1, <2>2
<1>9. DOMAIN plan.moves \cap plan.surplus = {}
  BY <1>2, <1>4, <1>5, <1>8
<1>10. plan.deficits \in Seq(Razmer) /\ Len(plan.deficits) \in Nat
  BY <1>3, <1>4, <1>5
<1>11. QED
  <2> DEFINE given(n) == open[CHOOSE i \in 1 .. moved : unmatched[i] = n]
  <2>1. plan.moves \in [{unmatched[i] : i \in 1 .. moved} -> Razmer]
    <3>1. \A n \in {unmatched[i] : i \in 1 .. moved} : given(n) \in Razmer
      BY <1>6
    <3>2. plan.moves = [n \in {unmatched[i] : i \in 1 .. moved} |-> given(n)]
      BY <1>4
    <3> HIDE DEF given
    <3>3. QED
      BY <3>1, <3>2
  <2>2. QED
    BY <2>1, <1>8, <1>82, <1>9, <1>10

-----------------------------------------------------------------------------
(* Rows of the tables, and their locks.                                    *)

LEMMA NumberFacts ==
  /\ Number \subseteq Nat \ {0} /\ IsFiniteSet(Number) /\ NoNumber \notin Number
  /\ LegacyNumber \subseteq Number /\ BlockNumber \subseteq Number /\ BlockNumber \cap LegacyNumber = {}
  /\ \A n \in BlockNumber \cup LegacyNumber : n > MaxNumber
  /\ MaxNumber \in Nat \ {0}
<1>1. IsFiniteSet(1 .. MaxNumber)
  BY DocumentsAssumption, 1 \in Int, FS_Interval
<1>2. Number = (1 .. MaxNumber) \cup (BlockNumber \cup LegacyNumber)
  BY DEF Number
<1>3. IsFiniteSet(Number)
  BY <1>1, <1>2, DocumentsAssumption, FS_Union
<1>4. Number \subseteq Nat \ {0} /\ NoNumber \notin Number
  BY DocumentsAssumption DEF Number, NoNumber
<1>5. QED
  BY <1>3, <1>4, DocumentsAssumption DEF Number

LEMMA AbsentFacts ==
  /\ Absent \notin BatchRecord /\ Absent \notin PattaRecord
  /\ Absent \notin SheetRecord /\ Absent \notin PrintRecord
BY DEF Absent, BatchRecord, PattaRecord, SheetRecord, PrintRecord

LEMMA RowTypes ==
  /\ \A b \in Batch : BatchRow(b) \in Rows
  /\ \A n \in Number : PattaRow(n) \in Rows
  /\ \A s \in Sheet : SheetRow(s) \in Rows /\ SheetRows(s) \in Rows
  /\ PartiyaSequence \in Rows /\ PattaSequence \in Rows
BY DEF Rows

LEMMA NewPattaFacts ==
  ASSUME NEW b \in Batch \cup {"none"}, NEW z \in Razmer, NEW soni \in Soni \cup {Unknown}
  PROVE  /\ NewPatta(b, z, soni) \in PattaRecord
         /\ NewPatta(b, z, soni).batch = b /\ NewPatta(b, z, soni).razmer = z
         /\ NewPatta(b, z, soni).soni = soni /\ NewPatta(b, z, soni).status = "ACTIVE"
         /\ NewPatta(b, z, soni).version = 1
         /\ Present(NewPatta(b, z, soni))
<1>1. NewPatta(b, z, soni) \in PattaRecord
  BY DEF NewPatta, PattaRecord
<1>2. QED
  BY <1>1, AbsentFacts DEF NewPatta, Present

LEMMA NewSheetFacts ==
  ASSUME NEW n \in Number \cup {NoNumber}, NEW z \in Razmer \cup {0}, NEW soni \in Soni
  PROVE  /\ NewSheet(n, z, soni) \in SheetRecord
         /\ NewSheet(n, z, soni).patta = n /\ NewSheet(n, z, soni).razmer = z
         /\ NewSheet(n, z, soni).soni = soni /\ NewSheet(n, z, soni).rows = soni
         /\ NewSheet(n, z, soni).version = 1
<1>1. NewSheet(n, z, soni) \in SheetRecord
  BY DEF NewSheet, SheetRecord
<1>2. QED
  BY <1>1 DEF NewSheet

LEMMA NewBatchFacts ==
  ASSUME NEW a, a.soni \in Soni, a.target \in Distribution
  PROVE  /\ NewBatch(a) \in BatchRecord
         /\ NewBatch(a).soni = a.soni /\ NewBatch(a).target = a.target
         /\ NewBatch(a).version = 1 /\ NewBatch(a).printed = FALSE
<1>1. NewBatch(a) \in BatchRecord
  BY DocumentsAssumption DEF NewBatch, BatchRecord
<1>2. QED
  BY <1>1 DEF NewBatch

-----------------------------------------------------------------------------
(* What a write that commits may change.                                   *)

TablesTyped ==
  /\ batches \in [Batch -> BatchRecord \cup {Absent}]
  /\ pattas \in [Number -> PattaRecord \cup {Absent}]
  /\ sheets \in [Sheet -> SheetRecord \cup {Absent}]
  /\ prints \in [PrintEvent -> PrintRecord \cup {Absent}]
  /\ nextPatta \in 1 .. MaxNumber

\* The triggers let these changes through.
Judged ==
  /\ \A b \in Batch : Present(batches'[b]) => \A n \in Active(b)' : pattas'[n].soni = batches'[b].soni
  /\ \A n \in Number : Present(pattas[n]) /\ pattas'[n] # pattas[n] => pattas'[n].version = pattas[n].version + 1
  /\ \A s \in Sheet : ~Present(sheets[s]) /\ sheets'[s] # sheets[s] /\ sheets'[s].patta # NoNumber =>
       /\ pattas'[sheets'[s].patta].status = "ACTIVE"
       /\ sheets'[s].soni = pattas'[sheets'[s].patta].soni
       /\ sheets'[s].razmer = pattas'[sheets'[s].patta].razmer
       /\ \A t \in Sheet : Present(sheets[t]) => sheets[t].patta # sheets'[s].patta
  /\ \A s \in Sheet : Present(sheets[s]) /\ Present(sheets'[s]) /\ sheets'[s] # sheets[s] =>
       /\ sheets'[s].version = sheets[s].version + 1
       /\ sheets'[s].trashed = sheets[s].trashed => sheets'[s].rows = sheets'[s].soni

LEMMA JudgedFacts ==
  ASSUME NEW a, NEW after, GuardsAccept(a, after),
         batches' = after.batches, pattas' = after.pattas, sheets' = after.sheets
  PROVE  Judged
<1>1. \A b \in Batch : Present(batches'[b]) => \A n \in Active(b)' : pattas'[n].soni = batches'[b].soni
  BY DEF GuardsAccept, ContentsMatch, Active, Present
<1>2. \A n \in Number : Present(pattas[n]) /\ pattas'[n] # pattas[n] => pattas'[n].version = pattas[n].version + 1
  BY DEF GuardsAccept, PattasMatch
<1>3. ASSUME NEW s \in Sheet, ~Present(sheets[s]), sheets'[s] # sheets[s], sheets'[s].patta # NoNumber
      PROVE  InsertMatches(after, s)
  BY <1>3 DEF GuardsAccept, SheetsMatch, Touched, Present
<1>4. ASSUME NEW s \in Sheet, Present(sheets[s]), Present(sheets'[s]), sheets'[s] # sheets[s]
      PROVE  UpdateMatches(after, s)
  BY <1>4 DEF GuardsAccept, SheetsMatch, Touched, Present
<1>5. \A s \in Sheet : ~Present(sheets[s]) /\ sheets'[s] # sheets[s] /\ sheets'[s].patta # NoNumber =>
       /\ pattas'[sheets'[s].patta].status = "ACTIVE"
       /\ sheets'[s].soni = pattas'[sheets'[s].patta].soni
       /\ sheets'[s].razmer = pattas'[sheets'[s].patta].razmer
       /\ \A t \in Sheet : Present(sheets[t]) => sheets[t].patta # sheets'[s].patta
  BY <1>3 DEF InsertMatches
<1>6. \A s \in Sheet : Present(sheets[s]) /\ Present(sheets'[s]) /\ sheets'[s] # sheets[s] =>
       /\ sheets'[s].version = sheets[s].version + 1
       /\ sheets'[s].trashed = sheets[s].trashed => sheets'[s].rows = sheets'[s].soni
  BY <1>4 DEF UpdateMatches
<1>7. QED
  BY <1>1, <1>2, <1>5, <1>6 DEF Judged

\* What the write of a request leaves to the others.
Effect(r) ==
  /\ TablesTyped'
  /\ \A b \in Batch : Present(batches[b]) =>
       /\ Present(batches'[b])
       /\ BatchRow(b) \notin held[r] => batches'[b].version = batches[b].version /\ SizesOf(b)' = SizesOf(b)
  /\ \A b \in Batch : ~Present(batches[b]) /\ Present(batches'[b]) => req[r].kind \in Founding /\ req[r].batch = b
  /\ \A n \in Number : Present(pattas[n]) =>
       Present(pattas'[n]) /\ (pattas[n].soni # Unknown => pattas'[n].soni # Unknown)
  /\ \A s \in Sheet : Present(sheets[s]) /\ Present(sheets'[s]) => sheets'[s].patta = sheets[s].patta
  /\ \A s \in Sheet : ~Present(sheets[s]) /\ Present(sheets'[s]) =>
       /\ req[r].kind \in Creating /\ req[r].sheet = s
       /\ sheets'[s].patta # NoNumber => PattaRow(sheets'[s].patta) \in held[r]
  /\ \A s \in Sheet : Present(sheets[s]) /\ SheetRow(s) \notin held[r] => sheets'[s] = sheets[s]
  /\ PattaSequence \notin held[r] => nextPatta' = nextPatta
  /\ QuantitiesAgree' /\ SequenceIsAhead' /\ PrintedMeansSucceeded' /\ ReferenceInv'

\* What it takes to change a sheet or a batch.
Named(a) ==
  /\ \A s \in Sheet : Present(sheets[s]) /\ sheets'[s] # sheets[s] =>
       a.kind \in Corrections \cup {"legacy"} \/ (a.sheet = s /\ a.expected = sheets[s].version)
  /\ \A b \in Batch : Present(batches[b]) /\ batches'[b] # batches[b] =>
       /\ a.batch = b
       /\ IF a.kind \in Corrections THEN a.expected = batches[b].version ELSE a.outcome = "SUCCEEDED"

LEMMA SizesKept ==
  ASSUME pattas' = pattas
  PROVE  \A b : Active(b)' = Active(b) /\ SizesOf(b)' = SizesOf(b)
BY DEF Active, SizesOf

\* A request that writes one sheet and nothing else.
LEMMA OneSheet ==
  ASSUME TablesTyped, SequenceIsAhead, QuantitiesAgree, PrintedMeansSucceeded, ReferenceInv, Judged,
         NEW r \in Request, NEW s \in Sheet, NEW x \in SheetRecord \cup {Absent},
         UNCHANGED <<batches, pattas, prints, nextPatta>>, sheets' = [sheets EXCEPT ![s] = x],
         Present(sheets[s]) => x = sheets[s] \/ (SheetRow(s) \in held[r] /\ req[r].sheet = s /\ req[r].expected = sheets[s].version),
         Present(sheets[s]) /\ Present(x) /\ x # sheets[s] =>
           /\ x.patta = sheets[s].patta /\ x.soni = sheets[s].soni /\ x.razmer = sheets[s].razmer
           /\ x.rows = sheets[s].rows \/ x.trashed = sheets[s].trashed,
         ~Present(sheets[s]) /\ Present(x) =>
           /\ req[r].kind \in Creating /\ req[r].sheet = s
           /\ x.rows = x.soni
           /\ x.patta # NoNumber => PattaRow(x.patta) \in held[r] /\ Present(pattas[x.patta])
  PROVE  Effect(r) /\ Named(req[r])
<1>1. TablesTyped'
  BY DEF TablesTyped
<1>2. /\ sheets'[s] = x
      /\ \A t \in Sheet \ {s} : sheets'[t] = sheets[t]
  BY DEF TablesTyped
<1>3. \A b : Active(b)' = Active(b) /\ SizesOf(b)' = SizesOf(b)
  BY SizesKept
<1>4. SequenceIsAhead' /\ PrintedMeansSucceeded'
  BY DEF SequenceIsAhead, PrintedMeansSucceeded
<1>5. ASSUME Present(sheets'[s]), sheets'[s].patta # NoNumber
      PROVE  /\ \/ Present(sheets[s]) /\ sheets'[s].patta = sheets[s].patta
                \/ PattaRow(sheets'[s].patta) \in held[r]
             /\ Present(pattas[sheets'[s].patta])
  BY <1>2, <1>5 DEF ReferenceInv
<1>6. ReferenceInv'
  <2>1. \A t \in Sheet : Present(sheets'[t]) /\ sheets'[t].patta # NoNumber => Present(pattas'[sheets'[t].patta])
    BY <1>2, <1>5 DEF ReferenceInv
  <2>2. QED
    BY <1>3, <2>1 DEF ReferenceInv
<1>7. QuantitiesAgree'
  <2> SUFFICES ASSUME NEW t \in Sheet, Present(sheets'[t]), sheets'[t].patta # NoNumber
               PROVE  /\ pattas[sheets'[t].patta].status = "ACTIVE"
                      /\ sheets'[t].soni = pattas[sheets'[t].patta].soni
                      /\ sheets'[t].rows = pattas[sheets'[t].patta].soni
                      /\ sheets'[t].razmer = pattas[sheets'[t].patta].razmer
                      /\ \A u \in Sheet \ {t} : Present(sheets'[u]) => sheets'[u].patta # sheets'[t].patta
    BY DEF QuantitiesAgree
  <2> DEFINE Agrees(y, u) == /\ pattas[y.patta].status = "ACTIVE"
                             /\ y.soni = pattas[y.patta].soni /\ y.rows = pattas[y.patta].soni
                             /\ y.razmer = pattas[y.patta].razmer
                             /\ \A v \in Sheet \ {u} : Present(sheets[v]) => sheets[v].patta # y.patta
  <2>1. \A u \in Sheet : Present(sheets[u]) /\ sheets[u].patta # NoNumber => Agrees(sheets[u], u)
    BY DEF QuantitiesAgree
  <2>2. CASE t # s
    <3>1. sheets'[t] = sheets[t]
      BY <1>2, <2>2
    <3>2. Agrees(sheets[t], t)
      BY <2>1, <3>1
    <3>3. Present(sheets'[s]) => sheets'[s].patta # sheets[t].patta
      <4>1. CASE Present(sheets[s])
        BY <1>2, <2>2, <3>2, <4>1
      <4>2. CASE ~Present(sheets[s]) /\ Present(sheets'[s]) /\ sheets'[s].patta # NoNumber
        <5>1. sheets'[s] # sheets[s]
          BY <4>2
        <5>2. Present(sheets[t]) => sheets[t].patta # sheets'[s].patta
          BY <4>2, <5>1 DEF Judged
        <5>3. QED
          BY <3>1, <5>2
      <4>3. QED
        BY <3>1, <4>1, <4>2
    <3>4. QED
      BY <1>2, <3>1, <3>2, <3>3
  <2>3. CASE t = s /\ Present(sheets[s])
    <3>1. CASE x = sheets[s]
      BY <1>2, <2>1, <2>3, <3>1
    <3>2. CASE x # sheets[s]
      <4>1. /\ x.patta = sheets[s].patta /\ x.soni = sheets[s].soni /\ x.razmer = sheets[s].razmer
            /\ x.rows = sheets[s].rows \/ x.trashed = sheets[s].trashed
        BY <1>2, <2>3, <3>2
      <4>2. Agrees(sheets[s], s)
        BY <1>2, <2>1, <2>3, <4>1
      <4>3. x.rows = sheets[s].rows \/ x.rows = x.soni
        BY <1>2, <2>3, <3>2, <4>1 DEF Judged
      <4>4. Agrees(x, s)
        BY <4>1, <4>2, <4>3
      <4>5. QED
        BY <1>2, <2>3, <4>4
    <3>3. QED
      BY <3>1, <3>2
  <2>4. CASE t = s /\ ~Present(sheets[s])
    <3>1. sheets'[s] # sheets[s] /\ sheets'[s] = x
      BY <1>2, <2>4
    <3>2. /\ pattas'[x.patta].status = "ACTIVE"
          /\ x.soni = pattas'[x.patta].soni
          /\ x.razmer = pattas'[x.patta].razmer
          /\ \A u \in Sheet : Present(sheets[u]) => sheets[u].patta # x.patta
      BY <2>4, <3>1 DEF Judged
    <3>3. x.rows = x.soni
      BY <2>4, <3>1
    <3>4. QED
      BY <1>2, <2>4, <3>1, <3>2, <3>3
  <2>5. QED
    BY <2>2, <2>3, <2>4
<1>8. Named(req[r])
  BY <1>2 DEF Named
<1>9. /\ \A t \in Sheet : Present(sheets[t]) /\ Present(sheets'[t]) => sheets'[t].patta = sheets[t].patta
      /\ \A t \in Sheet : ~Present(sheets[t]) /\ Present(sheets'[t]) =>
           /\ req[r].kind \in Creating /\ req[r].sheet = t
           /\ sheets'[t].patta # NoNumber => PattaRow(sheets'[t].patta) \in held[r]
  BY <1>2
<1>10. \A t \in Sheet : Present(sheets[t]) /\ SheetRow(t) \notin held[r] => sheets'[t] = sheets[t]
  BY <1>2
<1>11. QED
  BY <1>1, <1>3, <1>4, <1>6, <1>7, <1>8, <1>9, <1>10 DEF Effect

\* An accepted insertion changes no Patta that is there.
LEMMA InsertedFacts ==
  ASSUME TablesTyped, Judged, NEW old \in [Number -> PattaRecord \cup {Absent}],
         NEW b \in Batch \cup {"none"}, NEW soni \in Soni, NEW sizes,
         \A n \in Number \cap DOMAIN sizes : sizes[n] \in Razmer,
         pattas' = Inserted(old, b, soni, sizes)
  PROVE  /\ pattas' \in [Number -> PattaRecord \cup {Absent}]
         /\ \A n \in Number \ DOMAIN sizes : pattas'[n] = old[n]
         /\ \A n \in Number \cap DOMAIN sizes :
              /\ pattas'[n] = NewPatta(b, sizes[n], soni)
              /\ Present(pattas'[n]) /\ pattas'[n].batch = b
              /\ Present(pattas[n]) => pattas'[n] = pattas[n]
<1>1. \A n \in Number \ DOMAIN sizes : pattas'[n] = old[n]
  BY DEF Inserted
<1>2. ASSUME NEW n \in Number \cap DOMAIN sizes
      PROVE  /\ pattas'[n] = NewPatta(b, sizes[n], soni)
             /\ pattas'[n] \in PattaRecord
             /\ Present(pattas'[n]) /\ pattas'[n].batch = b
             /\ Present(pattas[n]) => pattas'[n] = pattas[n]
  <2>1. pattas'[n] = NewPatta(b, sizes[n], soni)
    BY DEF Inserted
  <2>2. /\ NewPatta(b, sizes[n], soni) \in PattaRecord
        /\ Present(NewPatta(b, sizes[n], soni)) /\ NewPatta(b, sizes[n], soni).batch = b
        /\ NewPatta(b, sizes[n], soni).version = 1
    <3>1. soni \in Soni \cup {Unknown} /\ sizes[n] \in Razmer
      OBVIOUS
    <3>2. QED
      BY <3>1, NewPattaFacts
  <2>3. Present(pattas[n]) => pattas'[n] = pattas[n]
    <3> SUFFICES ASSUME Present(pattas[n]), pattas'[n] # pattas[n] PROVE FALSE
      OBVIOUS
    <3>1. pattas'[n].version = pattas[n].version + 1
      BY DEF Judged
    <3>2. pattas[n].version \in Nat \ {0}
      <4>1. pattas[n] \in PattaRecord
        BY DEF TablesTyped, Present
      <4>2. QED
        BY <4>1 DEF PattaRecord
    <3>3. QED
      BY <2>1, <2>2, <3>1, <3>2
  <2>4. QED
    BY <2>1, <2>2, <2>3
<1>3. \A n \in Number : pattas'[n] \in PattaRecord \cup {Absent}
  BY <1>1, <1>2
<1>4. pattas' = [n \in Number |-> pattas'[n]]
  BY DEF Inserted
<1>5. pattas' \in [Number -> PattaRecord \cup {Absent}]
  BY <1>3, <1>4
<1>6. QED
  BY <1>1, <1>2, <1>5

\* A request that inserts Pattas, of a new batch or of none.
LEMMA OneBatch ==
  ASSUME TablesTyped, SequenceIsAhead, QuantitiesAgree, PrintedMeansSucceeded, ReferenceInv, Judged,
         NEW r \in Request, NEW b \in Batch \cup {"none"}, NEW soni \in Soni, NEW sizes, NEW new,
         UNCHANGED <<sheets, prints>>,
         \A n \in Number \cap DOMAIN sizes : sizes[n] \in Razmer /\ (n <= MaxNumber => n < nextPatta'),
         pattas' = Inserted(pattas, b, soni, sizes),
         nextPatta' \in nextPatta .. MaxNumber, PattaSequence \notin held[r] => nextPatta' = nextPatta,
         b = "none" => batches' = batches,
         b # "none" => /\ new \in BatchRecord /\ new.printed = FALSE /\ batches' = [batches EXCEPT ![b] = new]
                       /\ ~Present(batches[b]) /\ req[r].kind \in Founding /\ req[r].batch = b
  PROVE  Effect(r) /\ Named(req[r])
<1>1. /\ pattas' \in [Number -> PattaRecord \cup {Absent}]
      /\ \A n \in Number \ DOMAIN sizes : pattas'[n] = pattas[n]
      /\ \A n \in Number \cap DOMAIN sizes :
              /\ Present(pattas'[n]) /\ pattas'[n].batch = b
              /\ Present(pattas[n]) => pattas'[n] = pattas[n]
  <2>1. pattas \in [Number -> PattaRecord \cup {Absent}]
    BY DEF TablesTyped
  <2>2. \A n \in Number \cap DOMAIN sizes : sizes[n] \in Razmer
    OBVIOUS
  <2>3. QED
    BY <2>1, <2>2, InsertedFacts
<1>2. \A n \in Number : Present(pattas[n]) => pattas'[n] = pattas[n]
  BY <1>1
<1>3. /\ \A c \in Batch \ {b} : batches'[c] = batches[c]
      /\ \A c \in Batch : Present(batches[c]) => c # b /\ batches'[c] = batches[c]
      /\ batches' \in [Batch -> BatchRecord \cup {Absent}]
      /\ b \in Batch => batches'[b] = new /\ new.printed = FALSE /\ ~Present(batches[b])
  <2>1. batches \in [Batch -> BatchRecord \cup {Absent}]
    BY DEF TablesTyped
  <2>2. CASE b = "none"
    BY <2>1, <2>2, DocumentsAssumption
  <2>3. CASE b \in Batch /\ b # "none"
    BY <2>1, <2>3
  <2>4. QED
    BY <2>2, <2>3
<1>4. nextPatta \in 1 .. MaxNumber /\ nextPatta' \in 1 .. MaxNumber /\ nextPatta <= nextPatta'
  BY NumberFacts DEF TablesTyped
<1>5. TablesTyped'
  BY <1>1, <1>3, <1>4 DEF TablesTyped
<1>6. \A c \in Batch : Present(batches[c]) => SizesOf(c)' = SizesOf(c)
  <2> SUFFICES ASSUME NEW c \in Batch, Present(batches[c]) PROVE SizesOf(c)' = SizesOf(c)
    OBVIOUS
  <2>1. Active(c)' = Active(c)
    BY <1>1, <1>2, <1>3 DEF Active
  <2>2. \A n \in Active(c) : pattas'[n] = pattas[n]
    BY <1>2 DEF Active
  <2>3. QED
    BY <2>1, <2>2 DEF SizesOf
<1>7. ReferenceInv'
  <2>1. \A s \in Sheet : Present(sheets'[s]) /\ sheets'[s].patta # NoNumber => Present(pattas'[sheets'[s].patta])
    <3> SUFFICES ASSUME NEW s \in Sheet, Present(sheets[s]), sheets[s].patta # NoNumber
                 PROVE  Present(pattas'[sheets[s].patta])
      OBVIOUS
    <3>1. Present(pattas[sheets[s].patta]) /\ sheets[s].patta \in Number
      <4>1. sheets[s] \in SheetRecord
        BY DEF TablesTyped, Present
      <4>2. QED
        BY <4>1 DEF ReferenceInv, SheetRecord
    <3>2. QED
      BY <1>2, <3>1
  <2>2. \A p \in PrintEvent : Present(prints'[p]) => Present(batches'[prints'[p].batch])
    <3> SUFFICES ASSUME NEW p \in PrintEvent, Present(prints[p]) PROVE Present(batches'[prints[p].batch])
      OBVIOUS
    <3>1. Present(batches[prints[p].batch]) /\ prints[p].batch \in Batch
      <4>1. prints[p] \in PrintRecord
        BY DEF TablesTyped, Present
      <4>2. QED
        BY <4>1 DEF ReferenceInv, PrintRecord
    <3>2. QED
      BY <1>3, <3>1
  <2>3. \A n \in LegacyNumber : Present(pattas'[n]) /\ pattas'[n].batch = "none"
    BY <1>2, NumberFacts DEF ReferenceInv
  <2>4. QED
    BY <2>1, <2>2, <2>3 DEF ReferenceInv, Judged
<1>8. QuantitiesAgree'
  <2> SUFFICES ASSUME NEW s \in Sheet, Present(sheets[s]), sheets[s].patta # NoNumber
               PROVE  pattas'[sheets[s].patta] = pattas[sheets[s].patta]
    BY DEF QuantitiesAgree
  <2>1. sheets[s] \in SheetRecord
    BY DEF TablesTyped, Present
  <2>2. Present(pattas[sheets[s].patta]) /\ sheets[s].patta \in Number
    BY <2>1 DEF ReferenceInv, SheetRecord
  <2>3. QED
    BY <1>2, <2>2
<1>9. SequenceIsAhead'
  <2> SUFFICES ASSUME NEW n \in 1 .. MaxNumber, pattas'[n] # Absent PROVE n < nextPatta'
    BY DEF SequenceIsAhead
  <2>1. n \in Number
    BY DEF Number
  <2>2. CASE n \in DOMAIN sizes
    BY <2>1, <2>2
  <2>3. CASE n \notin DOMAIN sizes
    BY <1>1, <1>4, <2>1, <2>3 DEF SequenceIsAhead
  <2>4. QED
    BY <2>2, <2>3
<1>10. PrintedMeansSucceeded'
  <2> SUFFICES ASSUME NEW c \in Batch, batches'[c] # Absent
               PROVE  batches'[c].printed <=>
                        \E p \in PrintEvent : prints[p] # Absent /\ prints[p].batch = c /\ prints[p].outcome = "SUCCEEDED"
    BY DEF PrintedMeansSucceeded
  <2>1. CASE c = b
    <3>1. batches'[c] = new /\ new.printed = FALSE /\ ~Present(batches[c])
      BY <1>3, <2>1
    <3>2. \A p \in PrintEvent : Present(prints[p]) => prints[p].batch # c
      BY <3>1 DEF ReferenceInv
    <3>3. QED
      BY <3>1, <3>2 DEF Present
  <2>2. CASE c # b
    BY <1>3, <2>2 DEF PrintedMeansSucceeded
  <2>3. QED
    BY <2>1, <2>2
<1>11. Named(req[r])
  BY <1>3 DEF Named
<1>12. QED
  BY <1>2, <1>3, <1>5, <1>6, <1>7, <1>8, <1>9, <1>10, <1>11 DEF Effect

-----------------------------------------------------------------------------
(* The write of each operation.                                            *)

Committed(r) ==
  LET after == Outcome(req[r])
  IN  /\ Found(req[r]) /\ GuardsAccept(req[r], after)
      /\ batches' = after.batches /\ pattas' = after.pattas /\ sheets' = after.sheets
      /\ prints' = after.prints /\ nextPatta' = after.nextPatta

Sound ==
  TablesTyped /\ SequenceIsAhead /\ QuantitiesAgree /\ PrintedMeansSucceeded /\ ReferenceInv

Standing(r, a) == AskInv(a) /\ LockOf(r, a) /\ FoundOf(r, a)

LEMMA CommittedIsJudged ==
  ASSUME NEW r \in Request, Committed(r)
  PROVE  Judged
BY JudgedFacts DEF Committed

LEMMA AfterFacts ==
  ASSUME NEW r \in Request, Committed(r), NEW b, NEW p, NEW s, NEW e, NEW n, Outcome(req[r]) = After(b, p, s, e, n)
  PROVE  batches' = b /\ pattas' = p /\ sheets' = s /\ prints' = e /\ nextPatta' = n
BY DEF Committed, After

LEMMA OneSheetAfter ==
  ASSUME NEW r \in Request, Committed(r), NEW s, NEW x, Outcome(req[r]) = WithSheet(s, x)
  PROVE  UNCHANGED <<batches, pattas, prints, nextPatta>> /\ sheets' = [sheets EXCEPT ![s] = x]
BY AfterFacts DEF WithSheet

LEMMA PresentFacts ==
  ASSUME TablesTyped
  PROVE  /\ \A b \in Batch : Present(batches[b]) <=> batches[b] \in BatchRecord
         /\ \A n \in Number : Present(pattas[n]) <=> pattas[n] \in PattaRecord
         /\ \A s \in Sheet : Present(sheets[s]) <=> sheets[s] \in SheetRecord
         /\ \A p \in PrintEvent : Present(prints[p]) <=> prints[p] \in PrintRecord
BY AbsentFacts DEF TablesTyped, Present

\* A sheet that is there is not created again.
LEMMA NotAgain ==
  ASSUME TablesTyped, Judged, NEW s \in Sheet, NEW x \in SheetRecord, x.version = 1, sheets'[s] = x
  PROVE  Present(sheets[s]) => x = sheets[s]
<1> SUFFICES ASSUME Present(sheets[s]), x # sheets[s] PROVE FALSE
  OBVIOUS
<1>1. sheets[s] \in SheetRecord /\ Present(x)
  BY PresentFacts, AbsentFacts DEF Present
<1>2. 1 = sheets[s].version + 1
  BY <1>1 DEF Judged
<1>3. sheets[s].version \in Nat \ {0}
  BY <1>1 DEF SheetRecord
<1>4. QED
  BY <1>2, <1>3

LEMMA CreateLinkedWrites ==
  ASSUME Sound, NEW r \in Request, Committed(r), Standing(r, req[r]), stage[r] = "write",
         req[r].kind = "create_linked"
  PROVE  Effect(r) /\ Named(req[r])
<1> DEFINE s == req[r].sheet
           n == req[r].patta
           x == NewSheet(n, pattas[n].razmer, pattas[n].soni)
<1>1. /\ s \in Sheet /\ n \in Number /\ Present(pattas[n]) /\ pattas[n].soni # Unknown /\ PattaRow(n) \in held[r]
      /\ req[r].kind \in Creating
  BY DEF Standing, AskInv, LockOf, PattaLocks, FoundOf, Entering, Creating
<1>2. pattas[n] \in PattaRecord
  BY <1>1, PresentFacts DEF Sound
<1>3. pattas[n].soni \in Soni /\ pattas[n].razmer \in Razmer
  BY <1>1, <1>2 DEF PattaRecord
<1>4. /\ x \in SheetRecord /\ x.patta = n /\ x.version = 1 /\ x.rows = x.soni
  BY <1>1, <1>3, NewSheetFacts
<1>5. Outcome(req[r]) = WithSheet(s, x)
  BY DEF Outcome, LinkedCreated, Corrections
<1> HIDE DEF x
<1>6. UNCHANGED <<batches, pattas, prints, nextPatta>> /\ sheets' = [sheets EXCEPT ![s] = x]
  BY <1>5, OneSheetAfter
<1>7. Judged
  BY CommittedIsJudged
<1>8. sheets'[s] = x
  BY <1>1, <1>6 DEF Sound, TablesTyped
<1>9. Present(sheets[s]) => x = sheets[s]
  BY <1>1, <1>4, <1>7, <1>8, NotAgain DEF Sound
<1>10. QED
  BY <1>1, <1>4, <1>6, <1>7, <1>9, OneSheet DEF Sound

LEMMA CreateStandaloneWrites ==
  ASSUME Sound, NEW r \in Request, Committed(r), Standing(r, req[r]), stage[r] = "write",
         req[r].kind = "create_standalone"
  PROVE  Effect(r) /\ Named(req[r])
<1> DEFINE s == req[r].sheet
           x == NewSheet(NoNumber, 0, req[r].soni)
<1>1. s \in Sheet /\ req[r].soni \in Soni /\ req[r].kind \in Creating
  BY DEF Standing, AskInv, Entering, Creating
<1>2. x \in SheetRecord /\ x.patta = NoNumber /\ x.version = 1 /\ x.rows = x.soni
  BY <1>1, NewSheetFacts
<1>3. Outcome(req[r]) = WithSheet(s, x)
  BY DEF Outcome, StandaloneCreated, Corrections
<1> HIDE DEF x
<1>4. UNCHANGED <<batches, pattas, prints, nextPatta>> /\ sheets' = [sheets EXCEPT ![s] = x]
  BY <1>3, OneSheetAfter
<1>5. Judged
  BY CommittedIsJudged
<1>6. sheets'[s] = x
  BY <1>1, <1>4 DEF Sound, TablesTyped
<1>7. Present(sheets[s]) => x = sheets[s]
  BY <1>1, <1>2, <1>5, <1>6, NotAgain DEF Sound
<1>8. QED
  BY <1>1, <1>2, <1>4, <1>5, <1>7, OneSheet DEF Sound

LEMMA EditLinkedWrites ==
  ASSUME Sound, NEW r \in Request, Committed(r), Standing(r, req[r]), stage[r] = "write",
         req[r].kind = "edit_linked"
  PROVE  Effect(r) /\ Named(req[r])
<1> DEFINE s == req[r].sheet
           v == pattas[sheets[s].patta].soni
           x == [sheets[s] EXCEPT !.rows = v, !.version = req[r].expected + 1]
           AnyRows == [patta : Number \cup {NoNumber}, razmer : Razmer \cup {0}, soni : Soni, rows : Soni \cup {v},
                       updates : Nat, trashed : BOOLEAN, version : Nat \ {0}]
<1>1. /\ s \in Sheet /\ Present(sheets[s]) /\ sheets[s].version = req[r].expected /\ SheetRow(s) \in held[r]
  BY DEF Standing, AskInv, LockOf, FoundOf, Entering, Creating, Changing, Live
<1>2. sheets[s] \in SheetRecord
  BY <1>1, PresentFacts DEF Sound
<1>3. sheets[s].version \in Nat \ {0}
  BY <1>2 DEF SheetRecord
<1>4. Outcome(req[r]) = WithSheet(s, x)
  BY DEF Outcome, LinkedEdited, Corrections
<1> HIDE DEF v
<1>5. /\ x \in AnyRows /\ x.patta = sheets[s].patta /\ x.soni = sheets[s].soni /\ x.razmer = sheets[s].razmer
      /\ x.trashed = sheets[s].trashed /\ x.rows = v /\ x.version = sheets[s].version + 1
  <2> DEFINE old == sheets[s]
             w == req[r].expected + 1
  <2>1. w \in Nat \ {0} /\ w = old.version + 1 /\ old \in SheetRecord
    BY <1>1, <1>2, <1>3
  <2>2. x = [old EXCEPT !.rows = v, !.version = w]
    OBVIOUS
  <2> HIDE DEF old, w, x
  <2>3. /\ x \in AnyRows /\ x.patta = old.patta /\ x.soni = old.soni /\ x.razmer = old.razmer
        /\ x.trashed = old.trashed /\ x.rows = v /\ x.version = w
    BY <2>1, <2>2 DEF SheetRecord
  <2>4. QED
    BY <2>1, <2>3 DEF old
<1>6. x # Absent
  BY <1>5 DEF Absent
<1> HIDE DEF x, AnyRows
<1>7. UNCHANGED <<batches, pattas, prints, nextPatta>> /\ sheets' = [sheets EXCEPT ![s] = x]
  BY <1>4, OneSheetAfter
<1>8. Judged
  BY CommittedIsJudged
<1>9. sheets'[s] = x
  BY <1>1, <1>7 DEF Sound, TablesTyped
<1>10. x.rows = x.soni
  BY <1>1, <1>3, <1>5, <1>6, <1>8, <1>9 DEF Judged, Present
<1>11. x \in SheetRecord
  BY <1>2, <1>5, <1>10 DEF SheetRecord, AnyRows
<1>12. QED
  BY <1>1, <1>5, <1>7, <1>8, <1>11, OneSheet DEF Sound

LEMMA EditStandaloneWrites ==
  ASSUME Sound, NEW r \in Request, Committed(r), Standing(r, req[r]), stage[r] = "write", want[r] = <<>>,
         req[r].kind = "edit_standalone"
  PROVE  Effect(r) /\ Named(req[r])
<1> DEFINE s == req[r].sheet
           x == [sheets[s] EXCEPT !.rows = sheets[s].soni, !.updates = @ + 1, !.version = req[r].expected + 1]
<1>1. /\ s \in Sheet /\ Present(sheets[s]) /\ req[r].expected \in Nat
  BY DEF Standing, AskInv, Committed, Found, Entering, Creating
<1>2. SheetRow(s) \in held[r]
  BY DEF Standing, LockOf, Promised, Entering, Creating
<1>3. sheets[s] \in SheetRecord
  BY <1>1, PresentFacts DEF Sound
<1>4. sheets[s].version \in Nat \ {0}
  BY <1>3 DEF SheetRecord
<1>5. Outcome(req[r]) = WithSheet(s, x)
  BY DEF Outcome, StandaloneEdited, Corrections
<1>6. /\ x \in SheetRecord /\ x.patta = sheets[s].patta /\ x.soni = sheets[s].soni /\ x.razmer = sheets[s].razmer
      /\ x.trashed = sheets[s].trashed /\ x.version = req[r].expected + 1
  <2> DEFINE old == sheets[s]
             u == old.updates + 1
             w == req[r].expected + 1
  <2>1. w \in Nat \ {0} /\ u \in Nat /\ old \in SheetRecord
    BY <1>1, <1>3 DEF SheetRecord
  <2>2. x = [old EXCEPT !.rows = old.soni, !.updates = u, !.version = w]
    OBVIOUS
  <2> HIDE DEF old, u, w, x
  <2>3. /\ x.patta = old.patta /\ x.soni = old.soni /\ x.razmer = old.razmer
        /\ x.trashed = old.trashed /\ x.version = w
        /\ x \in SheetRecord
    BY <2>1, <2>2 DEF SheetRecord
  <2>4. QED
    BY <2>3 DEF old, w
<1> HIDE DEF x
<1>7. UNCHANGED <<batches, pattas, prints, nextPatta>> /\ sheets' = [sheets EXCEPT ![s] = x]
  BY <1>5, OneSheetAfter
<1>8. Judged
  BY CommittedIsJudged
<1>9. sheets'[s] = x /\ Present(x)
  BY <1>1, <1>6, <1>7, AbsentFacts DEF Sound, TablesTyped, Present
<1>10. x # sheets[s] => req[r].expected = sheets[s].version
  <2> SUFFICES ASSUME x # sheets[s] PROVE req[r].expected = sheets[s].version
    OBVIOUS
  <2>1. x.version = sheets[s].version + 1
    BY <1>1, <1>8, <1>9 DEF Judged
  <2>2. QED
    BY <1>1, <1>4, <1>6, <2>1
<1>11. QED
  BY <1>1, <1>2, <1>6, <1>7, <1>8, <1>10, OneSheet DEF Sound

LEMMA LifecycleWrites ==
  ASSUME Sound, NEW r \in Request, Committed(r), Standing(r, req[r]), stage[r] = "write",
         req[r].kind \in {"trash", "restore"}
  PROVE  Effect(r) /\ Named(req[r])
<1> DEFINE s == req[r].sheet
           x == [sheets[s] EXCEPT !.trashed = (req[r].kind = "trash"), !.version = req[r].expected + 1]
<1>1. /\ s \in Sheet /\ Present(sheets[s]) /\ sheets[s].version = req[r].expected /\ SheetRow(s) \in held[r]
  BY DEF Standing, AskInv, LockOf, FoundOf, Entering, Creating, Changing, Live
<1>2. sheets[s] \in SheetRecord
  BY <1>1, PresentFacts DEF Sound
<1>3. sheets[s].version \in Nat \ {0}
  BY <1>2 DEF SheetRecord
<1>4. Outcome(req[r]) = WithSheet(s, x)
  <2>1. CASE req[r].kind = "trash"
    <3>1. Outcome(req[r]) = WithSheet(s, [sheets[s] EXCEPT !.trashed = TRUE, !.version = req[r].expected + 1])
      BY <2>1 DEF Outcome, Trashed, Corrections
    <3>2. (req[r].kind = "trash") = TRUE
      BY <2>1
    <3>3. QED
      BY <3>1, <3>2
  <2>2. CASE req[r].kind = "restore"
    <3>1. Outcome(req[r]) = WithSheet(s, [sheets[s] EXCEPT !.trashed = FALSE, !.version = req[r].expected + 1])
      BY <2>2 DEF Outcome, Trashed, Corrections
    <3>2. (req[r].kind = "trash") = FALSE
      BY <2>2
    <3>3. QED
      BY <3>1, <3>2
  <2>3. QED
    BY <2>1, <2>2
<1>5. /\ x \in SheetRecord /\ x.patta = sheets[s].patta /\ x.soni = sheets[s].soni /\ x.razmer = sheets[s].razmer
      /\ x.rows = sheets[s].rows
  <2> DEFINE old == sheets[s]
             t == req[r].kind = "trash"
             w == req[r].expected + 1
  <2>1. w \in Nat \ {0} /\ t \in BOOLEAN /\ old \in SheetRecord
    BY <1>1, <1>2, <1>3
  <2>2. x = [old EXCEPT !.trashed = t, !.version = w]
    OBVIOUS
  <2> HIDE DEF old, t, w, x
  <2>3. /\ x \in SheetRecord /\ x.patta = old.patta /\ x.soni = old.soni /\ x.razmer = old.razmer
        /\ x.rows = old.rows
    BY <2>1, <2>2 DEF SheetRecord
  <2>4. QED
    BY <2>3 DEF old
<1> HIDE DEF x
<1>6. UNCHANGED <<batches, pattas, prints, nextPatta>> /\ sheets' = [sheets EXCEPT ![s] = x]
  BY <1>4, OneSheetAfter
<1>7. Judged
  BY CommittedIsJudged
<1>8. QED
  BY <1>1, <1>5, <1>6, <1>7, OneSheet DEF Sound

LEMMA PurgeWrites ==
  ASSUME Sound, NEW r \in Request, Committed(r), Standing(r, req[r]), stage[r] = "write",
         req[r].kind = "purge"
  PROVE  Effect(r) /\ Named(req[r])
<1> DEFINE s == req[r].sheet
<1>1. /\ s \in Sheet /\ Present(sheets[s]) /\ sheets[s].version = req[r].expected /\ SheetRow(s) \in held[r]
  BY DEF Standing, AskInv, LockOf, FoundOf, Entering, Creating, Changing, Live
<1>2. Outcome(req[r]) = WithSheet(s, Absent)
  BY DEF Outcome, Removed, Corrections
<1>3. UNCHANGED <<batches, pattas, prints, nextPatta>> /\ sheets' = [sheets EXCEPT ![s] = Absent]
  BY <1>2, OneSheetAfter
<1>4. Judged
  BY CommittedIsJudged
<1>5. ~Present(Absent)
  BY DEF Present
<1>6. QED
  BY <1>1, <1>3, <1>4, <1>5, OneSheet DEF Sound

LEMMA NextNumbersFacts ==
  ASSUME nextPatta \in Nat, NEW first \in Nat, NEW slots \in Seq(Razmer), slots # <<>> => first = nextPatta
  PROVE  /\ \A n \in DOMAIN NextNumbers(first, slots) :
              NextNumbers(first, slots)[n] \in Razmer /\ n < SequenceAfter(first, slots)
         /\ SequenceAfter(first, slots) = nextPatta + Len(slots)
         /\ SequenceAfter(first, slots) \in Nat /\ nextPatta <= SequenceAfter(first, slots)
<1>1. Len(slots) \in Nat /\ (slots = <<>> => Len(slots) = 0) /\ \A i \in 1 .. Len(slots) : slots[i] \in Razmer
  OBVIOUS
<1>2. SequenceAfter(first, slots) = nextPatta + Len(slots)
  BY <1>1 DEF SequenceAfter
<1>3. \A n \in first .. (first + Len(slots) - 1) :
        n - first + 1 \in 1 .. Len(slots) /\ n < nextPatta + Len(slots)
  <2>1. CASE slots = <<>>
    BY <1>1, <2>1
  <2>2. CASE first = nextPatta
    BY <1>1, <2>2
  <2>3. QED
    BY <2>1, <2>2
<1>4. QED
  BY <1>1, <1>2, <1>3 DEF NextNumbers

LEMMA CreateWrites ==
  ASSUME Sound, NEW r \in Request, Committed(r), Standing(r, req[r]), stage[r] = "write",
         req[r].kind = "create"
  PROVE  Effect(r) /\ Named(req[r])
<1> DEFINE a == req[r]
           slots == Slots(a.target)
           sizes == NextNumbers(a.first, slots)
<1>1. /\ a.batch \in Batch /\ a.soni \in Soni /\ a.target \in Distribution /\ ~Present(batches[a.batch])
      /\ PattaSequence \in held[r] /\ a.first = nextPatta /\ a.first + Len(slots) <= MaxNumber
  BY DEF Standing, AskInv, FoundOf, Founding
<1>2. slots \in Seq(Razmer)
  <2>1. a.target \in [Razmer -> Int]
    BY <1>1, DocumentsAssumption
  <2>2. QED
    BY <2>1, SlotsFacts
<1>3. Outcome(a) = After([batches EXCEPT ![a.batch] = NewBatch(a)], Inserted(pattas, a.batch, a.soni, sizes),
                         sheets, prints, SequenceAfter(a.first, slots))
  BY DEF Outcome, Created, Corrections
<1>4. /\ batches' = [batches EXCEPT ![a.batch] = NewBatch(a)] /\ pattas' = Inserted(pattas, a.batch, a.soni, sizes)
      /\ UNCHANGED <<sheets, prints>> /\ nextPatta' = SequenceAfter(a.first, slots)
  BY <1>3, AfterFacts
<1>5. NewBatch(a) \in BatchRecord /\ NewBatch(a).printed = FALSE
  BY <1>1, NewBatchFacts
<1>6. nextPatta \in Nat
  BY NumberFacts DEF Sound, TablesTyped
<1> HIDE DEF slots
<1>7. /\ \A n \in DOMAIN sizes : sizes[n] \in Razmer /\ n < nextPatta'
      /\ nextPatta' \in Nat /\ nextPatta <= nextPatta' /\ nextPatta' <= MaxNumber
  BY <1>1, <1>2, <1>4, <1>6, NextNumbersFacts
<1> HIDE DEF sizes
<1>8. nextPatta' \in nextPatta .. MaxNumber
  BY <1>6, <1>7, NumberFacts
<1>9. Judged /\ a.batch # "none" /\ a.kind \in Founding
  BY <1>1, CommittedIsJudged, DocumentsAssumption DEF Founding
<1>10. QED
  BY <1>1, <1>4, <1>5, <1>7, <1>8, <1>9, OneBatch DEF Sound

LEMMA RegisterWrites ==
  ASSUME Sound, NEW r \in Request, Committed(r), Standing(r, req[r]),
         req[r].kind = "register"
  PROVE  Effect(r) /\ Named(req[r])
<1> DEFINE a == req[r]
<1>1. /\ a.batch \in Batch /\ a.soni \in Soni /\ a.target \in Distribution /\ ~Present(batches[a.batch])
      /\ a.sizes \in [DOMAIN a.sizes -> Razmer] /\ DOMAIN a.sizes \subseteq BlockNumber
  BY DEF Standing, AskInv, Founding, Claiming
<1>2. Outcome(a) = After([batches EXCEPT ![a.batch] = NewBatch(a)], Inserted(pattas, a.batch, a.soni, a.sizes),
                         sheets, prints, nextPatta)
  BY DEF Outcome, Registered, Corrections
<1>3. /\ batches' = [batches EXCEPT ![a.batch] = NewBatch(a)] /\ pattas' = Inserted(pattas, a.batch, a.soni, a.sizes)
      /\ UNCHANGED <<sheets, prints>> /\ nextPatta' = nextPatta
  BY <1>2, AfterFacts
<1>4. NewBatch(a) \in BatchRecord /\ NewBatch(a).printed = FALSE
  BY <1>1, NewBatchFacts
<1>5. \A n \in Number \cap DOMAIN a.sizes : a.sizes[n] \in Razmer /\ (n <= MaxNumber => n < nextPatta')
  <2>1. ASSUME NEW n \in Number \cap DOMAIN a.sizes PROVE ~(n <= MaxNumber)
    <3>1. n \in Nat /\ MaxNumber \in Nat /\ n > MaxNumber
      BY <1>1, NumberFacts
    <3>2. QED
      BY <3>1
  <2>2. \A n \in DOMAIN a.sizes : a.sizes[n] \in Razmer
    BY <1>1
  <2>3. QED
    BY <2>1, <2>2
<1>6. nextPatta' \in nextPatta .. MaxNumber
  BY <1>3, NumberFacts DEF Sound, TablesTyped
<1>7. Judged /\ a.batch # "none" /\ a.kind \in Founding
  BY <1>1, CommittedIsJudged, DocumentsAssumption DEF Founding
<1>8. QED
  BY <1>1, <1>3, <1>4, <1>5, <1>6, <1>7, OneBatch DEF Sound

LEMMA RegisterOneWrites ==
  ASSUME Sound, NEW r \in Request, Committed(r), Standing(r, req[r]),
         req[r].kind = "register_one"
  PROVE  Effect(r) /\ Named(req[r])
<1> DEFINE a == req[r]
<1>1. /\ a.soni \in Soni
      /\ a.sizes \in [DOMAIN a.sizes -> Razmer] /\ DOMAIN a.sizes \subseteq BlockNumber
  BY DEF Standing, AskInv, Claiming
<1>2. Outcome(a) = After(batches, Inserted(pattas, "none", a.soni, a.sizes), sheets, prints, nextPatta)
  BY DEF Outcome, RegisteredOne, Corrections
<1>3. /\ batches' = batches /\ pattas' = Inserted(pattas, "none", a.soni, a.sizes)
      /\ UNCHANGED <<sheets, prints>> /\ nextPatta' = nextPatta
  BY <1>2, AfterFacts
<1>4. ASSUME NEW n \in Number \cap DOMAIN a.sizes
      PROVE  a.sizes[n] \in Razmer /\ (n <= MaxNumber => n < nextPatta')
  <2>1. n \in BlockNumber /\ n \in Nat /\ n > MaxNumber
    BY <1>1, NumberFacts
  <2>2. QED
    BY <1>1, <2>1, NumberFacts
<1>5. nextPatta' \in nextPatta .. MaxNumber
  BY <1>3, NumberFacts DEF Sound, TablesTyped
<1>6. Judged
  BY CommittedIsJudged
<1>7. QED
  BY <1>1, <1>3, <1>4, <1>5, <1>6, OneBatch DEF Sound

LEMMA PrintedBatchFacts ==
  ASSUME NEW old \in BatchRecord, NEW outcome, NEW new, new = BatchPrinted(old, outcome)
  PROVE  /\ new \in BatchRecord /\ new.soni = old.soni /\ new.version = old.version
         /\ new.printed <=> old.printed \/ outcome = "SUCCEEDED"
         /\ outcome # "SUCCEEDED" => new = old
<1> DEFINE flag == old.printed \/ outcome = "SUCCEEDED"
<1>1. flag \in BOOLEAN /\ new = [old EXCEPT !.printed = flag] /\ (outcome # "SUCCEEDED" => flag = old.printed)
  BY DEF BatchRecord, BatchPrinted
<1> HIDE DEF flag
<1>2. new \in BatchRecord /\ new.soni = old.soni /\ new.version = old.version /\ new.printed = flag
  BY <1>1 DEF BatchRecord
<1>3. flag = old.printed => new = old
  BY <1>1 DEF BatchRecord
<1>4. QED
  BY <1>1, <1>2, <1>3 DEF flag

LEMMA PrintWrites ==
  ASSUME Sound, NEW r \in Request, Committed(r), Standing(r, req[r]),
         req[r].kind = "print"
  PROVE  Effect(r) /\ Named(req[r])
<1> DEFINE a == req[r]
           b == a.batch
           succeeded == a.outcome = "SUCCEEDED"
           old == batches[b]
           new == BatchPrinted(old, a.outcome)
           event == EventOf(a)
<1>1. /\ b \in Batch /\ Present(batches[b]) /\ a.event \in PrintEvent /\ a.revision \in 1 .. MaxVersion
      /\ a.outcome \in PrintOutcome /\ prints[a.event] = Absent
  BY DEF Standing, AskInv, Committed, Found
<1>2. Outcome(a) = After([batches EXCEPT ![b] = new], pattas, sheets,
                         [prints EXCEPT ![a.event] = event], nextPatta)
  BY DEF Outcome, Printed, Corrections
<1>3. /\ batches' = [batches EXCEPT ![b] = new]
      /\ UNCHANGED <<pattas, sheets, nextPatta>> /\ prints' = [prints EXCEPT ![a.event] = event]
  BY <1>2, AfterFacts
<1>4. old \in BatchRecord
  BY <1>1, PresentFacts DEF Sound
<1>5. batches'[b] = new /\ \A c \in Batch \ {b} : batches'[c] = batches[c]
  BY <1>1, <1>3 DEF Sound, TablesTyped
<1>6. /\ new \in BatchRecord /\ new.soni = old.soni /\ new.version = old.version
      /\ new.printed <=> old.printed \/ succeeded
      /\ ~succeeded => new = old
  BY <1>4, PrintedBatchFacts
<1> HIDE DEF new
<1>7. /\ event \in PrintRecord /\ event.batch = b /\ event.outcome = a.outcome
      /\ prints'[a.event] = event /\ \A p \in PrintEvent \ {a.event} : prints'[p] = prints[p]
  BY <1>1, <1>3 DEF EventOf, PrintRecord, Sound, TablesTyped
<1>8. TablesTyped'
  BY <1>1, <1>3, <1>5, <1>6, <1>7 DEF Sound, TablesTyped
<1>9. \A c : Active(c)' = Active(c) /\ SizesOf(c)' = SizesOf(c)
  BY <1>3, SizesKept
<1>10. /\ \A c \in Batch : Present(batches'[c]) <=> Present(batches[c])
       /\ \A c \in Batch : Present(batches[c]) => batches'[c].version = batches[c].version
                                               /\ batches'[c].soni = batches[c].soni
  BY <1>1, <1>5, <1>6, AbsentFacts DEF Present
<1>11. ReferenceInv'
  <2>1. ASSUME NEW p \in PrintEvent, Present(prints'[p]) PROVE Present(batches'[prints'[p].batch])
    <3>1. CASE p = a.event
      BY <1>1, <1>7, <1>10, <3>1
    <3>2. CASE p # a.event
      <4>1. prints'[p] = prints[p] /\ prints[p] \in PrintRecord
        BY <1>7, <2>1, <3>2, PresentFacts DEF Sound
      <4>2. prints[p].batch \in Batch /\ Present(batches[prints[p].batch])
        BY <2>1, <4>1 DEF Sound, ReferenceInv, PrintRecord
      <4>3. QED
        BY <1>10, <4>1, <4>2
    <3>3. QED
      BY <3>1, <3>2
  <2>2. Judged
    BY CommittedIsJudged
  <2>3. QED
    BY <1>3, <2>1, <2>2 DEF Sound, ReferenceInv, Judged
<1>12. SequenceIsAhead' /\ QuantitiesAgree'
  BY <1>3 DEF Sound, SequenceIsAhead, QuantitiesAgree
<1>13. PrintedMeansSucceeded'
  <2> SUFFICES ASSUME NEW c \in Batch, Present(batches'[c])
               PROVE  batches'[c].printed <=>
                        \E p \in PrintEvent : prints'[p] # Absent /\ prints'[p].batch = c /\ prints'[p].outcome = "SUCCEEDED"
    BY DEF PrintedMeansSucceeded, Present
  <2> DEFINE succ(p) == prints[p] # Absent /\ prints[p].batch = c /\ prints[p].outcome = "SUCCEEDED"
             succNow(p) == prints'[p] # Absent /\ prints'[p].batch = c /\ prints'[p].outcome = "SUCCEEDED"
  <2>1. batches[c].printed <=> \E p \in PrintEvent : succ(p)
    BY <1>10 DEF Sound, PrintedMeansSucceeded, Present
  <2>2. \A p \in PrintEvent \ {a.event} : succNow(p) <=> succ(p)
    BY <1>7
  <2>3. ~succ(a.event)
    BY <1>1
  <2>4. succNow(a.event) <=> (c = b /\ succeeded)
    BY <1>7, AbsentFacts
  <2>5. batches'[c].printed <=> batches[c].printed \/ (c = b /\ succeeded)
    <3>1. CASE c = b
      BY <1>5, <1>6, <3>1
    <3>2. CASE c # b
      BY <1>5, <3>2
    <3>3. QED
      BY <3>1, <3>2
  <2> HIDE DEF succ, succNow
  <2>6. (\E p \in PrintEvent : succNow(p)) <=> (\E p \in PrintEvent : succ(p)) \/ (c = b /\ succeeded)
    BY <1>1, <2>2, <2>3, <2>4
  <2>7. QED
    BY <2>1, <2>5, <2>6 DEF succNow
<1>14. Named(a)
  BY <1>3, <1>5, <1>6 DEF Named, Corrections
<1>15. QED
  BY <1>3, <1>8, <1>9, <1>10, <1>11, <1>12, <1>13, <1>14 DEF Effect

LEMMA PattaChangeFacts ==
  ASSUME NEW old \in PattaRecord, NEW soni \in Soni, NEW z \in Razmer
  PROVE  /\ /\ PattaVoid(old) \in PattaRecord /\ PattaVoid(old).batch = old.batch /\ PattaVoid(old).soni = old.soni
         /\ /\ PattaWithSoni(old, soni) \in PattaRecord /\ PattaWithSoni(old, soni).batch = old.batch
            /\ PattaWithSoni(old, soni).soni = soni /\ PattaWithSoni(old, soni).status = old.status
            /\ PattaWithSoni(old, soni).razmer = old.razmer
         /\ /\ PattaMoved(old, soni, z) \in PattaRecord /\ PattaMoved(old, soni, z).batch = old.batch
            /\ PattaMoved(old, soni, z).soni = soni
<1> DEFINE version == old.version + 1
           void == PattaVoid(old)
           counted == PattaWithSoni(old, soni)
           moved == PattaMoved(old, soni, z)
<1>1. version \in Nat \ {0}
  BY DEF PattaRecord
<1>2. /\ void = [old EXCEPT !.status = "VOID", !.version = version]
      /\ counted = [old EXCEPT !.soni = soni, !.version = version]
      /\ moved = [old EXCEPT !.soni = soni, !.razmer = z, !.version = version]
  BY DEF PattaVoid, PattaWithSoni, PattaMoved
<1> HIDE DEF version, void, counted, moved
<1>3. void \in PattaRecord /\ void.batch = old.batch /\ void.soni = old.soni
  BY <1>1, <1>2 DEF PattaRecord
<1>4. /\ counted \in PattaRecord /\ counted.batch = old.batch /\ counted.soni = soni
      /\ counted.status = old.status /\ counted.razmer = old.razmer
  BY <1>1, <1>2 DEF PattaRecord
<1>5. moved \in PattaRecord /\ moved.batch = old.batch /\ moved.soni = soni
  BY <1>1, <1>2 DEF PattaRecord
<1>6. QED
  BY <1>3, <1>4, <1>5 DEF void, counted, moved

LEMMA SheetWithSoniFacts ==
  ASSUME NEW old \in SheetRecord, NEW soni \in Soni
  PROVE  /\ SheetWithSoni(old, soni) \in SheetRecord /\ SheetWithSoni(old, soni).patta = old.patta
         /\ SheetWithSoni(old, soni).razmer = old.razmer
         /\ SheetWithSoni(old, soni).soni = soni /\ SheetWithSoni(old, soni).rows = soni
<1> DEFINE version == old.version + 1
           new == SheetWithSoni(old, soni)
<1>1. version \in Nat \ {0}
  BY DEF SheetRecord
<1>2. new = [old EXCEPT !.soni = soni, !.rows = soni, !.version = version]
  BY DEF SheetWithSoni
<1> HIDE DEF version, new
<1>3. /\ new \in SheetRecord /\ new.patta = old.patta /\ new.razmer = old.razmer
      /\ new.soni = soni /\ new.rows = soni
  BY <1>1, <1>2 DEF SheetRecord
<1>4. QED
  BY <1>3 DEF new

LEMMA BatchCorrectedFacts ==
  ASSUME NEW old \in BatchRecord, NEW a, a.soni \in Soni, a.target \in Distribution, old.version < MaxVersion
  PROVE  /\ BatchCorrected(old, a) \in BatchRecord /\ BatchCorrected(old, a).printed = old.printed
<1> DEFINE soni == a.soni
           target == a.target
           version == old.version + 1
           new == BatchCorrected(old, a)
<1>1. soni \in Soni /\ target \in Distribution /\ version \in 1 .. MaxVersion
  BY DocumentsAssumption DEF BatchRecord
<1>2. new = [old EXCEPT !.soni = soni, !.target = target, !.version = version]
  BY DEF BatchCorrected
<1> HIDE DEF soni, target, version, new
<1>3. new \in BatchRecord /\ new.printed = old.printed
  BY <1>1, <1>2 DEF BatchRecord
<1>4. QED
  BY <1>3 DEF new

LEMMA RequantifiedFacts ==
  ASSUME TablesTyped, NEW numbers, NEW soni \in Soni, sheets' = Requantified(numbers, soni)
  PROVE  /\ sheets' \in [Sheet -> SheetRecord \cup {Absent}]
         /\ \A s \in Sheet : Present(sheets'[s]) <=> Present(sheets[s])
         /\ \A s \in Sheet \ SheetsOf(numbers) : sheets'[s] = sheets[s]
         /\ \A s \in SheetsOf(numbers) : /\ sheets'[s].patta = sheets[s].patta /\ sheets'[s].razmer = sheets[s].razmer
                                         /\ sheets'[s].soni = soni /\ sheets'[s].rows = soni
<1>1. \A s \in Sheet \ SheetsOf(numbers) : sheets'[s] = sheets[s]
  BY DEF Requantified
<1>2. ASSUME NEW s \in SheetsOf(numbers)
      PROVE  /\ s \in Sheet /\ Present(sheets[s]) /\ sheets'[s] \in SheetRecord
             /\ sheets'[s].patta = sheets[s].patta /\ sheets'[s].razmer = sheets[s].razmer
             /\ sheets'[s].soni = soni /\ sheets'[s].rows = soni
  <2>1. s \in Sheet /\ Present(sheets[s])
    BY DEF SheetsOf
  <2>2. sheets[s] \in SheetRecord
    BY <2>1, PresentFacts
  <2>3. sheets'[s] = SheetWithSoni(sheets[s], soni)
    BY <2>1 DEF Requantified
  <2>4. QED
    BY <2>1, <2>2, <2>3, SheetWithSoniFacts
<1>3. \A s \in Sheet : sheets'[s] \in SheetRecord \cup {Absent}
  BY <1>1, <1>2 DEF TablesTyped
<1>4. sheets' = [s \in Sheet |-> sheets'[s]]
  BY DEF Requantified
<1>5. sheets' \in [Sheet -> SheetRecord \cup {Absent}]
  BY <1>3, <1>4
<1>6. \A s \in Sheet : Present(sheets'[s]) <=> Present(sheets[s])
  BY <1>1, <1>2, AbsentFacts DEF Present
<1>7. QED
  BY <1>1, <1>2, <1>5, <1>6

LEMMA LegacyWrites ==
  ASSUME Sound, NEW r \in Request, Committed(r), Standing(r, req[r]), stage[r] = "write", want[r] = <<>>,
         req[r].kind = "legacy"
  PROVE  Effect(r) /\ Named(req[r])
<1> DEFINE a == req[r]
           n == a.patta
           new == PattaWithSoni(pattas[n], a.soni)
<1>1. /\ n \in LegacyNumber /\ n \in Number /\ a.soni \in Soni /\ PattaRow(n) \in held[r]
      /\ \A s \in SheetsOf({n}) : SheetRow(s) \in held[r]
  <2>1. n \in LegacyNumber /\ a.soni \in Soni /\ PattaRow(n) \in held[r]
    BY DEF Standing, AskInv, LockOf, PattaLocks
  <2>2. \A s \in SheetsOf({n}) : SheetRow(s) \in held[r]
    BY DEF Standing, LockOf, Promised
  <2>3. QED
    BY <2>1, <2>2, NumberFacts
<1>2. Present(pattas[n]) /\ pattas[n].batch = "none" /\ pattas[n] \in PattaRecord
  BY <1>1, PresentFacts DEF Sound, ReferenceInv
<1>3. Outcome(a) = After(batches, [pattas EXCEPT ![n] = new], Requantified({n}, a.soni), prints, nextPatta)
  BY DEF Outcome, LegacyCorrected, Corrections
<1>4. /\ UNCHANGED <<batches, prints, nextPatta>>
      /\ pattas' = [pattas EXCEPT ![n] = new] /\ sheets' = Requantified({n}, a.soni)
  BY <1>3, AfterFacts
<1>5. new \in PattaRecord /\ new.batch = "none" /\ new.soni = a.soni /\ new.status = pattas[n].status
      /\ new.razmer = pattas[n].razmer
  <2>1. PICK z \in Razmer : TRUE
    BY DocumentsAssumption
  <2>2. QED
    BY <1>1, <1>2, <2>1, PattaChangeFacts
<1> HIDE DEF new
<1>6. pattas'[n] = new /\ \A m \in Number \ {n} : pattas'[m] = pattas[m]
  BY <1>1, <1>4 DEF Sound, TablesTyped
<1>7. /\ sheets' \in [Sheet -> SheetRecord \cup {Absent}]
      /\ \A s \in Sheet : Present(sheets'[s]) <=> Present(sheets[s])
      /\ \A s \in Sheet \ SheetsOf({n}) : sheets'[s] = sheets[s]
      /\ \A s \in SheetsOf({n}) : /\ sheets'[s].patta = n /\ sheets[s].patta = n /\ sheets'[s].razmer = sheets[s].razmer
                                  /\ sheets'[s].soni = a.soni /\ sheets'[s].rows = a.soni
  <2>1. \A s \in SheetsOf({n}) : sheets[s].patta = n
    BY DEF SheetsOf
  <2>2. TablesTyped
    BY DEF Sound
  <2> DEFINE soni == a.soni
             numbers == {n}
  <2>3. soni \in Soni /\ sheets' = Requantified(numbers, soni)
    BY <1>1, <1>4
  <2> HIDE DEF soni, numbers
  <2>4. /\ sheets' \in [Sheet -> SheetRecord \cup {Absent}]
        /\ \A s \in Sheet : Present(sheets'[s]) <=> Present(sheets[s])
        /\ \A s \in Sheet \ SheetsOf(numbers) : sheets'[s] = sheets[s]
        /\ \A s \in SheetsOf(numbers) : /\ sheets'[s].patta = sheets[s].patta /\ sheets'[s].razmer = sheets[s].razmer
                                        /\ sheets'[s].soni = soni /\ sheets'[s].rows = soni
    BY <2>2, <2>3, RequantifiedFacts
  <2>5. QED
    BY <2>1, <2>4 DEF soni, numbers
<1>8. TablesTyped'
  BY <1>4, <1>5, <1>7 DEF Sound, TablesTyped
<1>9. /\ \A m \in Number : Present(pattas'[m]) <=> Present(pattas[m])
      /\ \A m \in Number : Present(pattas[m]) =>
           /\ pattas'[m].batch = pattas[m].batch /\ pattas'[m].status = pattas[m].status
           /\ pattas'[m].razmer = pattas[m].razmer
           /\ pattas'[m].soni = pattas[m].soni \/ (m = n /\ pattas'[m].soni = a.soni)
  BY <1>2, <1>5, <1>6, AbsentFacts DEF Present
<1>10. ASSUME NEW b PROVE Active(b)' = Active(b) /\ SizesOf(b)' = SizesOf(b)
  <2>1. Active(b)' = Active(b)
    BY <1>9 DEF Active
  <2>2. \A m \in Active(b) : pattas'[m].razmer = pattas[m].razmer
    BY <1>9 DEF Active
  <2>3. QED
    BY <2>1, <2>2 DEF SizesOf
<1>11. \A s \in Sheet : Present(sheets[s]) /\ sheets[s].patta # NoNumber =>
         sheets[s].patta \in Number /\ Present(pattas[sheets[s].patta])
  BY PresentFacts DEF Sound, ReferenceInv, SheetRecord
<1>12. \A s \in Sheet : Present(sheets[s]) => sheets'[s].patta = sheets[s].patta
  BY <1>7
<1>13. ReferenceInv'
  <2>1. \A s \in Sheet : Present(sheets'[s]) /\ sheets'[s].patta # NoNumber => Present(pattas'[sheets'[s].patta])
    BY <1>7, <1>9, <1>11, <1>12
  <2>2. \A p \in PrintEvent : Present(prints'[p]) => Present(batches'[prints'[p].batch])
    BY <1>4 DEF Sound, ReferenceInv
  <2>3. \A m \in LegacyNumber : Present(pattas'[m]) /\ pattas'[m].batch = "none"
    BY <1>9, NumberFacts DEF Sound, ReferenceInv
  <2>4. QED
    BY <2>1, <2>2, <2>3, CommittedIsJudged DEF Judged, ReferenceInv
<1>14. QuantitiesAgree'
  <2> SUFFICES ASSUME NEW s \in Sheet, Present(sheets[s]), sheets'[s].patta # NoNumber
               PROVE  /\ pattas'[sheets'[s].patta].status = "ACTIVE"
                      /\ sheets'[s].soni = pattas'[sheets'[s].patta].soni
                      /\ sheets'[s].rows = pattas'[sheets'[s].patta].soni
                      /\ sheets'[s].razmer = pattas'[sheets'[s].patta].razmer
                      /\ \A t \in Sheet \ {s} : Present(sheets'[t]) => sheets'[t].patta # sheets'[s].patta
    BY <1>7 DEF QuantitiesAgree
  <2>1. sheets'[s].patta = sheets[s].patta
    BY <1>12
  <2> DEFINE m == sheets[s].patta
  <2>2. /\ pattas[m].status = "ACTIVE" /\ sheets[s].soni = pattas[m].soni /\ sheets[s].rows = pattas[m].soni
        /\ sheets[s].razmer = pattas[m].razmer
        /\ \A t \in Sheet \ {s} : Present(sheets[t]) => sheets[t].patta # m
    BY <2>1 DEF Sound, QuantitiesAgree
  <2>3. \A t \in Sheet \ {s} : Present(sheets'[t]) => sheets'[t].patta # m
    BY <1>7, <1>12, <2>2
  <2>4. m \in Number /\ Present(pattas[m])
    BY <1>11, <2>1
  <2>5. CASE m = n
    <3>1. s \in SheetsOf({n})
      BY <2>5 DEF SheetsOf
    <3>2. QED
      BY <1>5, <1>6, <1>7, <2>1, <2>2, <2>3, <2>5, <3>1
  <2>6. CASE m # n
    <3>1. s \notin SheetsOf({n})
      BY <2>6 DEF SheetsOf
    <3>2. sheets'[s] = sheets[s] /\ pattas'[m] = pattas[m]
      BY <1>6, <1>7, <2>4, <2>6, <3>1
    <3>3. QED
      BY <2>1, <2>2, <2>3, <3>2
  <2>7. QED
    BY <2>5, <2>6
<1>15. SequenceIsAhead' /\ PrintedMeansSucceeded'
  <2>1. \A m \in 1 .. MaxNumber : pattas'[m] # Absent => pattas[m] # Absent
    BY <1>9 DEF Present, Number
  <2>2. QED
    BY <1>4, <2>1 DEF Sound, SequenceIsAhead, PrintedMeansSucceeded
<1>16. Named(a)
  BY <1>4 DEF Named, Corrections
<1>17. \A m \in Number : Present(pattas[m]) =>
         Present(pattas'[m]) /\ (pattas[m].soni # Unknown => pattas'[m].soni # Unknown)
  BY <1>1, <1>9, DocumentsAssumption DEF Unknown
<1>18. \A s \in Sheet : Present(sheets[s]) /\ SheetRow(s) \notin held[r] => sheets'[s] = sheets[s]
  BY <1>1, <1>7
<1>19. QED
  BY <1>4, <1>7, <1>8, <1>10, <1>12, <1>13, <1>14, <1>15, <1>16, <1>17, <1>18 DEF Effect

LEMMA SizesOfFacts ==
  ASSUME TablesTyped, NEW b
  PROVE  /\ Active(b) \subseteq Number /\ IsFiniteSet(Active(b)) /\ Active(b) \subseteq Nat
         /\ SizesOf(b) \in [Active(b) -> Razmer]
<1>1. Active(b) \in SUBSET Number
  BY DEF Active
<1>2. IsFiniteSet(Active(b)) /\ Active(b) \subseteq Nat
  BY <1>1, NumberFacts, FS_Subset
<1>3. \A n \in Active(b) : pattas[n].razmer \in Razmer
  BY PresentFacts DEF Active, PattaRecord
<1>4. QED
  BY <1>1, <1>2, <1>3 DEF SizesOf

LEMMA PlanFacts ==
  ASSUME TablesTyped, NEW a, a.target \in Distribution
  PROVE  /\ \A n \in DOMAIN Plan(a).moves : Plan(a).moves[n] \in Razmer
         /\ DOMAIN Plan(a).moves \subseteq Active(a.batch) /\ Plan(a).surplus \subseteq Active(a.batch)
         /\ Plan(a).deficits \in Seq(Razmer) /\ Len(Plan(a).deficits) \in Nat
<1> DEFINE D == Active(a.batch)
           sizes == SizesOf(a.batch)
           target == a.target
           plan == Plan(a)
<1>1. IsFiniteSet(D) /\ D \subseteq Nat /\ sizes \in [D -> Razmer]
  BY SizesOfFacts
<1>2. target \in [Razmer -> Nat]
  BY DocumentsAssumption
<1>3. plan = Assignment(sizes, target)
  BY DEF Plan
<1> HIDE DEF D, sizes, target, plan
<1>4. /\ plan.moves \in [DOMAIN plan.moves -> Razmer]
      /\ DOMAIN plan.moves \subseteq D /\ plan.surplus \subseteq D
      /\ plan.deficits \in Seq(Razmer) /\ Len(plan.deficits) \in Nat
  BY <1>1, <1>2, <1>3, AssignmentFacts
<1>5. \A n \in DOMAIN plan.moves : plan.moves[n] \in Razmer
  BY <1>4
<1>6. QED
  BY <1>4, <1>5 DEF D, plan

\* A correction leaves the Pattas in use as they are, but for their quantity.
LEMMA RecountedFacts ==
  ASSUME TablesTyped, NEW a, a.target \in Distribution, a.soni \in Soni, NEW n \in Active(a.batch)
  PROVE  /\ Recounted(Plan(a), a.soni, n) \in PattaRecord
         /\ Recounted(Plan(a), a.soni, n).batch = pattas[n].batch
         /\ Recounted(Plan(a), a.soni, n).soni \in {a.soni, pattas[n].soni}
         /\ n \notin DOMAIN Plan(a).moves \cup Plan(a).surplus =>
              /\ Recounted(Plan(a), a.soni, n).soni = a.soni
              /\ Recounted(Plan(a), a.soni, n).status = pattas[n].status
              /\ Recounted(Plan(a), a.soni, n).razmer = pattas[n].razmer
<1> DEFINE plan == Plan(a)
           soni == a.soni
           old == pattas[n]
<1>1. old \in PattaRecord /\ soni \in Soni
  BY PresentFacts DEF Active
<1>2. PICK y \in Razmer : TRUE
  BY DocumentsAssumption
<1>3. \A m \in DOMAIN plan.moves : plan.moves[m] \in Razmer
  BY PlanFacts
<1> HIDE DEF plan, soni
<1>4. CASE n \in plan.surplus
  BY <1>1, <1>2, <1>4, PattaChangeFacts DEF Recounted, plan, soni
<1>5. CASE n \notin plan.surplus /\ n \in DOMAIN plan.moves
  <2>1. Recounted(plan, soni, n) = PattaMoved(old, soni, plan.moves[n]) /\ plan.moves[n] \in Razmer
    BY <1>3, <1>5 DEF Recounted
  <2>2. QED
    BY <1>1, <1>5, <2>1, PattaChangeFacts DEF plan, soni
<1>6. CASE n \notin plan.surplus /\ n \notin DOMAIN plan.moves
  <2>1. Recounted(plan, soni, n) = PattaWithSoni(old, soni)
    BY <1>6 DEF Recounted
  <2>2. QED
    BY <1>1, <1>2, <2>1, PattaChangeFacts DEF plan, soni
<1>7. QED
  BY <1>4, <1>5, <1>6

LEMMA CorrectionWrites ==
  ASSUME Sound, NEW r \in Request, Committed(r), Standing(r, req[r]), stage[r] = "write",
         req[r].kind \in Corrections
  PROVE  Effect(r) /\ Named(req[r])
<1> DEFINE a == req[r]
           b == a.batch
           plan == Plan(a)
           moved == DOMAIN plan.moves \cup plan.surplus
           old == batches[b]
           new == BatchCorrected(old, a)
           added == IF a.kind = "correct" THEN NextNumbers(a.first, plan.deficits) ELSE a.sizes
           written == [n \in Number |-> IF n \in Active(b) THEN Recounted(plan, a.soni, n) ELSE pattas[n]]
<1>1. /\ b \in Batch /\ a.soni \in Soni /\ a.target \in Distribution /\ Present(batches[b])
      /\ a.expected \in 1 .. MaxVersion - 1
  BY DEF Standing, AskInv
<1>2. old \in BatchRecord /\ old.version = a.expected
  <2>1. old.version = a.expected
    BY DEF Standing, FoundOf
  <2>2. QED
    BY <1>1, <2>1, PresentFacts DEF Sound
<1>3. /\ BatchRow(b) \in held[r]
      /\ \A n \in Active(b) : PattaRow(n) \in held[r]
      /\ \A s \in SheetsOf(Active(b)) : SheetRow(s) \in held[r]
  BY DEF Standing, LockOf, CorrectionLocks
<1>4. SheetsOf(moved) = {}
  BY DEF Standing, FoundOf, InUse
<1>5. Outcome(a) = Corrected(a)
  BY DEF Outcome, Corrections
<1>6. /\ batches' = [batches EXCEPT ![b] = new] /\ pattas' = Inserted(written, b, a.soni, added)
      /\ sheets' = IF batches[b].soni = a.soni THEN sheets ELSE Requantified(Active(b), a.soni)
      /\ prints' = prints
      /\ nextPatta' = IF a.kind = "correct" THEN SequenceAfter(a.first, plan.deficits) ELSE nextPatta
  BY <1>5, AfterFacts DEF Corrected
<1>7. new \in BatchRecord /\ new.printed = old.printed
  <2>1. old.version < MaxVersion
    BY <1>1, <1>2, DocumentsAssumption
  <2>2. QED
    BY <1>1, <1>2, <2>1, BatchCorrectedFacts
<1> HIDE DEF new
<1>8. /\ batches'[b] = new /\ \A c \in Batch \ {b} : batches'[c] = batches[c]
      /\ batches' \in [Batch -> BatchRecord \cup {Absent}]
  BY <1>1, <1>6, <1>7 DEF Sound, TablesTyped
<1>9. TablesTyped /\ Judged
  BY CommittedIsJudged DEF Sound
<1>10. \A n \in Active(b) :
         /\ written[n] \in PattaRecord /\ written[n].batch = b
         /\ written[n].soni \in {a.soni, pattas[n].soni}
         /\ n \notin moved => /\ written[n].soni = a.soni /\ written[n].status = "ACTIVE"
                              /\ written[n].razmer = pattas[n].razmer
  <2> SUFFICES ASSUME NEW n \in Active(b)
               PROVE  /\ written[n] \in PattaRecord /\ written[n].batch = b
                      /\ written[n].soni \in {a.soni, pattas[n].soni}
                      /\ n \notin moved => /\ written[n].soni = a.soni /\ written[n].status = "ACTIVE"
                                           /\ written[n].razmer = pattas[n].razmer
    OBVIOUS
  <2>1. written[n] = Recounted(plan, a.soni, n) /\ pattas[n].batch = b /\ pattas[n].status = "ACTIVE"
    BY DEF Active
  <2>2. QED
    BY <1>1, <1>9, <2>1, RecountedFacts
<1>11. \A n \in Number \ Active(b) : written[n] = pattas[n]
  OBVIOUS
<1>12. written \in [Number -> PattaRecord \cup {Absent}]
  BY <1>10, <1>11, <1>9 DEF TablesTyped
<1>13. /\ plan.deficits \in Seq(Razmer) /\ Len(plan.deficits) \in Nat
       /\ DOMAIN plan.moves \subseteq Active(b) /\ plan.surplus \subseteq Active(b)
  BY <1>1, <1>9, PlanFacts
<1>14. nextPatta \in Nat /\ nextPatta \in 1 .. MaxNumber /\ nextPatta <= MaxNumber
  BY <1>9, NumberFacts DEF TablesTyped
<1> HIDE DEF written
<1>15. /\ \A n \in Number \cap DOMAIN added : added[n] \in Razmer /\ (n <= MaxNumber => n < nextPatta')
       /\ nextPatta' \in 1 .. MaxNumber /\ nextPatta <= nextPatta'
       /\ PattaSequence \notin held[r] => nextPatta' = nextPatta
  <2>1. CASE a.kind = "correct"
    <3>1. /\ \/ plan.deficits = <<>>
             \/ PattaSequence \in held[r] /\ a.first = nextPatta /\ a.first + Len(plan.deficits) <= MaxNumber
          /\ a.first \in Nat
      BY <2>1, NumberFacts DEF Standing, FoundOf, AskInv, Corrections
    <3>2. /\ \A n \in DOMAIN added : added[n] \in Razmer /\ n < nextPatta'
          /\ nextPatta' \in Nat /\ nextPatta <= nextPatta' /\ nextPatta' = nextPatta + Len(plan.deficits)
      BY <1>6, <1>13, <1>14, <2>1, <3>1, NextNumbersFacts
    <3> HIDE DEF plan, added
    <3>3. nextPatta' <= MaxNumber /\ (PattaSequence \notin held[r] => nextPatta' = nextPatta)
      BY <1>14, <3>1, <3>2
    <3>4. QED
      BY <1>14, <3>2, <3>3, NumberFacts
  <2>2. CASE a.kind = "correct_offline"
    <3>1. added = a.sizes /\ nextPatta' = nextPatta
      BY <1>6, <2>2
    <3>2. a.sizes \in [DOMAIN a.sizes -> Razmer] /\ DOMAIN a.sizes \subseteq BlockNumber
      BY <2>2 DEF Standing, AskInv, Claiming
    <3> HIDE DEF added
    <3>3. ASSUME NEW n \in Number \cap DOMAIN added
          PROVE  added[n] \in Razmer /\ (n <= MaxNumber => n < nextPatta')
      <4>1. n \in BlockNumber /\ n \in Nat /\ n > MaxNumber
        BY <3>1, <3>2, NumberFacts
      <4>2. QED
        BY <3>1, <3>2, <4>1, NumberFacts
    <3>4. QED
      BY <1>14, <3>1, <3>3
  <2>3. QED
    BY <2>1, <2>2 DEF Corrections
<1> HIDE DEF plan, added, moved
<1>16. /\ pattas' \in [Number -> PattaRecord \cup {Absent}]
       /\ \A n \in Number \ DOMAIN added : pattas'[n] = written[n]
       /\ \A n \in Number \cap DOMAIN added :
            /\ pattas'[n] = NewPatta(b, added[n], a.soni)
            /\ Present(pattas'[n]) /\ pattas'[n].batch = b
            /\ Present(pattas[n]) => pattas'[n] = pattas[n]
  <2>1. \A n \in Number \cap DOMAIN added : added[n] \in Razmer
    BY <1>15
  <2>2. b \in Batch \cup {"none"}
    BY <1>1
  <2>3. QED
    BY <1>1, <1>6, <1>9, <1>12, <2>1, <2>2, InsertedFacts
<1>17. \A n \in Number : Present(pattas[n]) /\ n \notin Active(b) => pattas'[n] = pattas[n]
  BY <1>11, <1>16
<1>18. \A n \in Active(b) :
         /\ Present(pattas'[n]) /\ pattas'[n].batch = b
         /\ pattas'[n].soni \in {a.soni, pattas[n].soni}
         /\ n \notin moved => /\ pattas'[n].soni = a.soni /\ pattas'[n].status = "ACTIVE"
                              /\ pattas'[n].razmer = pattas[n].razmer
  <2> SUFFICES ASSUME NEW n \in Active(b)
               PROVE  /\ Present(pattas'[n]) /\ pattas'[n].batch = b
                      /\ pattas'[n].soni \in {a.soni, pattas[n].soni}
                      /\ n \notin moved => /\ pattas'[n].soni = a.soni /\ pattas'[n].status = "ACTIVE"
                                           /\ pattas'[n].razmer = pattas[n].razmer
    OBVIOUS
  <2>1. n \in Number /\ Present(pattas[n]) /\ pattas[n].batch = b /\ pattas[n].status = "ACTIVE"
    BY DEF Active
  <2>2. CASE n \in DOMAIN added
    <3>1. pattas'[n] = NewPatta(b, added[n], a.soni) /\ pattas'[n] = pattas[n]
      BY <1>16, <2>1, <2>2
    <3>2. NewPatta(b, added[n], a.soni).soni = a.soni
      BY <1>1, <1>15, <2>1, <2>2, NewPattaFacts
    <3>3. QED
      BY <2>1, <3>1, <3>2
  <2>3. CASE n \notin DOMAIN added
    <3>1. pattas'[n] = written[n]
      BY <1>16, <2>1, <2>3
    <3>2. QED
      BY <1>10, <3>1, AbsentFacts DEF Present
  <2>4. QED
    BY <2>2, <2>3
<1>19. /\ \A n \in Number : Present(pattas[n]) => Present(pattas'[n])
       /\ \A n \in Number : Present(pattas'[n]) /\ pattas'[n].batch # b => pattas'[n] = pattas[n]
       /\ \A n \in Number : Present(pattas[n]) /\ pattas[n].batch # b => pattas'[n] = pattas[n]
  <2>1. ASSUME NEW n \in Number, Present(pattas[n]) PROVE Present(pattas'[n])
    BY <1>17, <1>18, <2>1
  <2>2. ASSUME NEW n \in Number, Present(pattas[n]), pattas[n].batch # b PROVE pattas'[n] = pattas[n]
    BY <1>17, <2>2 DEF Active
  <2>3. ASSUME NEW n \in Number, Present(pattas'[n]), pattas'[n].batch # b PROVE pattas'[n] = pattas[n]
    <3>1. n \notin DOMAIN added /\ n \notin Active(b)
      BY <1>16, <1>18, <2>3
    <3>2. QED
      BY <1>11, <1>16, <3>1
  <2>4. QED
    BY <2>1, <2>2, <2>3
<1>20. ASSUME NEW c \in Batch \ {b} PROVE SizesOf(c)' = SizesOf(c)
  <2>1. Active(c)' = Active(c)
    BY <1>19 DEF Active
  <2>2. \A n \in Active(c) : pattas'[n] = pattas[n]
    BY <1>19 DEF Active
  <2>3. QED
    BY <2>1, <2>2 DEF SizesOf
<1>21. /\ sheets' \in [Sheet -> SheetRecord \cup {Absent}]
       /\ \A s \in Sheet : Present(sheets'[s]) <=> Present(sheets[s])
       /\ \A s \in Sheet : Present(sheets[s]) => sheets'[s].patta = sheets[s].patta
                                              /\ sheets'[s].razmer = sheets[s].razmer
       /\ \A s \in Sheet \ SheetsOf(Active(b)) : sheets'[s] = sheets[s]
       /\ \A s \in SheetsOf(Active(b)) : batches[b].soni # a.soni => sheets'[s].soni = a.soni /\ sheets'[s].rows = a.soni
       /\ batches[b].soni = a.soni => sheets' = sheets
  <2>1. CASE batches[b].soni = a.soni
    BY <1>6, <1>9, <2>1 DEF TablesTyped
  <2>2. CASE batches[b].soni # a.soni
    <3> DEFINE soni == a.soni
               numbers == Active(b)
    <3>1. soni \in Soni /\ sheets' = Requantified(numbers, soni)
      BY <1>1, <1>6, <2>2
    <3> HIDE DEF soni, numbers
    <3>2. /\ sheets' \in [Sheet -> SheetRecord \cup {Absent}]
          /\ \A s \in Sheet : Present(sheets'[s]) <=> Present(sheets[s])
          /\ \A s \in Sheet \ SheetsOf(numbers) : sheets'[s] = sheets[s]
          /\ \A s \in SheetsOf(numbers) : /\ sheets'[s].patta = sheets[s].patta /\ sheets'[s].razmer = sheets[s].razmer
                                          /\ sheets'[s].soni = soni /\ sheets'[s].rows = soni
      BY <1>9, <3>1, RequantifiedFacts
    <3>3. \A s \in Sheet : Present(sheets[s]) => sheets'[s].patta = sheets[s].patta /\ sheets'[s].razmer = sheets[s].razmer
      BY <3>2
    <3>4. QED
      BY <2>2, <3>2, <3>3 DEF soni, numbers
  <2>3. QED
    BY <2>1, <2>2
<1>22. TablesTyped'
  BY <1>6, <1>8, <1>9, <1>15, <1>16, <1>21 DEF TablesTyped
<1>23. \A s \in Sheet : Present(sheets[s]) /\ sheets[s].patta # NoNumber =>
         sheets[s].patta \in Number /\ Present(pattas[sheets[s].patta])
  BY <1>9, PresentFacts DEF Sound, ReferenceInv, SheetRecord
<1>24. \A c \in Batch : Present(batches[c]) => Present(batches'[c])
  BY <1>7, <1>8, AbsentFacts DEF Present
<1>25. ReferenceInv'
  <2>1. \A s \in Sheet : Present(sheets'[s]) /\ sheets'[s].patta # NoNumber => Present(pattas'[sheets'[s].patta])
    BY <1>19, <1>21, <1>23
  <2>2. \A p \in PrintEvent : Present(prints'[p]) => Present(batches'[prints'[p].batch])
    BY <1>6, <1>9, <1>24, PresentFacts DEF Sound, ReferenceInv, PrintRecord
  <2>3. \A n \in LegacyNumber : Present(pattas'[n]) /\ pattas'[n].batch = "none"
    <3>1. b # "none"
      BY <1>1, DocumentsAssumption
    <3>2. QED
      BY <1>19, <3>1, NumberFacts DEF Sound, ReferenceInv
  <2>4. QED
    BY <1>9, <2>1, <2>2, <2>3 DEF Judged, ReferenceInv
<1>26. QuantitiesAgree'
  <2> SUFFICES ASSUME NEW s \in Sheet, Present(sheets[s]), sheets'[s].patta # NoNumber
               PROVE  /\ pattas'[sheets'[s].patta].status = "ACTIVE"
                      /\ sheets'[s].soni = pattas'[sheets'[s].patta].soni
                      /\ sheets'[s].rows = pattas'[sheets'[s].patta].soni
                      /\ sheets'[s].razmer = pattas'[sheets'[s].patta].razmer
                      /\ \A t \in Sheet \ {s} : Present(sheets'[t]) => sheets'[t].patta # sheets'[s].patta
    BY <1>21 DEF QuantitiesAgree
  <2> DEFINE m == sheets[s].patta
  <2>1. sheets'[s].patta = m /\ sheets'[s].razmer = sheets[s].razmer
    BY <1>21
  <2>2. /\ pattas[m].status = "ACTIVE" /\ sheets[s].soni = pattas[m].soni /\ sheets[s].rows = pattas[m].soni
        /\ sheets[s].razmer = pattas[m].razmer
        /\ \A t \in Sheet \ {s} : Present(sheets[t]) => sheets[t].patta # m
    BY <2>1 DEF Sound, QuantitiesAgree
  <2>3. \A t \in Sheet \ {s} : Present(sheets'[t]) => sheets'[t].patta # m
    BY <1>21, <2>2
  <2>4. m \in Number /\ Present(pattas[m])
    BY <1>23, <2>1
  <2> HIDE DEF m
  <2>5. CASE m \in Active(b)
    <3>1. s \in SheetsOf(Active(b)) /\ m \notin moved
      BY <1>4, <2>5 DEF SheetsOf, m
    <3>2. pattas'[m].soni = a.soni /\ pattas'[m].status = "ACTIVE" /\ pattas'[m].razmer = pattas[m].razmer
      BY <1>18, <2>5, <3>1
    <3>3. sheets'[s].soni = a.soni /\ sheets'[s].rows = a.soni
      <4>1. CASE batches[b].soni = a.soni
        <5>1. pattas[m].soni = a.soni
          BY <1>1, <2>5, <4>1 DEF Sound, ReferenceInv
        <5>2. QED
          BY <1>21, <2>2, <4>1, <5>1
      <4>2. CASE batches[b].soni # a.soni
        BY <1>21, <3>1, <4>2
      <4>3. QED
        BY <4>1, <4>2
    <3>4. QED
      BY <2>1, <2>2, <2>3, <3>2, <3>3
  <2>6. CASE m \notin Active(b)
    <3>1. s \notin SheetsOf(Active(b))
      BY <2>6 DEF SheetsOf, m
    <3>2. sheets'[s] = sheets[s] /\ pattas'[m] = pattas[m]
      BY <1>17, <1>21, <2>4, <2>6, <3>1
    <3>3. QED
      BY <2>1, <2>2, <2>3, <3>2
  <2>7. QED
    BY <2>5, <2>6
<1>27. SequenceIsAhead'
  <2> SUFFICES ASSUME NEW n \in 1 .. MaxNumber, pattas'[n] # Absent PROVE n < nextPatta'
    BY DEF SequenceIsAhead
  <2>1. n \in Number /\ n \in Nat /\ n <= MaxNumber
    BY NumberFacts DEF Number
  <2>2. CASE Present(pattas[n])
    <3>1. n < nextPatta /\ nextPatta' \in Nat
      BY <1>15, <2>2, NumberFacts DEF Sound, SequenceIsAhead, Present
    <3>2. QED
      BY <1>14, <1>15, <2>1, <3>1
  <2>3. CASE ~Present(pattas[n])
    <3>1. n \in DOMAIN added
      BY <1>11, <1>16, <2>1, <2>3 DEF Active, Present
    <3>2. QED
      BY <1>15, <2>1, <3>1
  <2>4. QED
    BY <2>2, <2>3
<1>28. PrintedMeansSucceeded'
  <2>1. \A c \in Batch : Present(batches'[c]) => Present(batches[c]) /\ batches'[c].printed = batches[c].printed
    BY <1>1, <1>7, <1>8
  <2>2. QED
    BY <1>6, <2>1 DEF Sound, PrintedMeansSucceeded, Present
<1>29. Named(a)
  BY <1>2, <1>8 DEF Named
<1>30. \A n \in Number : Present(pattas[n]) =>
         Present(pattas'[n]) /\ (pattas[n].soni # Unknown => pattas'[n].soni # Unknown)
  <2>1. a.soni # Unknown
    BY <1>1, DocumentsAssumption DEF Unknown
  <2>2. QED
    BY <1>17, <1>18, <2>1
<1>31. /\ \A s \in Sheet : Present(sheets[s]) /\ SheetRow(s) \notin held[r] => sheets'[s] = sheets[s]
       /\ \A s \in Sheet : Present(sheets[s]) => sheets'[s].patta = sheets[s].patta
       /\ \A s \in Sheet : Present(sheets'[s]) => Present(sheets[s])
  BY <1>3, <1>21
<1>32. \A c \in Batch : /\ Present(batches[c]) /\ BatchRow(c) \notin held[r] => c # b
                        /\ ~Present(batches[c]) /\ Present(batches'[c]) => FALSE
  BY <1>1, <1>3, <1>8
<1>33. \A c \in Batch : Present(batches[c]) =>
         /\ Present(batches'[c])
         /\ BatchRow(c) \notin held[r] => batches'[c].version = batches[c].version /\ SizesOf(c)' = SizesOf(c)
  BY <1>8, <1>20, <1>24, <1>32
<1>34. QED
  BY <1>15, <1>22, <1>25, <1>26, <1>27, <1>28, <1>29, <1>30, <1>31, <1>32, <1>33 DEF Effect

LEMMA WriteEffect ==
  ASSUME Sound, NEW r \in Request, Committed(r), Standing(r, req[r]), Writing(r), req[r].kind # "none"
  PROVE  Effect(r) /\ Named(req[r])
<1>1. stage[r] = "write" /\ want[r] = <<>>
  BY DEF Writing
<1>2. \/ req[r].kind \in {"create", "register", "register_one", "legacy", "print", "create_linked", "create_standalone"}
      \/ req[r].kind \in Corrections
      \/ req[r].kind \in {"edit_linked", "edit_standalone", "trash", "restore", "purge"}
  BY <1>1 DEF Standing, AskInv, FoundOf, Operations, Founding, Entering
<1>3. QED
  BY <1>1, <1>2, CreateWrites, RegisterWrites, RegisterOneWrites, LegacyWrites, PrintWrites, CreateLinkedWrites,
     CreateStandaloneWrites, CorrectionWrites, EditLinkedWrites, EditStandaloneWrites, LifecycleWrites, PurgeWrites

-----------------------------------------------------------------------------
(* What stands for a request while others, or itself, take a step.         *)

\* A step that leaves the tables alone and the locks in place.
LEMMA Unmoved ==
  ASSUME NEW q, NEW a, Standing(q, a), UNCHANGED data, stage'[q] = stage[q],
         held[q] \subseteq held'[q], Promised(q) \subseteq Promised(q)'
  PROVE  Standing(q, a)'
<1>1. \A b : Active(b)' = Active(b) /\ SizesOf(b)' = SizesOf(b)
  BY SizesKept DEF data
<1>2. \A numbers : SheetsOf(numbers)' = SheetsOf(numbers)
  BY DEF SheetsOf, data
<1>3. AskInv(a)'
  BY DEF Standing, AskInv, data
<1>4. LockOf(q, a)'
  BY <1>1, <1>2 DEF Standing, LockOf, CorrectionLocks, PattaLocks, data
<1>5. Plan(a)' = Plan(a) /\ (InUse(Plan(a))' <=> InUse(Plan(a)))
  BY <1>1, <1>2 DEF Plan, InUse
<1>6. FoundOf(q, a)'
  BY <1>5 DEF Standing, FoundOf, Live, data
<1>7. QED
  BY <1>3, <1>4, <1>6 DEF Standing

\* Sheets of locked Pattas are created only by the holder of the lock.
LEMMA SheetsLocked ==
  ASSUME TablesTyped, NEW r, Effect(r), NEW numbers, NoNumber \notin numbers,
         \A n \in numbers : PattaRow(n) \notin held[r]
  PROVE  SheetsOf(numbers)' \subseteq SheetsOf(numbers)
<1> SUFFICES ASSUME NEW s \in Sheet, Present(sheets'[s]), sheets'[s].patta \in numbers
             PROVE  s \in SheetsOf(numbers)
  BY DEF SheetsOf
<1>1. Present(sheets[s]) /\ sheets'[s].patta = sheets[s].patta
  BY PresentFacts DEF Effect
<1>2. QED
  BY <1>1 DEF SheetsOf

\* What stands for a request survives the write of another.
LEMMA Survives ==
  ASSUME Sound, NEW r, NEW q, NEW a, Effect(r), Standing(q, a), held[r] \cap held[q] = {},
         stage'[q] = stage[q], held'[q] = held[q], Promised(q)' = Promised(q),
         a.kind \in Founding => ~(req[r].kind \in Founding /\ req[r].batch = a.batch),
         a.kind \in Entering => ~(req[r].kind \in Creating /\ req[r].sheet = a.sheet)
  PROVE  Standing(q, a)'
<1>1. \A row \in held[q] : row \notin held[r]
  OBVIOUS
<1>2. TablesTyped
  BY DEF Sound
<1>3. AskInv(a)'
  <2>1. a.kind \in Corrections \cup {"print"} => a.batch \in Batch /\ Present(batches[a.batch]) /\ Present(batches'[a.batch])
    BY DEF Standing, AskInv, Effect
  <2>2. a.kind \in Founding => a.batch \in Batch /\ ~Present(batches'[a.batch])
    BY DEF Standing, AskInv, Effect
  <2>3. a.kind = "create_linked" => Present(pattas'[a.patta])
    BY DEF Standing, AskInv, Effect
  <2>4. a.kind = "edit_linked" /\ Present(sheets'[a.sheet]) => sheets'[a.sheet].patta # NoNumber
    BY DEF Standing, AskInv, Effect, Entering
  <2>5. a.kind \in Creating => ~Present(sheets'[a.sheet])
    BY DEF Standing, AskInv, Effect, Entering, Creating
  <2>6. QED
    BY <2>1, <2>2, <2>3, <2>4, <2>5 DEF Standing, AskInv
<1>4. ASSUME a.kind \in Corrections, stage[q] # "batch"
      PROVE  /\ batches'[a.batch].version = batches[a.batch].version
             /\ SizesOf(a.batch)' = SizesOf(a.batch) /\ Active(a.batch)' = Active(a.batch)
             /\ Plan(a)' = Plan(a)
  <2>1. a.batch \in Batch /\ Present(batches[a.batch]) /\ BatchRow(a.batch) \in held[q]
    BY <1>4 DEF Standing, AskInv, LockOf, CorrectionLocks
  <2>2. batches'[a.batch].version = batches[a.batch].version /\ SizesOf(a.batch)' = SizesOf(a.batch)
    BY <1>1, <2>1 DEF Effect
  <2>3. Active(a.batch) = DOMAIN SizesOf(a.batch) /\ Active(a.batch)' = (DOMAIN SizesOf(a.batch))'
    BY DEF SizesOf
  <2>4. QED
    BY <2>2, <2>3 DEF Plan
<1>5. ASSUME a.kind \in Corrections, stage[q] \notin {"batch", "pattas"}
      PROVE  \A numbers \in SUBSET Active(a.batch) : SheetsOf(numbers)' \subseteq SheetsOf(numbers)
  <2>1. \A n \in Active(a.batch) : PattaRow(n) \notin held[r] /\ n # NoNumber
    BY <1>1, <1>5, NumberFacts DEF Standing, LockOf, CorrectionLocks, Active
  <2>2. QED
    BY <1>2, <2>1, SheetsLocked
<1>6. a.kind \in Corrections => CorrectionLocks(q, a.batch)'
  <2> SUFFICES ASSUME a.kind \in Corrections PROVE CorrectionLocks(q, a.batch)'
    OBVIOUS
  <2>1. CorrectionLocks(q, a.batch)
    BY DEF Standing, LockOf
  <2>2. CASE stage[q] = "batch"
    BY <2>1, <2>2 DEF CorrectionLocks
  <2>3. CASE stage[q] = "pattas"
    BY <1>4, <2>1, <2>3 DEF CorrectionLocks
  <2>4. CASE stage[q] \notin {"batch", "pattas"}
    <3>1. Active(a.batch)' = Active(a.batch) /\ SheetsOf(Active(a.batch))' \subseteq SheetsOf(Active(a.batch))
      <4>1. Active(a.batch)' = Active(a.batch)
        BY <1>4, <2>4
      <4> DEFINE numbers == Active(a.batch)
      <4>2. \A old : old = numbers => SheetsOf(old)' \subseteq SheetsOf(old)
        BY <1>5, <2>4
      <4>3. QED
        BY <4>1, <4>2 DEF SheetsOf
    <3>2. QED
      BY <2>1, <2>4, <3>1 DEF CorrectionLocks
  <2>5. QED
    BY <2>2, <2>3, <2>4
<1>7. a.kind = "legacy" /\ stage[q] = "write" => SheetsOf({a.patta})' \subseteq SheetsOf({a.patta})
  <2> SUFFICES ASSUME a.kind = "legacy", stage[q] = "write"
               PROVE  SheetsOf({a.patta})' \subseteq SheetsOf({a.patta})
    OBVIOUS
  <2>1. a.patta \in LegacyNumber /\ PattaRow(a.patta) \in held[q]
    BY DEF Standing, AskInv, LockOf, PattaLocks
  <2>2. NoNumber \notin {a.patta} /\ \A n \in {a.patta} : PattaRow(n) \notin held[r]
    BY <1>1, <2>1, NumberFacts
  <2> DEFINE numbers == {a.patta}
  <2> HIDE DEF numbers
  <2>3. SheetsOf(numbers)' \subseteq SheetsOf(numbers)
    BY <1>2, <2>2, SheetsLocked DEF numbers
  <2>4. QED
    BY <2>3 DEF numbers
<1>8. LockOf(q, a)'
  BY <1>6, <1>7 DEF Standing, LockOf, PattaLocks
<1>9. a.kind \in Corrections /\ stage[q] \in {"numbers", "write"} => ~InUse(Plan(a))'
  <2> SUFFICES ASSUME a.kind \in Corrections, stage[q] \in {"numbers", "write"} PROVE ~InUse(Plan(a))'
    OBVIOUS
  <2> DEFINE plan == Plan(a)
             numbers == DOMAIN plan.moves \cup plan.surplus
  <2>1. numbers \subseteq Active(a.batch)
    BY <1>2, PlanFacts DEF Standing, AskInv
  <2>2. SheetsOf(numbers) = {}
    BY DEF Standing, FoundOf, InUse
  <2>3. \A old : old = numbers => SheetsOf(old)' \subseteq SheetsOf(old)
    BY <1>5, <2>1
  <2>4. \A s \in Sheet : ~(Present(sheets'[s]) /\ sheets'[s].patta \in numbers)
    <3>1. \A old : old = numbers => SheetsOf(old)' = {}
      BY <2>2, <2>3
    <3>2. QED
      BY <3>1 DEF SheetsOf
  <2>5. Plan(a)' = plan
    BY <1>4
  <2>6. InUse(Plan(a))' <=> \E s \in Sheet : /\ Present(sheets'[s])
                                           /\ sheets'[s].patta \in DOMAIN Plan(a)'.moves \cup Plan(a)'.surplus
    BY DEF InUse, SheetsOf
  <2>7. QED
    BY <2>4, <2>5, <2>6
<1>10. PattaSequence \in held[q] => nextPatta' = nextPatta
  BY <1>1 DEF Effect
<1>11. a.kind \in Changing /\ stage[q] # "sheet" => sheets'[a.sheet] = sheets[a.sheet]
  BY <1>1 DEF Standing, AskInv, LockOf, FoundOf, Live, Effect, Entering, Changing
<1>12. a.kind = "create_linked" /\ stage[q] # "patta" => pattas'[a.patta].soni # Unknown
  BY DEF Standing, AskInv, FoundOf, Effect
<1>13. FoundOf(q, a)'
  <2>1. a.kind \in Corrections /\ stage[q] # "batch" => batches'[a.batch].version = a.expected
    BY <1>4 DEF Standing, FoundOf
  <2>2. a.kind = "correct" /\ stage[q] = "write" =>
          \/ Plan(a)'.deficits = <<>>
          \/ /\ PattaSequence \in held'[q] /\ a.first = nextPatta'
             /\ a.first + Len(Plan(a)'.deficits) <= MaxNumber
    <3> SUFFICES ASSUME a.kind = "correct", stage[q] = "write"
                 PROVE  \/ Plan(a)'.deficits = <<>>
                        \/ /\ PattaSequence \in held'[q] /\ a.first = nextPatta'
                           /\ a.first + Len(Plan(a)'.deficits) <= MaxNumber
      OBVIOUS
    <3>1. Plan(a)' = Plan(a)
      BY <1>4 DEF Corrections
    <3>2. QED
      BY <1>10, <3>1 DEF Standing, FoundOf
  <2>3. a.kind = "create" /\ stage[q] = "write" =>
          PattaSequence \in held'[q] /\ a.first = nextPatta' /\ a.first + Len(Slots(a.target)) <= MaxNumber
    BY <1>10 DEF Standing, FoundOf
  <2>4. a.kind \in Changing /\ stage[q] # "sheet" => Live(a.sheet, a.expected)'
    BY <1>11 DEF Standing, FoundOf, Live
  <2>5. a.kind = "print" /\ stage[q] # "batch" => batches'[a.batch].version = a.revision
    BY <1>1 DEF Standing, AskInv, LockOf, FoundOf, Effect
  <2>6. a.kind = "reuse" => stage[q] = "sheet"
    BY DEF Standing, FoundOf
  <2>7. QED
    BY <1>9, <1>12, <2>1, <2>2, <2>3, <2>4, <2>5, <2>6 DEF FoundOf
<1>14. QED
  BY <1>3, <1>8, <1>13 DEF Standing

-----------------------------------------------------------------------------
(* The rows that a statement locks.                                        *)

LEMMA PattaRowsFacts ==
  ASSUME NEW numbers \in SUBSET Number
  PROVE  /\ PattaRows(numbers) \in Seq(Rows)
         /\ \A n \in numbers : \E i \in 1 .. Len(PattaRows(numbers)) : PattaRows(numbers)[i] = PattaRow(n)
<1> DEFINE order == InNumberOrder(numbers)
           k == Cardinality(numbers)
<1>1. IsFiniteSet(numbers) /\ numbers \subseteq Nat
  BY NumberFacts, FS_Subset
<1>2. /\ k \in Nat /\ order \in [1 .. k -> numbers]
      /\ \A n \in numbers : \E i \in 1 .. k : order[i] = n
  BY <1>1, NumberOrderFacts
<1>3. PattaRows(numbers) = [i \in 1 .. k |-> PattaRow(order[i])]
  BY DEF PattaRows
<1> HIDE DEF order, k
<1>4. \A i \in 1 .. k : PattaRow(order[i]) \in Rows
  BY <1>2, RowTypes
<1>5. PattaRows(numbers) \in [1 .. k -> Rows]
  BY <1>3, <1>4
<1>6. PattaRows(numbers) \in Seq(Rows) /\ Len(PattaRows(numbers)) = k
  BY <1>2, <1>5
<1>7. QED
  BY <1>2, <1>3, <1>6

\* Every sheet of the Pattas is there, for a Patta has one.
LEMMA SheetRowsFacts ==
  ASSUME TablesTyped, QuantitiesAgree, NEW numbers \in SUBSET Number
  PROVE  /\ SheetRowsOf(numbers) \in Seq(Rows)
         /\ \A s \in SheetsOf(numbers) : \E i \in 1 .. Len(SheetRowsOf(numbers)) : SheetRowsOf(numbers)[i] = SheetRow(s)
<1> DEFINE entered == {sheets[s].patta : s \in SheetsOf(numbers)}
           sheetOf(n) == CHOOSE s \in SheetsOf(numbers) : sheets[s].patta = n
           order == InNumberOrder(entered)
           k == Cardinality(entered)
<1>1. entered \subseteq numbers
  BY DEF SheetsOf
<1>2. IsFiniteSet(entered) /\ entered \subseteq Nat
  BY <1>1, NumberFacts, FS_Subset
<1>3. /\ k \in Nat /\ order \in [1 .. k -> entered]
      /\ \A n \in entered : \E i \in 1 .. k : order[i] = n
  BY <1>2, NumberOrderFacts
<1>4. SheetRowsOf(numbers) = [i \in 1 .. k |-> SheetRow(sheetOf(order[i]))]
  BY DEF SheetRowsOf
<1>5. \A n \in entered : sheetOf(n) \in SheetsOf(numbers) /\ sheets[sheetOf(n)].patta = n
  OBVIOUS
<1>6. \A s \in SheetsOf(numbers) : sheetOf(sheets[s].patta) = s
  <2> SUFFICES ASSUME NEW s \in SheetsOf(numbers) PROVE sheetOf(sheets[s].patta) = s
    OBVIOUS
  <2> DEFINE t == sheetOf(sheets[s].patta)
  <2>1. t \in SheetsOf(numbers) /\ sheets[t].patta = sheets[s].patta
    BY <1>5
  <2> HIDE DEF t
  <2>2. /\ s \in Sheet /\ t \in Sheet /\ Present(sheets[s]) /\ Present(sheets[t])
        /\ sheets[s].patta # NoNumber
    BY <2>1, NumberFacts DEF SheetsOf
  <2>3. t = s
    BY <2>1, <2>2 DEF QuantitiesAgree
  <2>4. QED
    BY <2>3 DEF t
<1>7. \A s \in SheetsOf(numbers) : sheets[s].patta \in entered
  OBVIOUS
<1> HIDE DEF order, k, entered, sheetOf
<1>8. \A i \in 1 .. k : SheetRow(sheetOf(order[i])) \in Rows
  <2>1. \A s \in SheetsOf(numbers) : SheetRow(s) \in Rows
    BY RowTypes DEF SheetsOf
  <2>2. QED
    BY <1>3, <1>5, <2>1
<1>9. SheetRowsOf(numbers) \in [1 .. k -> Rows]
  BY <1>4, <1>8
<1>10. SheetRowsOf(numbers) \in Seq(Rows) /\ Len(SheetRowsOf(numbers)) = k
  BY <1>3, <1>9
<1>11. ASSUME NEW s \in SheetsOf(numbers)
       PROVE  \E i \in 1 .. k : SheetRowsOf(numbers)[i] = SheetRow(s)
  <2>1. PICK i \in 1 .. k : order[i] = sheets[s].patta
    BY <1>3, <1>7
  <2>2. SheetRowsOf(numbers)[i] = SheetRow(s)
    BY <1>4, <1>6, <2>1
  <2>3. QED
    BY <2>2
<1>12. QED
  BY <1>10, <1>11

-----------------------------------------------------------------------------
(* The forms that steps take.                                              *)

LocksTyped ==
  /\ want \in [Request -> Seq(Rows)]
  /\ held \in [Request -> SUBSET Rows]
  /\ \A r, q \in Request : r # q => held[r] \cap held[q] = {}
  /\ elders \in [Request -> SUBSET Request]
  /\ overtaken \in [Request -> SUBSET Sheet]

LEMMA IInvFacts ==
  ASSUME IInv
  PROVE  /\ Sound /\ LocksTyped /\ FreshInv
         /\ req = [r \in Request |-> req[r]] /\ stage = [r \in Request |-> stage[r]]
         /\ \A r \in Request : (req[r].kind = "none" <=> req[r] = Idle) /\ Standing(r, req[r])
BY DEF IInv, TypeOK, Sound, TablesTyped, LocksTyped, RequestInv, LockInv, FoundInv, Standing

LEMMA Keeps ==
  ASSUME Sound', LocksTyped', FreshInv',
         req' = [q \in Request |-> req'[q]], stage' = [q \in Request |-> stage'[q]],
         \A q \in Request : req'[q].kind = "none" <=> req'[q] = Idle,
         \A q \in Request : \A a : a = req'[q] => Standing(q, a)'
  PROVE  IInv'
<1>1. TypeOK'
  BY DEF TypeOK, Sound, TablesTyped, LocksTyped
<1>2. RequestInv' /\ LockInv' /\ FoundInv'
  BY DEF RequestInv, LockInv, FoundInv, Standing
<1>3. QED
  BY <1>1, <1>2 DEF IInv, Sound

\* Steps that leave the tables alone and change the request r only.
LEMMA QuietKeeps ==
  ASSUME IInv, NEW r \in Request, UNCHANGED data, LocksTyped',
         req' = [q \in Request |-> req'[q]], stage' = [q \in Request |-> stage'[q]],
         \A q \in Request \ {r} : /\ req'[q] = req[q] /\ stage'[q] = stage[q]
                                  /\ want'[q] = want[q] /\ held'[q] = held[q],
         req'[r].kind = "none" <=> req'[r] = Idle,
         FreshInv',
         \A a : a = req'[r] => Standing(r, a)'
  PROVE  IInv'
<1>1. Sound /\ \A q \in Request : (req[q].kind = "none" <=> req[q] = Idle) /\ Standing(q, req[q])
  BY IInvFacts
<1>2. Sound'
  BY <1>1, SizesKept DEF data, Sound, TablesTyped, SequenceIsAhead, QuantitiesAgree, PrintedMeansSucceeded, ReferenceInv
<1>3. ASSUME NEW q \in Request \ {r}, NEW a, a = req'[q] PROVE Standing(q, a)'
  <2>1. Standing(q, a)
    BY <1>1, <1>3
  <2>2. Promised(q)' = Promised(q)
    BY DEF Promised
  <2>3. QED
    BY <2>1, <2>2, Unmoved
<1>4. \A q \in Request : \A a : a = req'[q] => Standing(q, a)'
  BY <1>3
<1>5. \A q \in Request : req'[q].kind = "none" <=> req'[q] = Idle
  BY <1>1
<1>6. QED
  BY <1>2, <1>4, <1>5, Keeps

LEMMA StatementKeeps ==
  ASSUME IInv, NEW r \in Request, NEW next, NEW rows \in Seq(Rows), Statement(r, next, rows),
         \A a : a = req[r] => Standing(r, a)'
  PROVE  IInv'
<1>1. /\ UNCHANGED data /\ req' = req /\ held' = held /\ elders' = elders /\ overtaken' = overtaken
      /\ stage' = [stage EXCEPT ![r] = next] /\ want' = [want EXCEPT ![r] = rows]
  BY DEF Statement, data
<1>2. LocksTyped'
  BY <1>1, IInvFacts DEF LocksTyped
<1>3. /\ req' = [q \in Request |-> req'[q]] /\ stage' = [q \in Request |-> stage'[q]]
      /\ \A q \in Request \ {r} : /\ req'[q] = req[q] /\ stage'[q] = stage[q]
                                  /\ want'[q] = want[q] /\ held'[q] = held[q]
      /\ req'[r].kind = "none" <=> req'[r] = Idle
  BY <1>1, IInvFacts DEF LocksTyped
<1>4. FreshInv'
  BY <1>1, IInvFacts DEF FreshInv
<1>5. QED
  BY <1>1, <1>2, <1>3, <1>4, QuietKeeps

\* A request that is not there is bound to nothing.
LEMMA IdleStands ==
  ASSUME NEW r
  PROVE  Standing(r, Idle)
<1>1. Idle.kind = "none"
  BY DEF Idle
<1>2. QED
  BY <1>1 DEF Standing, AskInv, LockOf, FoundOf, Corrections, Founding, Entering, Creating, Changing, Claiming

LEMMA EndFacts ==
  ASSUME IInv, NEW r \in Request, End(r), overtaken' \in [Request -> SUBSET Sheet]
  PROVE  /\ LocksTyped' /\ FreshInv'
         /\ req' = [q \in Request |-> req'[q]] /\ stage' = [q \in Request |-> stage'[q]]
         /\ \A q \in Request \ {r} : /\ req'[q] = req[q] /\ stage'[q] = stage[q]
                                     /\ want'[q] = want[q] /\ held'[q] = held[q]
         /\ req'[r] = Idle /\ req'[r].kind = "none"
<1>1. /\ req' = [req EXCEPT ![r] = Idle] /\ stage' = [stage EXCEPT ![r] = "none"]
      /\ want' = [want EXCEPT ![r] = <<>>] /\ held' = [held EXCEPT ![r] = {}]
      /\ elders' = [q \in Request |-> IF q = r THEN {} ELSE elders[q] \ {r}]
  BY DEF End
<1>2. LocksTyped /\ req = [q \in Request |-> req[q]] /\ stage = [q \in Request |-> stage[q]]
  BY IInvFacts
<1>3. LocksTyped'
  BY <1>1, <1>2 DEF LocksTyped
<1>4. req'[r] = Idle /\ Idle.kind = "none" /\ \A q \in Request \ {r} : req'[q] = req[q]
  BY <1>1, <1>2 DEF Idle
<1>5. FreshInv'
  BY <1>4, IInvFacts DEF FreshInv, Founding, Creating, Entering
<1>6. QED
  BY <1>1, <1>2, <1>3, <1>4, <1>5 DEF LocksTyped

LEMMA RefuseKeeps ==
  ASSUME IInv, NEW r \in Request, Refuse(r)
  PROVE  IInv'
<1>1. UNCHANGED data /\ End(r) /\ overtaken' \in [Request -> SUBSET Sheet]
  BY IInvFacts DEF Refuse, LocksTyped
<1>2. \A a : a = Idle => Standing(r, a)'
  <2>1. Standing(r, Idle)'
    BY IdleStands, PTL
  <2>2. QED
    BY <2>1
<1>3. QED
  BY <1>1, <1>2, EndFacts, QuietKeeps

LEMMA AcquireKeeps ==
  ASSUME IInv, NEW r \in Request, Acquire(r)
  PROVE  IInv'
<1> DEFINE row == Head(want[r])
<1>1. /\ want[r] # <<>> /\ \A q \in Request \ {r} : row \notin held[q]
      /\ held' = [held EXCEPT ![r] = @ \cup {row}] /\ want' = [want EXCEPT ![r] = Tail(@)]
      /\ UNCHANGED data /\ req' = req /\ stage' = stage /\ elders' = elders /\ overtaken' = overtaken
  BY DEF Acquire, data
<1>2. LocksTyped /\ want[r] \in Seq(Rows)
  BY IInvFacts DEF LocksTyped
<1>3. row \in Rows /\ Tail(want[r]) \in Seq(Rows)
  BY <1>1, <1>2
<1>4. /\ held'[r] = held[r] \cup {row} /\ want'[r] = Tail(want[r])
      /\ \A q \in Request \ {r} : held'[q] = held[q] /\ want'[q] = want[q]
  BY <1>1, <1>2 DEF LocksTyped
<1>5. Promised(r) \subseteq Promised(r)'
  <2> SUFFICES ASSUME NEW i \in 1 .. Len(want[r]) PROVE want[r][i] \in Promised(r)'
    BY <1>4 DEF Promised
  <2>1. CASE i = 1
    BY <1>2, <1>4, <2>1 DEF Promised
  <2>2. CASE i # 1
    <3>1. i - 1 \in 1 .. Len(Tail(want[r])) /\ Tail(want[r])[i - 1] = want[r][i]
      BY <1>1, <1>2, <2>2
    <3>2. QED
      BY <1>4, <3>1 DEF Promised
  <2>3. QED
    BY <2>1, <2>2
<1>6. LocksTyped'
  <2>1. held' \in [Request -> SUBSET Rows] /\ want' \in [Request -> Seq(Rows)]
    BY <1>1, <1>2, <1>3 DEF LocksTyped
  <2>2. \A p, q \in Request : p # q => held'[p] \cap held'[q] = {}
    BY <1>1, <1>2, <1>4 DEF LocksTyped
  <2>3. QED
    BY <1>1, <1>2, <2>1, <2>2 DEF LocksTyped
<1>7. ASSUME NEW a, a = req'[r] PROVE Standing(r, a)'
  <2>1. Standing(r, a)
    BY <1>1, <1>7, IInvFacts
  <2>2. QED
    BY <1>1, <1>4, <1>5, <2>1, Unmoved
<1>8. FreshInv'
  BY <1>1, IInvFacts DEF FreshInv
<1>9. /\ req' = [q \in Request |-> req'[q]] /\ stage' = [q \in Request |-> stage'[q]]
      /\ req'[r].kind = "none" <=> req'[r] = Idle
  BY <1>1, IInvFacts
<1>10. QED
  BY <1>1, <1>4, <1>6, <1>7, <1>8, <1>9, QuietKeeps

LEMMA BeginKeeps ==
  ASSUME IInv, NEW r \in Request, NEW ask, NEW first, NEW rows \in Seq(Rows), Begin(r, ask, first, rows),
         ask.kind # "none",
         \A q \in Request :
           /\ ask.kind \in Founding /\ req[q].kind \in Founding => ask.batch # req[q].batch
           /\ ask.kind \in Creating /\ req[q].kind \in Entering => ask.sheet # req[q].sheet
           /\ ask.kind \in Entering /\ req[q].kind \in Creating => ask.sheet # req[q].sheet,
         Standing(r, ask)'
  PROVE  IInv'
<1>1. /\ UNCHANGED data /\ held' = held /\ overtaken' = overtaken
      /\ req' = [req EXCEPT ![r] = ask] /\ stage' = [stage EXCEPT ![r] = first] /\ want' = [want EXCEPT ![r] = rows]
      /\ elders' = [elders EXCEPT ![r] = {q \in Request : req[q] # Idle}]
  BY DEF Begin, data
<1>2. LocksTyped /\ req = [q \in Request |-> req[q]] /\ stage = [q \in Request |-> stage[q]]
  BY IInvFacts
<1>3. LocksTyped'
  BY <1>1, <1>2 DEF LocksTyped
<1>4. req'[r] = ask /\ \A q \in Request \ {r} : req'[q] = req[q]
  BY <1>1, <1>2
<1>5. FreshInv'
  BY <1>4, IInvFacts DEF FreshInv
<1>6. req'[r].kind = "none" <=> req'[r] = Idle
  BY <1>4 DEF Idle
<1>7. /\ req' = [q \in Request |-> req'[q]] /\ stage' = [q \in Request |-> stage'[q]]
      /\ \A q \in Request \ {r} : /\ req'[q] = req[q] /\ stage'[q] = stage[q]
                                  /\ want'[q] = want[q] /\ held'[q] = held[q]
  BY <1>1, <1>2 DEF LocksTyped
<1>8. \A a : a = req'[r] => Standing(r, a)'
  BY <1>4
<1>9. QED
  BY <1>1, <1>3, <1>5, <1>6, <1>7, <1>8, QuietKeeps

LEMMA WriteKeeps ==
  ASSUME IInv, NEW r \in Request, Write(r)
  PROVE  IInv'
<1>1. CASE Refuse(r)
  BY <1>1, RefuseKeeps
<1>2. CASE ~Refuse(r)
  <2>1. Writing(r) /\ Committed(r) /\ Commit(r, Touched(Outcome(req[r])))
    BY <1>2 DEF Write, Committed
  <2>2. Sound /\ LocksTyped /\ req[r].kind # "none"
        /\ \A q \in Request : (req[q].kind = "none" <=> req[q] = Idle) /\ Standing(q, req[q])
    BY <2>1, IInvFacts DEF Writing
  <2>3. Effect(r)
    BY <2>1, <2>2, WriteEffect
  <2>4. Sound'
    BY <2>3 DEF Effect, Sound
  <2>5. End(r) /\ overtaken' \in [Request -> SUBSET Sheet]
    <3>1. Touched(Outcome(req[r])) \subseteq Sheet
      BY DEF Touched
    <3>2. QED
      BY <2>1, <2>2, <3>1 DEF Commit, LocksTyped
  <2>6. /\ LocksTyped' /\ FreshInv'
        /\ req' = [q \in Request |-> req'[q]] /\ stage' = [q \in Request |-> stage'[q]]
        /\ \A q \in Request \ {r} : /\ req'[q] = req[q] /\ stage'[q] = stage[q]
                                    /\ want'[q] = want[q] /\ held'[q] = held[q]
        /\ req'[r] = Idle /\ req'[r].kind = "none"
    BY <2>5, EndFacts
  <2>7. ASSUME NEW q \in Request, NEW a, a = req'[q] PROVE Standing(q, a)'
    <3>1. CASE q = r
      <4>1. Standing(r, Idle)'
        BY IdleStands, PTL
      <4>2. QED
        BY <2>6, <2>7, <3>1, <4>1
    <3>2. CASE q # r
      <4>1. Standing(q, a) /\ a = req[q]
        BY <2>2, <2>6, <2>7, <3>2
      <4>2. Promised(q)' = Promised(q)
        BY <2>6, <3>2 DEF Promised
      <4>3. held[r] \cap held[q] = {}
        BY <2>2, <3>2 DEF LocksTyped
      <4>4. /\ a.kind \in Founding => ~(req[r].kind \in Founding /\ req[r].batch = a.batch)
            /\ a.kind \in Entering => ~(req[r].kind \in Creating /\ req[r].sheet = a.sheet)
        BY <3>2, <4>1, IInvFacts DEF FreshInv
      <4>5. QED
        BY <2>2, <2>3, <2>6, <3>2, <4>1, <4>2, <4>3, <4>4, Survives
    <3>3. QED
      BY <3>1, <3>2
  <2>8. \A q \in Request : req'[q].kind = "none" <=> req'[q] = Idle
    BY <2>2, <2>6
  <2>9. QED
    BY <2>4, <2>6, <2>7, <2>8, Keeps
<1>3. QED
  BY <1>1, <1>2

-----------------------------------------------------------------------------
(* The statements.                                                         *)

LEMMA OneRowFacts ==
  ASSUME NEW row \in Rows
  PROVE  <<row>> \in Seq(Rows) /\ {<<row>>[i] : i \in 1 .. Len(<<row>>)} = {row}
<1>1. Len(<<row>>) = 1 /\ <<row>>[1] = row
  OBVIOUS
<1>2. QED
  BY <1>1

LEMMA StatementFacts ==
  ASSUME IInv, NEW r \in Request, NEW next, NEW rows, Statement(r, next, rows), want[r] = <<>>
  PROVE  /\ UNCHANGED data /\ stage'[r] = next /\ held'[r] = held[r]
         /\ Promised(r) = held[r]
         /\ Promised(r)' = held[r] \cup {rows[i] : i \in 1 .. Len(rows)}
         /\ \A a : AskInv(a) => AskInv(a)'
         /\ \A b : Active(b)' = Active(b) /\ SizesOf(b)' = SizesOf(b)
         /\ \A numbers : SheetsOf(numbers)' = SheetsOf(numbers)
         /\ \A a : a = req[r] => Standing(r, a)
<1>1. /\ UNCHANGED data /\ held' = held
      /\ stage' = [stage EXCEPT ![r] = next] /\ want' = [want EXCEPT ![r] = rows]
  BY DEF Statement, data
<1>2. stage'[r] = next /\ want'[r] = rows
  BY <1>1, IInvFacts DEF LocksTyped
<1>3. Promised(r) = held[r]
  BY DEF Promised
<1>4. Promised(r)' = held[r] \cup {rows[i] : i \in 1 .. Len(rows)}
  BY <1>1, <1>2 DEF Promised
<1>5. \A a : AskInv(a) => AskInv(a)'
  BY <1>1 DEF AskInv, data
<1>6. \A b : Active(b)' = Active(b) /\ SizesOf(b)' = SizesOf(b)
  BY <1>1, SizesKept DEF data
<1>7. \A numbers : SheetsOf(numbers)' = SheetsOf(numbers)
  BY <1>1 DEF SheetsOf, data
<1>8. QED
  BY <1>1, <1>2, <1>3, <1>4, <1>5, <1>6, <1>7, IInvFacts

\* The number that was read is all that is new in the request.
LEMMA ReadFacts ==
  ASSUME IInv, NEW r \in Request, ReadSequence(r), want[r] = <<>>, req[r].kind \in {"create", "correct"},
         NEW a, a = req'[r]
  PROVE  /\ UNCHANGED <<data, held, elders, overtaken>> /\ stage'[r] = "write"
         /\ Promised(r) = held[r] /\ Promised(r)' = held[r]
         /\ a.first = nextPatta /\ a.kind = req[r].kind /\ a.batch = req[r].batch
         /\ a.soni = req[r].soni /\ a.target = req[r].target
         /\ a.kind = "correct" => a.expected = req[r].expected
         /\ AskInv(a)' /\ Standing(r, req[r])
<1> DEFINE old == req[r]
<1>1. /\ UNCHANGED <<batches, pattas, sheets, prints, nextPatta>> /\ UNCHANGED <<held, elders, overtaken>>
      /\ stage' = [stage EXCEPT ![r] = "write"] /\ want' = [want EXCEPT ![r] = <<>>]
      /\ req' = [req EXCEPT ![r] = [old EXCEPT !.first = nextPatta]]
  BY DEF ReadSequence, data
<1>2. Standing(r, old) /\ Sound /\ LocksTyped
  BY IInvFacts
<1>3. a = [old EXCEPT !.first = nextPatta] /\ stage'[r] = "write" /\ want'[r] = <<>>
  BY <1>1, IInvFacts DEF LocksTyped
<1>4. /\ old.kind \in {"create", "correct"} /\ {"kind", "batch", "soni", "target", "first"} \subseteq DOMAIN old
      /\ old.kind = "correct" => "expected" \in DOMAIN old
  BY <1>2 DEF Standing, AskInv, Corrections
<1> HIDE DEF old
<1>5. /\ a.first = nextPatta /\ a.kind = old.kind /\ a.batch = old.batch
      /\ a.soni = old.soni /\ a.target = old.target /\ DOMAIN a = DOMAIN old
      /\ a.kind = "correct" => a.expected = old.expected
  BY <1>3, <1>4
<1>6. nextPatta \in 0 .. MaxNumber
  BY <1>2, NumberFacts DEF Sound, TablesTyped
<1>7. AskInv(a)'
  <2>1. AskInv(old)
    BY <1>2 DEF Standing
  <2>2. AskInv(a)
    BY <1>4, <1>5, <1>6, <2>1 DEF AskInv, Founding, Corrections, Claiming, Entering, Creating
  <2>3. QED
    BY <1>1, <2>2 DEF AskInv
<1>8. Promised(r) = held[r] /\ Promised(r)' = held[r]
  BY <1>1, <1>3 DEF Promised
<1>9. QED
  BY <1>1, <1>2, <1>3, <1>5, <1>7, <1>8 DEF data, old

LEMMA ReadKeeps ==
  ASSUME IInv, NEW r \in Request, ReadSequence(r), want[r] = <<>>, req[r].kind \in {"create", "correct"},
         \A a : a = req'[r] => Standing(r, a)'
  PROVE  IInv'
<1>1. /\ UNCHANGED data /\ held' = held /\ elders' = elders /\ overtaken' = overtaken
      /\ stage' = [stage EXCEPT ![r] = "write"] /\ want' = [want EXCEPT ![r] = <<>>]
      /\ req' = [req EXCEPT ![r] = [@ EXCEPT !.first = nextPatta]]
  BY DEF ReadSequence, data
<1>2. LocksTyped'
  BY <1>1, IInvFacts DEF LocksTyped
<1>3. /\ req' = [q \in Request |-> req'[q]] /\ stage' = [q \in Request |-> stage'[q]]
      /\ \A q \in Request \ {r} : /\ req'[q] = req[q] /\ stage'[q] = stage[q]
                                  /\ want'[q] = want[q] /\ held'[q] = held[q]
  BY <1>1, IInvFacts DEF LocksTyped
<1>4. req'[r].kind = req[r].kind /\ req'[r].batch = req[r].batch /\ req[r].kind # "none"
  BY ReadFacts
<1>5. FreshInv'
  BY <1>3, <1>4, IInvFacts DEF FreshInv, Founding, Creating, Entering
<1>6. req'[r].kind = "none" <=> req'[r] = Idle
  BY <1>4 DEF Idle
<1>7. QED
  BY <1>1, <1>2, <1>3, <1>5, <1>6, QuietKeeps

LEMMA TakeNumbersKeeps ==
  ASSUME IInv, NEW r \in Request, TakeNumbers(r)
  PROVE  IInv'
<1>1. CASE Refuse(r)
  BY <1>1, RefuseKeeps
<1>2. CASE ReadSequence(r) /\ ~(nextPatta + Len(Slots(req[r].target)) - 1 >= MaxNumber)
  <2>1. req[r].kind = "create" /\ stage[r] = "numbers" /\ want[r] = <<>>
    BY DEF TakeNumbers, At
  <2>2. ASSUME NEW a, a = req'[r] PROVE Standing(r, a)'
    <3>1. /\ Standing(r, req[r]) /\ a.kind = "create" /\ AskInv(a)' /\ stage'[r] = "write"
          /\ a.first = nextPatta /\ a.target = req[r].target
          /\ held'[r] = held[r] /\ Promised(r) = held[r] /\ UNCHANGED data
      BY <1>2, <2>1, <2>2, ReadFacts
    <3>2. a.first + Len(Slots(a.target)) <= MaxNumber
      <4>1. a.target \in Distribution
        BY <3>1 DEF AskInv, Founding
      <4>2. a.target \in [Razmer -> Int]
        BY <4>1, DocumentsAssumption
      <4>3. Len(Slots(a.target)) \in Nat
        BY <4>2, SlotsFacts
      <4>4. nextPatta \in Nat /\ MaxNumber \in Nat
        BY NumberFacts, IInvFacts DEF Sound, TablesTyped
      <4>5. QED
        BY <1>2, <3>1, <4>3, <4>4
    <3>3. PattaSequence \in held[r]
      BY <2>1, <3>1 DEF Standing, LockOf
    <3>4. LockOf(r, a)'
      BY <3>1 DEF LockOf, Corrections, Entering, Changing
    <3>5. FoundOf(r, a)'
      BY <3>1, <3>2, <3>3 DEF FoundOf, Corrections, Changing, data
    <3>6. QED
      BY <3>1, <3>4, <3>5 DEF Standing
  <2>3. QED
    BY <1>2, <2>1, <2>2, ReadKeeps
<1>3. QED
  BY <1>1, <1>2 DEF TakeNumbers

LEMMA CorrectBatchKeeps ==
  ASSUME IInv, NEW r \in Request, CorrectBatch(r)
  PROVE  IInv'
<1> DEFINE rows == PattaRows(Active(req[r].batch))
<1>1. CASE Refuse(r)
  BY <1>1, RefuseKeeps
<1>2. CASE batches[req[r].batch].version = req[r].expected /\ Statement(r, "pattas", rows)
  <2>1. req[r].kind \in Corrections /\ stage[r] = "batch" /\ want[r] = <<>>
    BY DEF CorrectBatch, Correcting, At, Corrections
  <2>2. /\ rows \in Seq(Rows)
        /\ \A n \in Active(req[r].batch) : \E i \in 1 .. Len(rows) : rows[i] = PattaRow(n)
    BY PattaRowsFacts DEF Active
  <2> HIDE DEF rows
  <2>3. ASSUME NEW a, a = req[r] PROVE Standing(r, a)'
    <3>1. /\ Standing(r, a) /\ a.kind \in Corrections /\ AskInv(a)' /\ stage'[r] = "pattas"
          /\ held'[r] = held[r] /\ Promised(r) = held[r] /\ UNCHANGED data
          /\ Promised(r)' = held[r] \cup {rows[i] : i \in 1 .. Len(rows)}
          /\ Active(a.batch)' = Active(a.batch)
      BY <1>2, <2>1, <2>3, StatementFacts DEF Standing
    <3>2. BatchRow(a.batch) \in held[r]
      BY <2>1, <3>1 DEF Standing, LockOf, CorrectionLocks
    <3>3. \A n \in Active(a.batch) : PattaRow(n) \in Promised(r)'
      BY <2>2, <2>3, <3>1
    <3>4. LockOf(r, a)'
      BY <3>1, <3>2, <3>3 DEF LockOf, CorrectionLocks, Corrections, Entering, Changing
    <3>5. FoundOf(r, a)'
      BY <1>2, <2>3, <3>1 DEF FoundOf, Corrections, Changing, data
    <3>6. QED
      BY <3>1, <3>4, <3>5 DEF Standing
  <2>4. QED
    BY <1>2, <2>2, <2>3, StatementKeeps
<1>3. QED
  BY <1>1, <1>2 DEF CorrectBatch

LEMMA CorrectEntriesKeeps ==
  ASSUME IInv, NEW r \in Request, CorrectEntries(r)
  PROVE  IInv'
<1> DEFINE rows == SheetRowsOf(Active(req[r].batch))
<1>1. Statement(r, "entries", rows) /\ req[r].kind \in Corrections /\ stage[r] = "pattas" /\ want[r] = <<>>
  BY DEF CorrectEntries, Correcting, At, Corrections
<1>2. /\ rows \in Seq(Rows)
      /\ \A s \in SheetsOf(Active(req[r].batch)) : \E i \in 1 .. Len(rows) : rows[i] = SheetRow(s)
  <2>1. Active(req[r].batch) \in SUBSET Number /\ TablesTyped /\ QuantitiesAgree
    BY IInvFacts DEF Active, Sound
  <2>2. QED
    BY <2>1, SheetRowsFacts
<1> HIDE DEF rows
<1>3. ASSUME NEW a, a = req[r] PROVE Standing(r, a)'
  <2>1. /\ Standing(r, a) /\ a.kind \in Corrections /\ AskInv(a)' /\ stage'[r] = "entries"
        /\ held'[r] = held[r] /\ Promised(r) = held[r] /\ UNCHANGED data
        /\ Promised(r)' = held[r] \cup {rows[i] : i \in 1 .. Len(rows)}
        /\ Active(a.batch)' = Active(a.batch)
        /\ \A numbers : SheetsOf(numbers)' = SheetsOf(numbers)
    BY <1>1, <1>3, StatementFacts DEF Standing
  <2>2. BatchRow(a.batch) \in held[r] /\ \A n \in Active(a.batch) : PattaRow(n) \in held[r]
    BY <1>1, <2>1 DEF Standing, LockOf, CorrectionLocks
  <2>3. \A s \in SheetsOf(Active(a.batch)) : SheetRow(s) \in Promised(r)'
    BY <1>2, <1>3, <2>1
  <2>4. SheetsOf(Active(a.batch))' = SheetsOf(Active(a.batch))
    BY <2>1 DEF SheetsOf, data
  <2>5. LockOf(r, a)'
    BY <2>1, <2>2, <2>3, <2>4 DEF LockOf, CorrectionLocks, Corrections, Entering, Changing
  <2>6. FoundOf(r, a)'
    BY <1>1, <2>1 DEF Standing, FoundOf, Corrections, Changing, data
  <2>7. QED
    BY <2>1, <2>5, <2>6 DEF Standing
<1>4. QED
  BY <1>1, <1>2, <1>3, StatementKeeps

LEMMA CorrectAssignKeeps ==
  ASSUME IInv, NEW r \in Request, CorrectAssign(r)
  PROVE  IInv'
<1>1. req[r].kind \in Corrections /\ stage[r] = "entries" /\ want[r] = <<>>
  BY DEF CorrectAssign, Correcting, At, Corrections
<1>2. \/ Refuse(r)
      \/ /\ ~InUse(Plan(req[r]))
         /\ \/ Statement(r, "write", <<>>) /\ (req[r].kind = "correct" => Plan(req[r]).deficits = <<>>)
            \/ Statement(r, "numbers", <<PattaSequence>>) /\ req[r].kind = "correct"
  BY <1>1 DEF CorrectAssign, Corrections
<1>3. ASSUME NEW next, NEW rows \in Seq(Rows), NEW a, a = req[r], Statement(r, next, rows), ~InUse(Plan(a)),
             \/ next = "write" /\ (a.kind = "correct" => Plan(a).deficits = <<>>)
             \/ next = "numbers" /\ a.kind = "correct" /\ rows = <<PattaSequence>>
      PROVE  Standing(r, a)'
  <2>1. /\ Standing(r, a) /\ a.kind \in Corrections /\ AskInv(a)' /\ stage'[r] = next
        /\ held'[r] = held[r] /\ Promised(r) = held[r] /\ UNCHANGED data
        /\ Promised(r)' = held[r] \cup {rows[i] : i \in 1 .. Len(rows)}
        /\ Active(a.batch)' = Active(a.batch) /\ SizesOf(a.batch)' = SizesOf(a.batch)
        /\ SheetsOf(Active(a.batch))' = SheetsOf(Active(a.batch))
    <3>1. \A numbers : SheetsOf(numbers)' = SheetsOf(numbers)
      BY <1>1, <1>3, StatementFacts
    <3>2. Active(a.batch)' = Active(a.batch)
      BY <1>1, <1>3, StatementFacts
    <3>3. SheetsOf(Active(a.batch))' = SheetsOf(Active(a.batch))
      BY <3>2, <1>1, <1>3, StatementFacts DEF SheetsOf, data
    <3>4. QED
      BY <1>1, <1>3, <3>2, <3>3, StatementFacts DEF Standing
  <2>2. /\ BatchRow(a.batch) \in held[r]
        /\ \A n \in Active(a.batch) : PattaRow(n) \in held[r]
        /\ \A s \in SheetsOf(Active(a.batch)) : SheetRow(s) \in held[r]
    BY <1>1, <2>1 DEF Standing, LockOf, CorrectionLocks
  <2>3. next = "numbers" => PattaSequence \in Promised(r)'
    <3>1. SUFFICES ASSUME next = "numbers" PROVE PattaSequence \in Promised(r)'
      OBVIOUS
    <3>2. rows = <<PattaSequence>>
      BY <1>3, <3>1
    <3>3. {rows[i] : i \in 1 .. Len(rows)} = {PattaSequence}
      BY <3>2, RowTypes, OneRowFacts
    <3>4. QED
      BY <2>1, <3>3
  <2>4. LockOf(r, a)'
    BY <1>3, <2>1, <2>2, <2>3 DEF LockOf, CorrectionLocks, Corrections, Entering, Changing
  <2>5. Plan(a)' = Plan(a) /\ ~InUse(Plan(a))'
    <3>1. Plan(a)' = Plan(a)
      BY <2>1 DEF Plan
    <3>2. QED
      BY <1>3, <2>1, <3>1 DEF InUse, SheetsOf, data
  <2>6. batches'[a.batch].version = a.expected
    BY <1>1, <2>1 DEF Standing, FoundOf, data
  <2>7. FoundOf(r, a)'
    BY <1>3, <2>1, <2>5, <2>6 DEF FoundOf, Corrections, Changing
  <2>8. QED
    BY <2>1, <2>4, <2>7 DEF Standing
<1>4. <<>> \in Seq(Rows) /\ <<PattaSequence>> \in Seq(Rows)
  BY RowTypes
<1>5. CASE Refuse(r)
  BY <1>5, RefuseKeeps
<1>6. CASE /\ ~InUse(Plan(req[r])) /\ Statement(r, "write", <<>>)
           /\ req[r].kind = "correct" => Plan(req[r]).deficits = <<>>
  <2>1. ASSUME NEW a, a = req[r] PROVE Standing(r, a)'
    <3>1. ~InUse(Plan(a)) /\ (a.kind = "correct" => Plan(a).deficits = <<>>)
      BY <1>6, <2>1
    <3>2. QED
      BY <1>3, <1>4, <1>6, <2>1, <3>1
  <2>2. QED
    BY <1>4, <1>6, <2>1, StatementKeeps
<1>7. CASE ~InUse(Plan(req[r])) /\ Statement(r, "numbers", <<PattaSequence>>) /\ req[r].kind = "correct"
  <2>1. ASSUME NEW a, a = req[r] PROVE Standing(r, a)'
    <3>1. ~InUse(Plan(a)) /\ a.kind = "correct"
      BY <1>7, <2>1
    <3>2. QED
      BY <1>3, <1>4, <1>7, <2>1, <3>1
  <2>2. QED
    BY <1>4, <1>7, <2>1, StatementKeeps
<1>8. QED
  BY <1>2, <1>5, <1>6, <1>7

LEMMA AllocateCorrectionKeeps ==
  ASSUME IInv, NEW r \in Request, AllocateCorrectionPattaNumbers(r)
  PROVE  IInv'
<1> DEFINE missing == Len(Plan(req[r]).deficits)
<1>1. CASE Refuse(r)
  BY <1>1, RefuseKeeps
<1>2. CASE ReadSequence(r) /\ ~(nextPatta + missing - 1 >= MaxNumber)
  <2>1. req[r].kind = "correct" /\ stage[r] = "numbers" /\ want[r] = <<>>
    BY DEF AllocateCorrectionPattaNumbers, At
  <2>2. ASSUME NEW a, a = req'[r] PROVE Standing(r, a)'
    <3> DEFINE old == req[r]
    <3>1. /\ Standing(r, old) /\ old.kind = "correct" /\ a.kind = "correct" /\ AskInv(a)' /\ stage'[r] = "write"
          /\ a.first = nextPatta /\ a.target = old.target /\ a.batch = old.batch /\ a.expected = old.expected
          /\ held'[r] = held[r] /\ Promised(r) = held[r] /\ UNCHANGED data
      BY <1>2, <2>1, <2>2, ReadFacts
    <3> HIDE DEF old
    <3>2. /\ Active(a.batch)' = Active(a.batch) /\ SizesOf(a.batch)' = SizesOf(a.batch)
          /\ SheetsOf(Active(a.batch))' = SheetsOf(Active(a.batch))
      <4>1. \A b : Active(b)' = Active(b) /\ SizesOf(b)' = SizesOf(b)
        BY <3>1, SizesKept DEF data
      <4>2. QED
        BY <3>1, <4>1 DEF SheetsOf, data
    <3>3. Plan(a) = Plan(old) /\ Plan(a)' = Plan(a)
      BY <3>1, <3>2 DEF Plan
    <3>4. a.first + Len(Plan(a).deficits) <= MaxNumber
      <4>1. a.target \in Distribution /\ TablesTyped
        BY <3>1, IInvFacts DEF AskInv, Corrections, Sound
      <4>2. Len(Plan(a).deficits) \in Nat
        BY <4>1, PlanFacts
      <4>3. nextPatta \in Nat /\ MaxNumber \in Nat
        BY <4>1, NumberFacts DEF TablesTyped
      <4>4. QED
        BY <1>2, <3>1, <3>3, <4>2, <4>3 DEF old
    <3>5. /\ BatchRow(a.batch) \in held[r] /\ PattaSequence \in held[r]
          /\ \A n \in Active(a.batch) : PattaRow(n) \in held[r]
          /\ \A s \in SheetsOf(Active(a.batch)) : SheetRow(s) \in held[r]
      BY <2>1, <3>1 DEF Standing, LockOf, CorrectionLocks, Corrections
    <3>6. LockOf(r, a)'
      BY <3>1, <3>2, <3>5 DEF LockOf, CorrectionLocks, Corrections, Entering, Changing
    <3>7. ~InUse(Plan(a)) /\ batches[a.batch].version = a.expected
      BY <2>1, <3>1, <3>3 DEF Standing, FoundOf, Corrections
    <3>8. ~InUse(Plan(a))' /\ batches'[a.batch].version = a.expected
      BY <3>1, <3>3, <3>7 DEF InUse, SheetsOf, data
    <3>9. FoundOf(r, a)'
      BY <3>1, <3>3, <3>4, <3>5, <3>8 DEF FoundOf, Corrections, Changing, data
    <3>10. QED
      BY <3>1, <3>6, <3>9 DEF Standing
  <2>3. QED
    BY <1>2, <2>1, <2>2, ReadKeeps
<1>3. QED
  BY <1>1, <1>2 DEF AllocateCorrectionPattaNumbers

LEMMA LegacyEntriesKeeps ==
  ASSUME IInv, NEW r \in Request, LegacyEntries(r)
  PROVE  IInv'
<1> DEFINE rows == SheetRowsOf({req[r].patta})
<1>1. CASE Refuse(r)
  BY <1>1, RefuseKeeps
<1>2. CASE Statement(r, "write", rows)
  <2>1. req[r].kind = "legacy" /\ stage[r] = "patta" /\ want[r] = <<>>
    BY DEF LegacyEntries, At
  <2>2. /\ rows \in Seq(Rows)
        /\ \A s \in SheetsOf({req[r].patta}) : \E i \in 1 .. Len(rows) : rows[i] = SheetRow(s)
    <3>1. {req[r].patta} \in SUBSET Number /\ TablesTyped /\ QuantitiesAgree
      BY <2>1, NumberFacts, IInvFacts DEF Standing, AskInv, Sound
    <3>2. QED
      BY <3>1, SheetRowsFacts
  <2> HIDE DEF rows
  <2>3. ASSUME NEW a, a = req[r] PROVE Standing(r, a)'
    <3>1. /\ Standing(r, a) /\ a.kind = "legacy" /\ AskInv(a)' /\ stage'[r] = "write"
          /\ held'[r] = held[r] /\ Promised(r) = held[r] /\ UNCHANGED data
          /\ Promised(r)' = held[r] \cup {rows[i] : i \in 1 .. Len(rows)}
          /\ SheetsOf({a.patta})' = SheetsOf({a.patta})
      BY <1>2, <2>1, <2>3, StatementFacts DEF Standing
    <3>2. PattaRow(a.patta) \in held[r]
      BY <2>1, <3>1 DEF Standing, LockOf, PattaLocks
    <3>3. \A s \in SheetsOf({a.patta}) : SheetRow(s) \in Promised(r)'
      BY <2>2, <2>3, <3>1
    <3>4. LockOf(r, a)'
      BY <3>1, <3>2, <3>3 DEF LockOf, PattaLocks, Corrections, Entering, Changing
    <3>5. FoundOf(r, a)'
      BY <3>1 DEF FoundOf, Corrections, Changing
    <3>6. QED
      BY <3>1, <3>4, <3>5 DEF Standing
  <2>4. QED
    BY <1>2, <2>2, <2>3, StatementKeeps
<1>3. QED
  BY <1>1, <1>2 DEF LegacyEntries

LEMMA PrintBatchKeeps ==
  ASSUME IInv, NEW r \in Request, PrintBatch(r)
  PROVE  IInv'
<1>1. CASE Refuse(r)
  BY <1>1, RefuseKeeps
<1>2. CASE Statement(r, "write", <<>>) /\ batches[req[r].batch].version = req[r].revision
  <2>1. req[r].kind = "print" /\ stage[r] = "batch" /\ want[r] = <<>>
    BY DEF PrintBatch, At
  <2>2. ASSUME NEW a, a = req[r] PROVE Standing(r, a)'
    <3>1. /\ Standing(r, a) /\ a.kind = "print" /\ AskInv(a)' /\ stage'[r] = "write"
          /\ held'[r] = held[r] /\ Promised(r) = held[r] /\ UNCHANGED data
      BY <1>2, <2>1, <2>2, StatementFacts DEF Standing
    <3>2. BatchRow(a.batch) \in held[r] /\ batches[a.batch].version = a.revision
      BY <1>2, <2>1, <2>2, <3>1 DEF Standing, LockOf
    <3>3. LockOf(r, a)' /\ FoundOf(r, a)'
      BY <3>1, <3>2 DEF LockOf, FoundOf, Corrections, Entering, Changing, data
    <3>4. QED
      BY <3>1, <3>3 DEF Standing
  <2>3. <<>> \in Seq(Rows)
    OBVIOUS
  <2>4. QED
    BY <1>2, <2>2, <2>3, StatementKeeps
<1>3. QED
  BY <1>1, <1>2 DEF PrintBatch

LEMMA CreateLinkedPattaKeeps ==
  ASSUME IInv, NEW r \in Request, CreateLinkedPatta(r)
  PROVE  IInv'
<1> DEFINE rows == SheetRowsOf({req[r].patta})
<1>1. CASE Refuse(r)
  BY <1>1, RefuseKeeps
<1>2. CASE Statement(r, "prior", rows) /\ pattas[req[r].patta].soni # Unknown
  <2>1. req[r].kind = "create_linked" /\ stage[r] = "patta" /\ want[r] = <<>>
    BY DEF CreateLinkedPatta, At
  <2>2. rows \in Seq(Rows)
    <3>1. {req[r].patta} \in SUBSET Number /\ TablesTyped /\ QuantitiesAgree
      BY <2>1, IInvFacts DEF Standing, AskInv, Sound
    <3>2. QED
      BY <3>1, SheetRowsFacts
  <2> HIDE DEF rows
  <2>3. ASSUME NEW a, a = req[r] PROVE Standing(r, a)'
    <3>1. /\ Standing(r, a) /\ a.kind = "create_linked" /\ AskInv(a)' /\ stage'[r] = "prior"
          /\ held'[r] = held[r] /\ Promised(r) = held[r] /\ UNCHANGED data
      BY <1>2, <2>1, <2>3, StatementFacts DEF Standing
    <3>2. PattaRow(a.patta) \in held[r]
      BY <2>1, <3>1 DEF Standing, LockOf, PattaLocks
    <3>3. LockOf(r, a)'
      BY <3>1, <3>2 DEF LockOf, PattaLocks, Corrections, Entering, Creating, Changing
    <3>4. FoundOf(r, a)'
      BY <1>2, <2>3, <3>1 DEF FoundOf, Corrections, Changing, data
    <3>5. QED
      BY <3>1, <3>3, <3>4 DEF Standing
  <2>4. QED
    BY <1>2, <2>2, <2>3, StatementKeeps
<1>3. QED
  BY <1>1, <1>2 DEF CreateLinkedPatta

LEMMA CreateLinkedPriorKeeps ==
  ASSUME IInv, NEW r \in Request, CreateLinkedPrior(r)
  PROVE  IInv'
<1>1. CASE Refuse(r)
  BY <1>1, RefuseKeeps
<1>2. CASE Statement(r, "write", <<>>)
  <2>1. req[r].kind = "create_linked" /\ stage[r] = "prior" /\ want[r] = <<>>
    BY DEF CreateLinkedPrior, At
  <2>2. ASSUME NEW a, a = req[r] PROVE Standing(r, a)'
    <3>1. /\ Standing(r, a) /\ a.kind = "create_linked" /\ AskInv(a)' /\ stage'[r] = "write"
          /\ held'[r] = held[r] /\ Promised(r) = held[r] /\ UNCHANGED data
      BY <1>2, <2>1, <2>2, StatementFacts DEF Standing
    <3>2. LockOf(r, a)'
      BY <2>1, <3>1 DEF Standing, LockOf, PattaLocks, Corrections, Entering, Creating, Changing
    <3>3. FoundOf(r, a)'
      BY <2>1, <3>1 DEF Standing, FoundOf, Corrections, Changing, data
    <3>4. QED
      BY <3>1, <3>2, <3>3 DEF Standing
  <2>3. <<>> \in Seq(Rows)
    OBVIOUS
  <2>4. QED
    BY <1>2, <2>2, <2>3, StatementKeeps
<1>3. QED
  BY <1>1, <1>2 DEF CreateLinkedPrior

\* The next statement of a request that changes the sheet it has locked.
LEMMA ChangingKeeps ==
  ASSUME IInv, NEW r \in Request, NEW next, next # "sheet", NEW rows \in Seq(Rows), Statement(r, next, rows),
         req[r].kind \in Changing \ {"reuse"}, want[r] = <<>>,
         stage[r] # "sheet" \/ Live(req[r].sheet, req[r].expected)
  PROVE  IInv'
<1>1. ASSUME NEW a, a = req[r] PROVE Standing(r, a)'
  <2>1. /\ Standing(r, a) /\ a.kind \in Changing \ {"reuse"} /\ AskInv(a)' /\ stage'[r] = next
        /\ held'[r] = held[r] /\ Promised(r) = held[r] /\ UNCHANGED data
    BY <1>1, StatementFacts DEF Standing
  <2>2. SheetRow(a.sheet) \in held[r]
    BY <2>1 DEF Standing, LockOf, Changing, Entering, Creating
  <2>3. Live(a.sheet, a.expected)
    BY <1>1, <2>1 DEF Standing, FoundOf
  <2>4. LockOf(r, a)'
    BY <2>1, <2>2 DEF LockOf, Promised, Corrections, Entering, Creating, Changing
  <2>5. FoundOf(r, a)'
    BY <2>1, <2>3 DEF FoundOf, Live, Corrections, Changing, data
  <2>6. QED
    BY <2>1, <2>4, <2>5 DEF Standing
<1>2. QED
  BY <1>1, StatementKeeps

LEMMA EditLinkedKeeps ==
  ASSUME IInv, NEW r \in Request, EditLinked(r)
  PROVE  IInv'
<1> DEFINE s == req[r].sheet
           row == PattaRow(sheets[s].patta)
<1>1. CASE Refuse(r)
  BY <1>1, RefuseKeeps
<1>2. CASE Live(s, req[r].expected) /\ Statement(r, "patta", <<row>>)
  <2>1. req[r].kind = "edit_linked" /\ want[r] = <<>>
    BY DEF EditLinked, At
  <2>2. sheets[s].patta \in Number
    <3>1. s \in Sheet /\ Present(sheets[s]) /\ sheets[s].patta # NoNumber /\ TablesTyped
      BY <1>2, <2>1, IInvFacts DEF Standing, AskInv, Entering, Live, Sound
    <3>2. sheets[s] \in SheetRecord
      BY <3>1 DEF TablesTyped, Present
    <3>3. QED
      BY <3>1, <3>2 DEF SheetRecord
  <2>3. <<row>> \in Seq(Rows)
    BY <2>2, RowTypes, OneRowFacts
  <2> HIDE DEF row, s
  <2>4. QED
    BY <1>2, <2>1, <2>3, ChangingKeeps DEF Changing, s
<1>3. QED
  BY <1>1, <1>2 DEF EditLinked

LEMMA EditLinkedPattaKeeps ==
  ASSUME IInv, NEW r \in Request, EditLinkedPatta(r)
  PROVE  IInv'
<1>1. CASE Refuse(r)
  BY <1>1, RefuseKeeps
<1>2. CASE Statement(r, "write", <<>>)
  <2>1. req[r].kind = "edit_linked" /\ stage[r] = "patta" /\ want[r] = <<>> /\ <<>> \in Seq(Rows)
    BY DEF EditLinkedPatta, At
  <2>2. QED
    BY <1>2, <2>1, ChangingKeeps DEF Changing
<1>3. QED
  BY <1>1, <1>2 DEF EditLinkedPatta

LEMMA SetTrashedKeeps ==
  ASSUME IInv, NEW r \in Request, SetTrashed(r)
  PROVE  IInv'
<1>1. CASE Refuse(r)
  BY <1>1, RefuseKeeps
<1>2. CASE Live(req[r].sheet, req[r].expected) /\ Statement(r, "write", <<>>)
  <2>1. req[r].kind \in {"trash", "restore"} /\ want[r] = <<>> /\ <<>> \in Seq(Rows)
    BY DEF SetTrashed, At
  <2>2. QED
    BY <1>2, <2>1, ChangingKeeps DEF Changing
<1>3. QED
  BY <1>1, <1>2 DEF SetTrashed

LEMMA PurgeKeeps ==
  ASSUME IInv, NEW r \in Request, Purge(r)
  PROVE  IInv'
<1> DEFINE row == SheetRows(req[r].sheet)
<1>1. CASE Refuse(r)
  BY <1>1, RefuseKeeps
<1>2. CASE Live(req[r].sheet, req[r].expected) /\ Statement(r, "write", <<row>>)
  <2>1. req[r].kind = "purge" /\ want[r] = <<>>
    BY DEF Purge, At
  <2>2. req[r].sheet \in Sheet
    BY <2>1, IInvFacts DEF Standing, AskInv, Entering
  <2>3. <<row>> \in Seq(Rows)
    BY <2>2, RowTypes, OneRowFacts
  <2> HIDE DEF row
  <2>4. QED
    BY <1>2, <2>1, <2>3, ChangingKeeps DEF Changing
<1>3. QED
  BY <1>1, <1>2 DEF Purge

\* A statement that finds what refuses the request.
LEMMA RefusalKeeps ==
  ASSUME IInv, NEW r \in Request,
         Reused(r) \/ NotPermitted(r) \/ RejectSnapshots(r) \/ RejectRows(r) \/ AbortVictim(r) \/ RollBack(r)
  PROVE  IInv'
<1>1. Refuse(r)
  BY DEF Reused, NotPermitted, RejectSnapshots, RejectRows, AbortVictim, RollBack
<1>2. QED
  BY <1>1, RefuseKeeps

-----------------------------------------------------------------------------
(* Requests begin.                                                         *)

LEMMA BeginFacts ==
  ASSUME IInv, NEW r \in Request, NEW ask, NEW first, NEW rows, Begin(r, ask, first, rows)
  PROVE  /\ UNCHANGED data /\ stage'[r] = first
         /\ {rows[i] : i \in 1 .. Len(rows)} \subseteq Promised(r)'
         /\ AskInv(ask) => AskInv(ask)'
<1>1. /\ UNCHANGED data /\ stage' = [stage EXCEPT ![r] = first] /\ want' = [want EXCEPT ![r] = rows]
  BY DEF Begin, data
<1>2. stage'[r] = first /\ want'[r] = rows
  BY <1>1, IInvFacts DEF LocksTyped
<1>3. {rows[i] : i \in 1 .. Len(rows)} \subseteq Promised(r)'
  BY <1>2 DEF Promised
<1>4. AskInv(ask) => AskInv(ask)'
  BY <1>1 DEF AskInv, data
<1>5. QED
  BY <1>1, <1>2, <1>3, <1>4

\* A request that has found nothing yet and is to take the row its statement names.
LEMMA FirstStands ==
  ASSUME IInv, NEW r \in Request, NEW ask, NEW first, NEW row \in Rows, Begin(r, ask, first, <<row>>),
         AskInv(ask),
         \/ ask.kind \in Corrections /\ first = "batch" /\ row = BatchRow(ask.batch)
         \/ ask.kind \in {"legacy", "create_linked"} /\ first = "patta" /\ row = PattaRow(ask.patta)
         \/ ask.kind = "print" /\ first = "batch" /\ row = BatchRow(ask.batch)
         \/ ask.kind \in Changing /\ first = "sheet" /\ row = SheetRow(ask.sheet)
  PROVE  Standing(r, ask)'
<1>1. {<<row>>[i] : i \in 1 .. Len(<<row>>)} = {row}
  BY OneRowFacts
<1>2. stage'[r] = first /\ row \in Promised(r)' /\ AskInv(ask)'
  BY <1>1, BeginFacts
<1>3. LockOf(r, ask)'
  BY <1>2 DEF LockOf, CorrectionLocks, PattaLocks, Corrections, Entering, Creating, Changing
<1>4. FoundOf(r, ask)'
  BY <1>2 DEF FoundOf, Corrections, Changing
<1>5. QED
  BY <1>2, <1>3, <1>4 DEF Standing

LEMMA BeginCreateKeeps ==
  ASSUME IInv, NEW r \in Request, BeginCreate(r)
  PROVE  IInv'
<1>1. PICK b \in Batch, soni \in Soni, target \in Distribution :
        /\ Fresh(b)
        /\ Begin(r, [kind |-> "create", batch |-> b, soni |-> soni, target |-> target, first |-> NoNumber],
                 "numbers", <<PartiyaSequence, PattaSequence>>)
  BY DEF BeginCreate
<1> DEFINE ask == [kind |-> "create", batch |-> b, soni |-> soni, target |-> target, first |-> NoNumber]
           rows == <<PartiyaSequence, PattaSequence>>
<1>2. /\ ask.kind = "create" /\ ask.batch = b /\ ask.soni = soni /\ ask.target = target
      /\ DOMAIN ask = {"kind", "batch", "soni", "target", "first"} /\ ask.first = 0
  BY DEF NoNumber
<1>3. rows \in Seq(Rows) /\ PattaSequence \in {rows[i] : i \in 1 .. Len(rows)}
  <2>1. Len(rows) = 2 /\ rows[2] = PattaSequence
    OBVIOUS
  <2>2. rows \in Seq(Rows)
    BY RowTypes
  <2> HIDE DEF rows
  <2>3. 2 \in 1 .. Len(rows)
    BY <2>1
  <2>4. QED
    BY <2>1, <2>2, <2>3
<1>4. Begin(r, ask, "numbers", rows)
  BY <1>1
<1> HIDE DEF ask, rows
<1>5. AskInv(ask)
  BY <1>1, <1>2, NumberFacts DEF AskInv, Operations, Founding, Corrections, Entering, Creating, Claiming, Fresh, Present
<1>6. Standing(r, ask)'
  <2>1. stage'[r] = "numbers" /\ PattaSequence \in Promised(r)' /\ AskInv(ask)'
    BY <1>3, <1>4, <1>5, BeginFacts
  <2>2. LockOf(r, ask)'
    BY <1>2, <2>1 DEF LockOf, Corrections, Entering, Creating, Changing
  <2>3. FoundOf(r, ask)'
    BY <1>2, <2>1 DEF FoundOf, Corrections, Changing
  <2>4. QED
    BY <2>1, <2>2, <2>3 DEF Standing
<1>7. \A q \in Request : req[q].kind \in Founding => b # req[q].batch
  BY <1>1 DEF Fresh, Founding
<1>8. QED
  BY <1>2, <1>3, <1>4, <1>6, <1>7, BeginKeeps DEF Creating, Entering

LEMMA BeginRegisterKeeps ==
  ASSUME IInv, NEW r \in Request, BeginRegister(r)
  PROVE  IInv'
<1>1. PICK b \in Batch, soni \in Soni, target \in Distribution, numbers \in SUBSET BlockNumber :
        /\ Fresh(b)
        /\ \E sizes \in OfflineSizes(numbers, target) :
             Begin(r, [kind |-> "register", batch |-> b, soni |-> soni, target |-> target, sizes |-> sizes], "write", <<>>)
  BY DEF BeginRegister
<1>2. PICK sizes \in [numbers -> Razmer] :
        Begin(r, [kind |-> "register", batch |-> b, soni |-> soni, target |-> target, sizes |-> sizes], "write", <<>>)
  BY <1>1 DEF OfflineSizes
<1> DEFINE ask == [kind |-> "register", batch |-> b, soni |-> soni, target |-> target, sizes |-> sizes]
<1>3. /\ ask.kind = "register" /\ ask.batch = b /\ ask.soni = soni /\ ask.target = target /\ ask.sizes = sizes
      /\ Begin(r, ask, "write", <<>>) /\ <<>> \in Seq(Rows)
  BY <1>2
<1> HIDE DEF ask
<1>4. AskInv(ask)
  BY <1>1, <1>3 DEF AskInv, Operations, Founding, Corrections, Entering, Creating, Claiming, Fresh, Present
<1>5. Standing(r, ask)'
  <2>1. stage'[r] = "write" /\ AskInv(ask)'
    BY <1>3, <1>4, BeginFacts
  <2>2. LockOf(r, ask)' /\ FoundOf(r, ask)'
    BY <1>3, <2>1 DEF LockOf, FoundOf, Corrections, Entering, Creating, Changing
  <2>3. QED
    BY <2>1, <2>2 DEF Standing
<1>6. \A q \in Request : req[q].kind \in Founding => b # req[q].batch
  BY <1>1 DEF Fresh, Founding
<1>7. QED
  BY <1>3, <1>5, <1>6, BeginKeeps DEF Creating, Entering

LEMMA BeginRegisterOneKeeps ==
  ASSUME IInv, NEW r \in Request, BeginRegisterOne(r)
  PROVE  IInv'
<1>1. PICK n \in BlockNumber, soni \in Soni, z \in Razmer :
        Begin(r, [kind |-> "register_one", soni |-> soni, sizes |-> [m \in {n} |-> z]], "write", <<>>)
  BY DEF BeginRegisterOne
<1> DEFINE ask == [kind |-> "register_one", soni |-> soni, sizes |-> [m \in {n} |-> z]]
<1>2. /\ ask.kind = "register_one" /\ ask.soni = soni /\ ask.sizes \in [{n} -> Razmer]
      /\ Begin(r, ask, "write", <<>>) /\ <<>> \in Seq(Rows)
  BY <1>1
<1> HIDE DEF ask
<1>3. AskInv(ask)
  BY <1>2 DEF AskInv, Operations, Founding, Corrections, Entering, Creating, Claiming
<1>4. Standing(r, ask)'
  <2>1. stage'[r] = "write" /\ AskInv(ask)'
    BY <1>2, <1>3, BeginFacts
  <2>2. LockOf(r, ask)' /\ FoundOf(r, ask)'
    BY <1>2, <2>1 DEF LockOf, FoundOf, Corrections, Entering, Creating, Changing
  <2>3. QED
    BY <2>1, <2>2 DEF Standing
<1>5. QED
  BY <1>2, <1>4, BeginKeeps DEF Founding, Creating, Entering

LEMMA BeginCorrectionKeeps ==
  ASSUME IInv, NEW r \in Request, NEW kind \in Corrections, NEW b \in Batch, NEW soni \in Soni,
         NEW target \in Distribution, NEW expected, NEW numbers \in SUBSET BlockNumber, NEW sizes,
         kind = "correct_offline" => sizes \in [numbers -> Razmer],
         Present(batches[b]), expected \in 1 .. batches[b].version, expected < MaxVersion,
         Begin(r, Correction(kind, b, expected, soni, target, sizes), "batch", <<BatchRow(b)>>)
  PROVE  IInv'
<1> DEFINE ask == Correction(kind, b, expected, soni, target, sizes)
           row == BatchRow(b)
<1>1. /\ ask.kind = kind /\ ask.batch = b /\ ask.expected = expected /\ ask.soni = soni /\ ask.target = target
      /\ ask.sizes = sizes /\ ask.first = 0
      /\ DOMAIN ask = {"kind", "batch", "expected", "soni", "target", "sizes", "first"}
  BY DEF Correction, NoNumber
<1>2. expected \in 1 .. MaxVersion - 1
  <2>1. batches[b] \in BatchRecord
    BY IInvFacts DEF Sound, TablesTyped, Present
  <2>2. batches[b].version \in 1 .. MaxVersion /\ MaxVersion \in Nat
    BY <2>1, DocumentsAssumption DEF BatchRecord
  <2>3. QED
    BY <2>2
<1>3. Begin(r, ask, "batch", <<row>>) /\ row \in Rows /\ <<row>> \in Seq(Rows)
  BY RowTypes, OneRowFacts
<1> HIDE DEF ask
<1>4. AskInv(ask)
  <2>1. /\ {"kind", "batch", "soni", "target", "first"} \subseteq DOMAIN ask /\ "expected" \in DOMAIN ask
        /\ ask.first \in 0 .. MaxNumber
    BY <1>1, NumberFacts
  <2>2. ask.kind \in {"correct", "correct_offline"}
    BY <1>1 DEF Corrections
  <2>3. ask.kind = "correct_offline" => ask.sizes \in [DOMAIN ask.sizes -> Razmer] /\ DOMAIN ask.sizes \subseteq BlockNumber
    BY <1>1
  <2>4. QED
    BY <1>1, <1>2, <2>1, <2>2, <2>3 DEF AskInv, Operations, Founding, Corrections, Entering, Creating, Claiming
<1>5. Standing(r, ask)'
  BY <1>1, <1>3, <1>4, FirstStands
<1> HIDE DEF row
<1>6. QED
  BY <1>1, <1>3, <1>5, BeginKeeps DEF Corrections, Founding, Creating, Entering

LEMMA BeginCorrectKeeps ==
  ASSUME IInv, NEW r \in Request, BeginCorrect(r)
  PROVE  IInv'
<1>1. PICK b \in Batch, soni \in Soni, target \in Distribution :
        /\ batches[b] # Absent
        /\ \E expected \in 1 .. batches[b].version :
             /\ expected < MaxVersion
             /\ Begin(r, Correction("correct", b, expected, soni, target, <<>>), "batch", <<BatchRow(b)>>)
  BY DEF BeginCorrect
<1>2. PICK expected \in 1 .. batches[b].version :
        /\ expected < MaxVersion
        /\ Begin(r, Correction("correct", b, expected, soni, target, <<>>), "batch", <<BatchRow(b)>>)
  BY <1>1
<1>3. {} \in SUBSET BlockNumber /\ "correct" \in Corrections /\ Present(batches[b])
  BY <1>1 DEF Corrections, Present
<1>4. QED
  BY <1>2, <1>3, BeginCorrectionKeeps

LEMMA BeginCorrectOfflineKeeps ==
  ASSUME IInv, NEW r \in Request, BeginCorrectOffline(r)
  PROVE  IInv'
<1>1. PICK b \in Batch, soni \in Soni, target \in Distribution, numbers \in SUBSET BlockNumber :
        /\ batches[b] # Absent
        /\ \E expected \in 1 .. batches[b].version, sizes \in [numbers -> Razmer] :
             /\ expected < MaxVersion
             /\ Begin(r, Correction("correct_offline", b, expected, soni, target, sizes), "batch", <<BatchRow(b)>>)
  BY DEF BeginCorrectOffline
<1>2. PICK expected \in 1 .. batches[b].version, sizes \in [numbers -> Razmer] :
        /\ expected < MaxVersion
        /\ Begin(r, Correction("correct_offline", b, expected, soni, target, sizes), "batch", <<BatchRow(b)>>)
  BY <1>1
<1>3. "correct_offline" \in Corrections /\ Present(batches[b])
  BY <1>1 DEF Corrections, Present
<1>4. QED
  BY <1>2, <1>3, BeginCorrectionKeeps

LEMMA BeginLegacyKeeps ==
  ASSUME IInv, NEW r \in Request, BeginLegacy(r)
  PROVE  IInv'
<1>1. PICK n \in LegacyNumber, soni \in Soni, expected \in {1, 2} :
        Begin(r, [kind |-> "legacy", patta |-> n, soni |-> soni, expected |-> expected], "patta", <<PattaRow(n)>>)
  BY DEF BeginLegacy
<1> DEFINE ask == [kind |-> "legacy", patta |-> n, soni |-> soni, expected |-> expected]
           row == PattaRow(n)
<1>2. ask.kind = "legacy" /\ ask.patta = n /\ ask.soni = soni
  OBVIOUS
<1>3. Begin(r, ask, "patta", <<row>>) /\ row \in Rows /\ <<row>> \in Seq(Rows)
  BY <1>1, NumberFacts, RowTypes, OneRowFacts
<1> HIDE DEF ask
<1>4. AskInv(ask)
  BY <1>2 DEF AskInv, Operations, Founding, Corrections, Entering, Creating, Claiming
<1>5. Standing(r, ask)'
  BY <1>2, <1>3, <1>4, FirstStands
<1> HIDE DEF row
<1>6. QED
  BY <1>2, <1>3, <1>5, BeginKeeps DEF Founding, Creating, Entering

LEMMA BeginPrintKeeps ==
  ASSUME IInv, NEW r \in Request, BeginPrint(r)
  PROVE  IInv'
<1>1. PICK p \in PrintEvent, b \in Batch, revision \in 1 .. MaxVersion, outcome \in PrintOutcome :
        /\ batches[b] # Absent
        /\ Begin(r, [kind |-> "print", event |-> p, batch |-> b, revision |-> revision, outcome |-> outcome],
                 "batch", <<BatchRow(b)>>)
  BY DEF BeginPrint
<1> DEFINE ask == [kind |-> "print", event |-> p, batch |-> b, revision |-> revision, outcome |-> outcome]
           row == BatchRow(b)
<1>2. ask.kind = "print" /\ ask.event = p /\ ask.batch = b /\ ask.revision = revision /\ ask.outcome = outcome
  OBVIOUS
<1>3. Begin(r, ask, "batch", <<row>>) /\ row \in Rows /\ <<row>> \in Seq(Rows)
  BY <1>1, RowTypes, OneRowFacts
<1> HIDE DEF ask
<1>4. AskInv(ask)
  BY <1>1, <1>2 DEF AskInv, Operations, Founding, Corrections, Entering, Creating, Claiming, Present
<1>5. Standing(r, ask)'
  BY <1>2, <1>3, <1>4, FirstStands
<1> HIDE DEF row
<1>6. QED
  BY <1>2, <1>3, <1>5, BeginKeeps DEF Founding, Creating, Entering

LEMMA BeginCreateLinkedKeeps ==
  ASSUME IInv, NEW r \in Request, BeginCreateLinked(r)
  PROVE  IInv'
<1>1. PICK s \in Sheet, n \in Number :
        /\ FreshSheet(s) /\ pattas[n] # Absent
        /\ Begin(r, [kind |-> "create_linked", sheet |-> s, patta |-> n], "patta", <<PattaRow(n)>>)
  BY DEF BeginCreateLinked
<1> DEFINE ask == [kind |-> "create_linked", sheet |-> s, patta |-> n]
           row == PattaRow(n)
<1>2. ask.kind = "create_linked" /\ ask.sheet = s /\ ask.patta = n
  OBVIOUS
<1>3. Begin(r, ask, "patta", <<row>>) /\ row \in Rows /\ <<row>> \in Seq(Rows)
  BY <1>1, RowTypes, OneRowFacts
<1> HIDE DEF ask
<1>4. AskInv(ask)
  BY <1>1, <1>2 DEF AskInv, Operations, Founding, Corrections, Entering, Creating, Claiming, Present, FreshSheet
<1>5. Standing(r, ask)'
  BY <1>2, <1>3, <1>4, FirstStands
<1>6. \A q \in Request : /\ req[q].kind \in Entering => s # req[q].sheet
                         /\ req[q].kind \in Creating => s # req[q].sheet
  BY <1>1 DEF FreshSheet, Creating, Entering
<1> HIDE DEF row
<1>7. QED
  BY <1>2, <1>3, <1>5, <1>6, BeginKeeps DEF Founding

LEMMA BeginCreateStandaloneKeeps ==
  ASSUME IInv, NEW r \in Request, BeginCreateStandalone(r)
  PROVE  IInv'
<1>1. PICK s \in Sheet, soni \in Soni :
        FreshSheet(s) /\ Begin(r, [kind |-> "create_standalone", sheet |-> s, soni |-> soni], "write", <<>>)
  BY DEF BeginCreateStandalone
<1> DEFINE ask == [kind |-> "create_standalone", sheet |-> s, soni |-> soni]
<1>2. ask.kind = "create_standalone" /\ ask.sheet = s /\ ask.soni = soni
  OBVIOUS
<1>3. Begin(r, ask, "write", <<>>) /\ <<>> \in Seq(Rows)
  BY <1>1
<1> HIDE DEF ask
<1>4. AskInv(ask)
  BY <1>1, <1>2 DEF AskInv, Operations, Founding, Corrections, Entering, Creating, Claiming, Present, FreshSheet
<1>5. Standing(r, ask)'
  <2>1. stage'[r] = "write" /\ AskInv(ask)'
    BY <1>3, <1>4, BeginFacts
  <2>2. LockOf(r, ask)' /\ FoundOf(r, ask)'
    BY <1>2, <2>1 DEF LockOf, FoundOf, Corrections, Entering, Creating, Changing
  <2>3. QED
    BY <2>1, <2>2 DEF Standing
<1>6. \A q \in Request : /\ req[q].kind \in Entering => s # req[q].sheet
                         /\ req[q].kind \in Creating => s # req[q].sheet
  BY <1>1 DEF FreshSheet, Creating, Entering
<1>7. QED
  BY <1>2, <1>3, <1>5, <1>6, BeginKeeps DEF Founding

\* No request is about to create a sheet that is there.
LEMMA NoneCreates ==
  ASSUME IInv, NEW s \in Sheet, Present(sheets[s]), NEW q \in Request, req[q].kind \in Creating
  PROVE  req[q].sheet # s
<1>1. AskInv(req[q])
  BY IInvFacts DEF Standing
<1>2. QED
  BY <1>1 DEF AskInv

LEMMA OnSheetKeeps ==
  ASSUME IInv, NEW r \in Request, NEW kind \in Changing, NEW s \in Sheet, Present(sheets[s]),
         kind = "edit_linked" => sheets[s].patta # NoNumber, OnSheet(r, kind, s)
  PROVE  IInv'
<1>1. PICK expected \in 1 .. MaxVersion - 1 :
        Begin(r, [kind |-> kind, sheet |-> s, expected |-> expected], "sheet", <<SheetRow(s)>>)
  BY DEF OnSheet
<1> DEFINE ask == [kind |-> kind, sheet |-> s, expected |-> expected]
           row == SheetRow(s)
<1>2. ask.kind = kind /\ ask.sheet = s /\ ask.expected = expected
  OBVIOUS
<1>3. Begin(r, ask, "sheet", <<row>>) /\ row \in Rows /\ <<row>> \in Seq(Rows)
  BY <1>1, RowTypes, OneRowFacts
<1> HIDE DEF ask
<1>4. AskInv(ask)
  BY <1>2 DEF AskInv, Operations, Founding, Corrections, Entering, Creating, Claiming, Changing
<1>5. Standing(r, ask)'
  BY <1>2, <1>3, <1>4, FirstStands
<1>6. \A q \in Request : req[q].kind \in Creating => s # req[q].sheet
  BY NoneCreates
<1> HIDE DEF row
<1>7. QED
  BY <1>2, <1>3, <1>5, <1>6, BeginKeeps DEF Founding, Changing, Creating

LEMMA BeginOnSheetKeeps ==
  ASSUME IInv, NEW r \in Request, BeginOnSheet(r)
  PROVE  IInv'
BY OnSheetKeeps DEF BeginOnSheet, Changing

LEMMA ApplyUpdateEventKeeps ==
  ASSUME IInv, NEW r \in Request, ApplyUpdateEvent(r)
  PROVE  IInv'
<1>1. PICK s \in Sheet :
        /\ Present(sheets[s]) /\ sheets[s].patta # NoNumber
        /\ OnSheet(r, "edit_linked", s) \/ OnSheet(r, "trash", s) \/ OnSheet(r, "restore", s)
  BY DEF ApplyUpdateEvent
<1>2. QED
  BY <1>1, OnSheetKeeps DEF Changing

LEMMA BeginEditStandaloneKeeps ==
  ASSUME IInv, NEW r \in Request, BeginEditStandalone(r)
  PROVE  IInv'
<1>0. PICK s \in Sheet :
        /\ Present(sheets[s]) /\ sheets[s].version < MaxVersion
        /\ Begin(r, [kind |-> "edit_standalone", sheet |-> s, expected |-> sheets[s].version],
                 "write", <<SheetRows(s), SheetRow(s)>>)
  BY DEF BeginEditStandalone
<1>a. PICK expected : expected = sheets[s].version
  OBVIOUS
<1>1. /\ Present(sheets[s]) /\ sheets[s].version < MaxVersion /\ expected = sheets[s].version
      /\ Begin(r, [kind |-> "edit_standalone", sheet |-> s, expected |-> expected],
               "write", <<SheetRows(s), SheetRow(s)>>)
  BY <1>0, <1>a
<1> DEFINE ask == [kind |-> "edit_standalone", sheet |-> s, expected |-> expected]
           rows == <<SheetRows(s), SheetRow(s)>>
<1>2. ask.kind = "edit_standalone" /\ ask.sheet = s /\ ask.expected = expected
  OBVIOUS
<1>3. rows \in Seq(Rows) /\ SheetRow(s) \in {rows[i] : i \in 1 .. Len(rows)}
  <2>1. Len(rows) = 2 /\ rows[2] = SheetRow(s)
    OBVIOUS
  <2>2. rows \in Seq(Rows)
    BY RowTypes
  <2> HIDE DEF rows
  <2>3. 2 \in 1 .. Len(rows)
    BY <2>1
  <2>4. QED
    BY <2>1, <2>2, <2>3
<1>4. Begin(r, ask, "write", rows)
  BY <1>1
<1>5. expected \in 1 .. MaxVersion - 1
  <2>1. sheets[s] \in SheetRecord
    BY <1>1, IInvFacts DEF Sound, TablesTyped, Present
  <2>2. sheets[s].version \in Nat \ {0} /\ MaxVersion \in Nat
    BY <2>1, DocumentsAssumption DEF SheetRecord
  <2>3. QED
    BY <1>1, <2>2
<1> HIDE DEF ask, rows
<1>6. AskInv(ask)
  BY <1>1, <1>2, <1>5 DEF AskInv, Operations, Founding, Corrections, Entering, Creating, Claiming
<1>7. Standing(r, ask)'
  <2>1. stage'[r] = "write" /\ SheetRow(s) \in Promised(r)' /\ AskInv(ask)'
    BY <1>3, <1>4, <1>6, BeginFacts
  <2>2. LockOf(r, ask)' /\ FoundOf(r, ask)'
    BY <1>2, <2>1 DEF LockOf, FoundOf, Corrections, Entering, Creating, Changing
  <2>3. QED
    BY <2>1, <2>2 DEF Standing
<1>8. \A q \in Request : req[q].kind \in Creating => s # req[q].sheet
  BY <1>1, NoneCreates
<1>9. QED
  BY <1>2, <1>3, <1>4, <1>7, <1>8, BeginKeeps DEF Founding, Creating

-----------------------------------------------------------------------------
(* The invariant.                                                          *)

LEMMA InitIsInv ==
  ASSUME Init
  PROVE  IInv
<1>1. /\ batches = [b \in Batch |-> Absent] /\ sheets = [s \in Sheet |-> Absent] /\ prints = [p \in PrintEvent |-> Absent]
      /\ pattas = [n \in Number |-> IF n \in LegacyNumber THEN NewPatta("none", 1, Unknown) ELSE Absent]
      /\ nextPatta = 1
  BY DEF Init
<1>2. /\ req = [r \in Request |-> Idle] /\ stage = [r \in Request |-> "none"] /\ want = [r \in Request |-> <<>>]
      /\ held = [r \in Request |-> {}] /\ elders = [r \in Request |-> {}] /\ overtaken = [r \in Request |-> {}]
  BY DEF Init
<1>3. /\ NewPatta("none", 1, Unknown) \in PattaRecord
      /\ NewPatta("none", 1, Unknown).batch = "none" /\ Present(NewPatta("none", 1, Unknown))
  <2>1. "none" \in Batch \cup {"none"} /\ 1 \in Razmer /\ Unknown \in Soni \cup {Unknown}
    BY DocumentsAssumption
  <2>2. QED
    BY <2>1, NewPattaFacts
<1>4. TypeOK
  <2>1. batches \in [Batch -> BatchRecord \cup {Absent}] /\ sheets \in [Sheet -> SheetRecord \cup {Absent}]
    BY <1>1
  <2>2. pattas \in [Number -> PattaRecord \cup {Absent}] /\ prints \in [PrintEvent -> PrintRecord \cup {Absent}]
    BY <1>1, <1>3
  <2>3. nextPatta \in 1 .. MaxNumber
    BY <1>1, NumberFacts
  <2>4. want \in [Request -> Seq(Rows)] /\ held \in [Request -> SUBSET Rows]
    BY <1>2
  <2>5. QED
    BY <1>2, <2>1, <2>2, <2>3, <2>4 DEF TypeOK
<1>5. /\ \A b \in Batch : ~Present(batches[b])
      /\ \A s \in Sheet : ~Present(sheets[s])
      /\ \A p \in PrintEvent : ~Present(prints[p])
      /\ \A n \in Number : Present(pattas[n]) => n \in LegacyNumber
      /\ \A n \in LegacyNumber : Present(pattas[n]) /\ pattas[n].batch = "none"
  BY <1>1, <1>3, AbsentFacts, NumberFacts DEF Present
<1>6. SequenceIsAhead
  <2>1. ASSUME NEW n \in 1 .. MaxNumber PROVE pattas[n] = Absent
    <3>1. n \in Number /\ n \notin LegacyNumber
      BY NumberFacts DEF Number
    <3>2. QED
      BY <1>5, <3>1 DEF Present
  <2>2. QED
    BY <2>1 DEF SequenceIsAhead
<1>7. QuantitiesAgree /\ PrintedMeansSucceeded /\ ReferenceInv
  BY <1>5 DEF QuantitiesAgree, PrintedMeansSucceeded, ReferenceInv, Present
<1>8. \A r \in Request : req[r] = Idle /\ Idle.kind = "none" /\ Standing(r, Idle)
  BY <1>2, IdleStands DEF Idle
<1>9. RequestInv /\ LockInv /\ FoundInv
  BY <1>2, <1>8 DEF RequestInv, LockInv, FoundInv, Standing
<1>10. FreshInv
  BY <1>8 DEF FreshInv, Founding, Creating, Entering
<1>11. QED
  BY <1>4, <1>6, <1>7, <1>9, <1>10 DEF IInv

LEMMA StutterKeeps ==
  ASSUME IInv, UNCHANGED vars
  PROVE  IInv'
<1>1. /\ UNCHANGED <<batches, pattas, sheets, prints, nextPatta>>
      /\ UNCHANGED <<req, stage, want, held, elders, overtaken>>
  BY DEF vars, data
<1>2. Sound /\ LocksTyped /\ FreshInv
      /\ req = [r \in Request |-> req[r]] /\ stage = [r \in Request |-> stage[r]]
      /\ \A r \in Request : (req[r].kind = "none" <=> req[r] = Idle) /\ Standing(r, req[r])
  BY IInvFacts
<1>3. Sound'
  BY <1>1, <1>2, SizesKept DEF Sound, TablesTyped, SequenceIsAhead, QuantitiesAgree, PrintedMeansSucceeded, ReferenceInv
<1>4. LocksTyped' /\ FreshInv'
  BY <1>1, <1>2 DEF LocksTyped, FreshInv
<1>5. ASSUME NEW q \in Request, NEW a, a = req'[q] PROVE Standing(q, a)'
  <2>1. Standing(q, a)
    BY <1>1, <1>2, <1>5
  <2>2. Promised(q)' = Promised(q)
    BY <1>1 DEF Promised
  <2>3. QED
    BY <1>1, <2>1, <2>2, Unmoved DEF data
<1>6. /\ req' = [q \in Request |-> req'[q]] /\ stage' = [q \in Request |-> stage'[q]]
      /\ \A q \in Request : req'[q].kind = "none" <=> req'[q] = Idle
  BY <1>1, <1>2
<1>7. TypeOK'
  BY <1>3, <1>4 DEF TypeOK, Sound, TablesTyped, LocksTyped
<1>8. RequestInv' /\ LockInv' /\ FoundInv'
  BY <1>5, <1>6 DEF RequestInv, LockInv, FoundInv, Standing
<1>9. QED
  BY <1>3, <1>4, <1>7, <1>8 DEF IInv, Sound

LEMMA StepKeeps ==
  ASSUME IInv, NEW r \in Request,
         \/ BeginCreate(r) \/ BeginRegister(r) \/ BeginRegisterOne(r)
         \/ BeginCorrect(r) \/ BeginCorrectOffline(r) \/ BeginLegacy(r) \/ BeginPrint(r)
         \/ BeginCreateLinked(r) \/ BeginCreateStandalone(r)
         \/ BeginOnSheet(r) \/ ApplyUpdateEvent(r) \/ BeginEditStandalone(r)
         \/ TakeNumbers(r) \/ CorrectBatch(r) \/ CorrectEntries(r) \/ CorrectAssign(r)
         \/ AllocateCorrectionPattaNumbers(r) \/ LegacyEntries(r) \/ PrintBatch(r)
         \/ CreateLinkedPatta(r) \/ CreateLinkedPrior(r) \/ EditLinked(r) \/ EditLinkedPatta(r)
         \/ Reused(r) \/ SetTrashed(r) \/ Purge(r)
         \/ NotPermitted(r) \/ RejectSnapshots(r) \/ RejectRows(r)
         \/ Acquire(r) \/ AbortVictim(r) \/ RollBack(r) \/ Write(r)
  PROVE  IInv'
<1>1. CASE \/ BeginCreate(r) \/ BeginRegister(r) \/ BeginRegisterOne(r)
           \/ BeginCorrect(r) \/ BeginCorrectOffline(r) \/ BeginLegacy(r) \/ BeginPrint(r)
  BY <1>1, BeginCreateKeeps, BeginRegisterKeeps, BeginRegisterOneKeeps, BeginCorrectKeeps,
     BeginCorrectOfflineKeeps, BeginLegacyKeeps, BeginPrintKeeps
<1>2. CASE \/ BeginCreateLinked(r) \/ BeginCreateStandalone(r)
           \/ BeginOnSheet(r) \/ ApplyUpdateEvent(r) \/ BeginEditStandalone(r)
  BY <1>2, BeginCreateLinkedKeeps, BeginCreateStandaloneKeeps, BeginOnSheetKeeps, ApplyUpdateEventKeeps,
     BeginEditStandaloneKeeps
<1>3. CASE \/ TakeNumbers(r) \/ CorrectBatch(r) \/ CorrectEntries(r) \/ CorrectAssign(r)
           \/ AllocateCorrectionPattaNumbers(r) \/ LegacyEntries(r) \/ PrintBatch(r)
  BY <1>3, TakeNumbersKeeps, CorrectBatchKeeps, CorrectEntriesKeeps, CorrectAssignKeeps,
     AllocateCorrectionKeeps, LegacyEntriesKeeps, PrintBatchKeeps
<1>4. CASE \/ CreateLinkedPatta(r) \/ CreateLinkedPrior(r) \/ EditLinked(r) \/ EditLinkedPatta(r)
           \/ SetTrashed(r) \/ Purge(r)
  BY <1>4, CreateLinkedPattaKeeps, CreateLinkedPriorKeeps, EditLinkedKeeps, EditLinkedPattaKeeps,
     SetTrashedKeeps, PurgeKeeps
<1>5. CASE Reused(r) \/ NotPermitted(r) \/ RejectSnapshots(r) \/ RejectRows(r) \/ AbortVictim(r) \/ RollBack(r)
  BY <1>5, RefusalKeeps
<1>6. CASE Acquire(r) \/ Write(r)
  BY <1>6, AcquireKeeps, WriteKeeps
<1>7. QED
  BY <1>1, <1>2, <1>3, <1>4, <1>5, <1>6

\* The inductive invariant: with the types and the properties below, what a
\* request asked for, the rows it has locked, and what it found under those locks.
THEOREM DocumentsInvariant == Spec => []IInv
<1>1. Init => IInv
  BY InitIsInv
<1>2. IInv /\ [Next]_vars => IInv'
  <2>1. ASSUME IInv, Next PROVE IInv'
    BY <2>1, StepKeeps DEF Next
  <2>2. QED
    BY <2>1, StutterKeeps
<1>3. QED
  BY <1>1, <1>2, PTL DEF Spec

\* The tables, the requests and the locks keep their types, and no two requests
\* hold the same row.
THEOREM DocumentTypes == Spec => []TypeOK
<1>1. IInv => TypeOK
  BY DEF IInv
<1>2. QED
  BY DocumentsInvariant, <1>1, PTL

\* No creation or correction takes a number the sequence already gave: both
\* lock its row before they read it.
THEOREM SequenceStaysAhead == Spec => []SequenceIsAhead
<1>1. IInv => SequenceIsAhead
  BY DEF IInv
<1>2. QED
  BY DocumentsInvariant, <1>1, PTL

\* A sheet that is entered on a Patta has it alone and shows its quantity and
\* size, through corrections, updates and the Trash.
THEOREM SheetsAgreeWithPattas == Spec => []QuantitiesAgree
<1>1. IInv => QuantitiesAgree
  BY DEF IInv
<1>2. QED
  BY DocumentsInvariant, <1>1, PTL

\* A batch says it is printed when a print of it succeeded, and only then.
THEOREM PrintedIsEarned == Spec => []PrintedMeansSucceeded
<1>1. IInv => PrintedMeansSucceeded
  BY DEF IInv
<1>2. QED
  BY DocumentsInvariant, <1>1, PTL

\* A step that commits nothing leaves the tables as they are.
LEMMA OnlyWritesWrite ==
  ASSUME Next
  PROVE  UNCHANGED data \/ \E r \in Request : Write(r) /\ ~Refuse(r)
<1>1. PICK r \in Request :
        \/ BeginCreate(r) \/ BeginRegister(r) \/ BeginRegisterOne(r)
        \/ BeginCorrect(r) \/ BeginCorrectOffline(r) \/ BeginLegacy(r) \/ BeginPrint(r)
        \/ BeginCreateLinked(r) \/ BeginCreateStandalone(r)
        \/ BeginOnSheet(r) \/ ApplyUpdateEvent(r) \/ BeginEditStandalone(r)
        \/ TakeNumbers(r) \/ CorrectBatch(r) \/ CorrectEntries(r) \/ CorrectAssign(r)
        \/ AllocateCorrectionPattaNumbers(r) \/ LegacyEntries(r) \/ PrintBatch(r)
        \/ CreateLinkedPatta(r) \/ CreateLinkedPrior(r) \/ EditLinked(r) \/ EditLinkedPatta(r)
        \/ Reused(r) \/ SetTrashed(r) \/ Purge(r)
        \/ NotPermitted(r) \/ RejectSnapshots(r) \/ RejectRows(r)
        \/ Acquire(r) \/ AbortVictim(r) \/ RollBack(r) \/ Write(r)
  BY DEF Next
<1>2. /\ \A ask, first, rows : Begin(r, ask, first, rows) => UNCHANGED data
      /\ \A next, rows : Statement(r, next, rows) => UNCHANGED data
      /\ Refuse(r) => UNCHANGED data
      /\ Acquire(r) => UNCHANGED data
      /\ ReadSequence(r) => UNCHANGED data
  BY DEF Begin, Statement, Refuse, Acquire, ReadSequence
<1>3. CASE \/ BeginCreate(r) \/ BeginRegister(r) \/ BeginRegisterOne(r)
           \/ BeginCorrect(r) \/ BeginCorrectOffline(r) \/ BeginLegacy(r) \/ BeginPrint(r)
           \/ BeginCreateLinked(r) \/ BeginCreateStandalone(r)
  BY <1>2, <1>3 DEF BeginCreate, BeginRegister, BeginRegisterOne, BeginCorrect, BeginCorrectOffline, BeginLegacy,
     BeginPrint, BeginCreateLinked, BeginCreateStandalone
<1>4. CASE BeginOnSheet(r) \/ ApplyUpdateEvent(r) \/ BeginEditStandalone(r)
  BY <1>2, <1>4 DEF BeginOnSheet, ApplyUpdateEvent, BeginEditStandalone, OnSheet
<1>5. CASE \/ TakeNumbers(r) \/ CorrectBatch(r) \/ CorrectEntries(r)
           \/ AllocateCorrectionPattaNumbers(r) \/ LegacyEntries(r) \/ PrintBatch(r)
  BY <1>2, <1>5 DEF TakeNumbers, CorrectBatch, CorrectEntries, AllocateCorrectionPattaNumbers, LegacyEntries, PrintBatch
<1>6. CASE CorrectAssign(r)
  <2>1. \/ Refuse(r)
        \/ Statement(r, "write", <<>>)
        \/ Statement(r, "numbers", <<PattaSequence>>)
    BY <1>6 DEF CorrectAssign, Correcting, At
  <2>2. QED
    BY <1>2, <2>1
<1>7. CASE \/ CreateLinkedPatta(r) \/ CreateLinkedPrior(r) \/ EditLinked(r) \/ EditLinkedPatta(r)
           \/ SetTrashed(r) \/ Purge(r)
  BY <1>2, <1>7 DEF CreateLinkedPatta, CreateLinkedPrior, EditLinked, EditLinkedPatta, SetTrashed, Purge
<1>8. CASE \/ Reused(r) \/ NotPermitted(r) \/ RejectSnapshots(r) \/ RejectRows(r)
           \/ AbortVictim(r) \/ RollBack(r) \/ Acquire(r)
  BY <1>2, <1>8 DEF Reused, NotPermitted, RejectSnapshots, RejectRows, AbortVictim, RollBack
<1>9. CASE Write(r)
  BY <1>2, <1>9
<1>10. QED
  BY <1>1, <1>3, <1>4, <1>5, <1>6, <1>7, <1>8, <1>9

\* A sheet or a batch changes only at the end of a request that named the version
\* it has, but for corrections of its Patta and the first successful print.
THEOREM StaleRequestsLose == Spec => StaleNeverWins
<1> DEFINE A == /\ \A s \in Sheet : Present(sheets[s]) /\ sheets'[s] # sheets[s] =>
                     \E r \in Request :
                       /\ req[r] # Idle /\ req'[r] = Idle
                       /\ \/ req[r].kind \in Corrections \cup {"legacy"}
                          \/ req[r].sheet = s /\ req[r].expected = sheets[s].version
                /\ \A b \in Batch : batches[b] # Absent /\ batches'[b] # batches[b] =>
                     \E r \in Request :
                       /\ req[r] # Idle /\ req'[r] = Idle /\ req[r].batch = b
                       /\ IF req[r].kind \in Corrections THEN req[r].expected = batches[b].version
                                                    ELSE req[r].outcome = "SUCCEEDED"
<1>1. IInv /\ [Next]_vars => [A]_vars
  <2> SUFFICES ASSUME IInv, Next PROVE A
    OBVIOUS
  <2>1. CASE UNCHANGED data
    BY <2>1 DEF data
  <2>2. ASSUME NEW r \in Request, Write(r), ~Refuse(r) PROVE A
    <3>1. Writing(r) /\ Committed(r) /\ End(r)
      BY <2>2 DEF Write, Committed, Commit
    <3>2. /\ Sound /\ req[r] # Idle /\ req[r].kind # "none" /\ Standing(r, req[r])
          /\ req = [q \in Request |-> req[q]]
      BY <3>1, IInvFacts DEF Writing
    <3>3. Named(req[r])
      BY <3>1, <3>2, WriteEffect
    <3>4. req'[r] = Idle
      BY <3>1, <3>2 DEF End
    <3>5. QED
      BY <3>2, <3>3, <3>4 DEF Named, Present
  <2>3. QED
    BY <2>1, <2>2, OnlyWritesWrite
<1>2. QED
  BY DocumentsInvariant, <1>1, PTL DEF Spec, StaleNeverWins

\* Only the writing of a print event changes the print events.
LEMMA PrintsKept ==
  ASSUME NEW a, a.kind \in Operations, a.kind \notin {"print", "reuse"}
  PROVE  Outcome(a).prints = prints
BY DEF Operations, Founding, Entering, Corrections, Outcome, Created, Registered, RegisteredOne, Corrected,
  LegacyCorrected, LinkedCreated, StandaloneCreated, LinkedEdited, StandaloneEdited, Trashed, Removed, WithSheet, After

\* A print event is of the revision the batch has when it is recorded, whatever
\* corrections wait for the batch or were waited for; the batch stays as it was,
\* but for the first success.
THEOREM PrintsAreOfTheRevision == Spec => PrintsNameTheRevision
<1> DEFINE A == \A p \in PrintEvent : prints[p] = Absent /\ prints'[p] # Absent =>
                  LET b == prints'[p].batch
                  IN  /\ prints'[p].revision = batches[b].version
                      /\ batches'[b] = BatchPrinted(batches[b], prints'[p].outcome)
<1>1. IInv /\ [Next]_vars => [A]_vars
  <2> SUFFICES ASSUME IInv, Next PROVE A
    OBVIOUS
  <2>1. CASE UNCHANGED data
    BY <2>1 DEF data
  <2>2. ASSUME NEW r \in Request, Write(r), ~Refuse(r) PROVE A
    <3> DEFINE a == req[r]
    <3>1. /\ Committed(r) /\ stage[r] = "write" /\ a.kind # "none"
          /\ TablesTyped /\ Standing(r, a)
      BY <2>2, IInvFacts DEF Write, Committed, Writing, Sound
    <3>2. prints' = Outcome(a).prints /\ batches' = Outcome(a).batches
      BY <3>1 DEF Committed
    <3>3. a.kind \in Operations /\ a.kind # "reuse"
      BY <3>1 DEF Standing, AskInv, FoundOf
    <3> HIDE DEF a
    <3>4. CASE a.kind # "print"
      BY <3>2, <3>3, <3>4, PrintsKept
    <3>5. CASE a.kind = "print"
      <4>1. /\ a.event \in PrintEvent /\ a.batch \in Batch /\ batches[a.batch].version = a.revision
        BY <3>1, <3>5 DEF Standing, AskInv, FoundOf
      <4>2. Outcome(a) = Printed(a)
        BY <3>5 DEF Outcome, Corrections
      <4>3. /\ prints' = [prints EXCEPT ![a.event] = EventOf(a)]
            /\ batches' = [batches EXCEPT ![a.batch] = BatchPrinted(@, a.outcome)]
        BY <3>2, <4>2 DEF Printed, After
      <4>4. ASSUME NEW p \in PrintEvent, prints[p] = Absent, prints'[p] # Absent PROVE p = a.event
        BY <4>3, <4>4
      <4>5. /\ prints'[a.event] = EventOf(a)
            /\ batches'[a.batch] = BatchPrinted(batches[a.batch], a.outcome)
        BY <3>1, <4>1, <4>3 DEF TablesTyped
      <4>6. EventOf(a).batch = a.batch /\ EventOf(a).revision = a.revision /\ EventOf(a).outcome = a.outcome
        BY DEF EventOf
      <4>7. QED
        BY <4>1, <4>4, <4>5, <4>6
    <3>6. QED
      BY <3>4, <3>5
  <2>3. QED
    BY <2>1, <2>2, OnlyWritesWrite
<1>2. QED
  BY DocumentsInvariant, <1>1, PTL DEF Spec, PrintsNameTheRevision
=============================================================================
