--------------------------- MODULE PattaDocuments ---------------------------
(***************************************************************************)
(* The documents of one tenant on the server: print batches, the numbered  *)
(* Pattas they print, and the sheets (Entries) workers' rows are entered   *)
(* on, linked to a Patta or standalone.  Every operation of                *)
(* patta-print-batches.service.ts and patta-sheets.service.ts that changes *)
(* them is one database transaction at READ COMMITTED: it takes row locks  *)
(* one statement after the other, checks what it reads under them, and     *)
(* writes everything when it commits.  A transaction here is a request     *)
(* with the locks it holds and those its current statement still wants.    *)
(*                                                                         *)
(* The triggers of database/tenant-migrations judge each write a second    *)
(* time.  A write they refuse is an exception no service expects, which    *)
(* the API answers with 500; a cycle of waits costs one request the same.  *)
(*                                                                         *)
(* Colour, dates, workers, operation snapshots and the audit log change    *)
(* nothing below and are left out, but for the refusals they cause.        *)
(***************************************************************************)
EXTENDS Integers, Sequences, FiniteSets

CONSTANTS
  Kind,         \* the operations in use, of create, register, register_one, correct,
                \* correct_offline, legacy, print, create_linked, create_standalone,
                \* reuse, edit_linked, edit_standalone, trash, restore and purge
  Request,      \* transactions in progress at the same time
  Batch,        \* identities of print batches
  Sheet,        \* identities of sheets
  PrintEvent,   \* identities of print events
  Razmer,       \* sizes, numbered in the order of the size rows
  Soni,         \* product quantities a user enters
  Distribution, \* numbers of Pattas per size that a user enters
  MaxNumber,    \* the sequence of Patta numbers ends here (MAX_POSTGRES_BIGINT)
  BlockNumber,  \* numbers of blocks that devices hold, beyond the sequence
  LegacyNumber, \* Pattas from before batches, of unknown quantity
  MaxVersion    \* bound on the versions of a batch, a Patta and a sheet

ASSUME DocumentsAssumption ==
  /\ Razmer \subseteq Nat \ {0} /\ IsFiniteSet(Razmer) /\ 1 \in Razmer
  /\ Soni \subseteq Nat \ {0}
  /\ Distribution \subseteq {target \in [Razmer -> Nat] : \E z \in Razmer : target[z] > 0}
  /\ MaxNumber \in Nat \ {0} /\ MaxVersion \in Nat \ {0}
  /\ BlockNumber \cup LegacyNumber \subseteq Nat \ (0 .. MaxNumber)
  /\ BlockNumber \cap LegacyNumber = {} /\ IsFiniteSet(BlockNumber \cup LegacyNumber)
  /\ "none" \notin Batch \cup Kind

VARIABLES
  batches,    \* patta_print_batches with their size rows
  pattas,     \* patta_hisob, by Patta number
  sheets,     \* patta_sheets with the quantity of their live rows
  prints,     \* patta_print_events
  nextPatta,  \* patta_number_sequence.next_number
  req,        \* what each request asked for
  stage,      \* the statement it has come to
  want,       \* the row locks this statement has still to take
  held,       \* the row locks each request holds
  elders,     \* the requests in progress when each request began
  overtaken   \* sheets written by a transaction that began after this one

data == <<batches, pattas, sheets, prints, nextPatta>>
vars == <<data, req, stage, want, held, elders, overtaken>>

Number == (1 .. MaxNumber) \cup BlockNumber \cup LegacyNumber
Absent == [state |-> "absent"]
Idle == [kind |-> "none"]
NoNumber == 0                   \* patta_hisob_id of a standalone sheet
Unknown == 0                    \* ish_soni NULL

Present(row) == row # Absent
Active(b) == {n \in Number : Present(pattas[n]) /\ pattas[n].batch = b /\ pattas[n].status = "ACTIVE"}

SheetsOf(numbers) == {s \in Sheet : Present(sheets[s]) /\ sheets[s].patta \in numbers}

NewPatta(b, razmer, soni) ==
  [batch |-> b, razmer |-> razmer, soni |-> soni, status |-> "ACTIVE", version |-> 1]
\* updates counts the updates of a standalone sheet, which nothing else tells apart.
NewSheet(n, razmer, soni) ==
  [patta |-> n, razmer |-> razmer, soni |-> soni, rows |-> soni, updates |-> 0, trashed |-> FALSE, version |-> 1]

Init ==
  /\ batches = [b \in Batch |-> Absent]
  /\ pattas = [n \in Number |->
       IF n \in LegacyNumber THEN NewPatta("none", 1, Unknown) ELSE Absent]
  /\ sheets = [s \in Sheet |-> Absent]
  /\ prints = [p \in PrintEvent |-> Absent]
  /\ nextPatta = 1
  /\ req = [r \in Request |-> Idle]
  /\ stage = [r \in Request |-> "none"]
  /\ want = [r \in Request |-> <<>>]
  /\ held = [r \in Request |-> {}]
  /\ elders = [r \in Request |-> {}]
  /\ overtaken = [r \in Request |-> {}]

(***************************************************************************)
(* Transactions: SELECT ... FOR UPDATE, waiting, ROLLBACK and COMMIT.      *)
(***************************************************************************)
BatchRow(b) == <<"batch", b>>
PattaRow(n) == <<"patta", n>>
SheetRow(s) == <<"sheet", s>>
SheetRows(s) == <<"rows", s>>
PartiyaSequence == <<"sequence", "partiya">>
PattaSequence == <<"sequence", "patta">>

\* The elements of a finite set, the i-th of them being the one that i elements
\* are not after.
InOrder(S, notAfter) ==
  [i \in 1 .. Cardinality(S) |-> CHOOSE x \in S : Cardinality({y \in S : <<y, x>> \in notAfter}) = i]

InNumberOrder(numbers) == InOrder(numbers, {p \in numbers \X numbers : p[1] <= p[2]})
PattaRows(numbers) == [i \in 1 .. Cardinality(numbers) |-> PattaRow(InNumberOrder(numbers)[i])]

\* The sheets of some Pattas, in the order of their Pattas.
SheetRowsOf(numbers) ==
  LET entered == {sheets[s].patta : s \in SheetsOf(numbers)}
      sheetOf(n) == CHOOSE s \in SheetsOf(numbers) : sheets[s].patta = n
  IN  [i \in 1 .. Cardinality(entered) |-> SheetRow(sheetOf(InNumberOrder(entered)[i]))]

\* Request r runs its next statement, which locks these rows one by one.
Statement(r, next, rows) ==
  /\ stage' = [stage EXCEPT ![r] = next]
  /\ want' = [want EXCEPT ![r] = rows]
  /\ UNCHANGED <<data, req, held, elders, overtaken>>

Begin(r, ask, first, rows) ==
  /\ req[r] = Idle /\ ask.kind \in Kind
  /\ req' = [req EXCEPT ![r] = ask]
  /\ stage' = [stage EXCEPT ![r] = first]
  /\ want' = [want EXCEPT ![r] = rows]
  /\ elders' = [elders EXCEPT ![r] = {q \in Request : req[q] # Idle}]
  /\ UNCHANGED <<data, held, overtaken>>

\* Request r is over: its locks are released.
End(r) ==
  /\ req' = [req EXCEPT ![r] = Idle]
  /\ stage' = [stage EXCEPT ![r] = "none"]
  /\ want' = [want EXCEPT ![r] = <<>>]
  /\ held' = [held EXCEPT ![r] = {}]
  /\ elders' = [q \in Request |-> IF q = r THEN {} ELSE elders[q] \ {r}]

\* Request r ends and writes nothing: an error, or the answer of an earlier one.
Refuse(r) ==
  /\ End(r)
  /\ overtaken' = [overtaken EXCEPT ![r] = {}]
  /\ UNCHANGED data

\* A commit stamps the sheets it wrote with the time its transaction began, so
\* that a transaction begun earlier now carries an earlier time than the row.
Commit(r, written) ==
  /\ End(r)
  /\ overtaken' = [q \in Request |->
       IF q = r THEN {} ELSE IF q \in elders[r] THEN overtaken[q] \cup written ELSE overtaken[q]]

\* The locks a request holds and those its statement is going to take.
Promised(r) == held[r] \cup {want[r][i] : i \in 1 .. Len(want[r])}

At(r, kind, reached) ==
  /\ req[r].kind = kind
  /\ stage[r] = reached
  /\ want[r] = <<>>

\* Mutant: a lock is taken whoever holds it.
AcquireHeld(r) ==
  /\ req[r] # Idle
  /\ want[r] # <<>>
  /\ held' = [held EXCEPT ![r] = @ \cup {Head(want[r])}]
  /\ want' = [want EXCEPT ![r] = Tail(@)]
  /\ UNCHANGED <<data, req, stage, elders, overtaken>>

Acquire(r) ==
  /\ req[r] # Idle
  /\ want[r] # <<>>
  /\ \A q \in Request \ {r} : Head(want[r]) \notin held[q]
  /\ held' = [held EXCEPT ![r] = @ \cup {Head(want[r])}]
  /\ want' = [want EXCEPT ![r] = Tail(@)]
  /\ UNCHANGED <<data, req, stage, elders, overtaken>>

WaitsFor(r, q) ==
  /\ q # r
  /\ req[r] # Idle
  /\ want[r] # <<>>
  /\ Head(want[r]) \in held[q]

Deadlocked(R) == R # {} /\ \A r \in R : \E q \in R : WaitsFor(r, q)

\* PostgreSQL aborts one transaction of a cycle of waits.
AbortVictim(r) == (\E R \in SUBSET Request : r \in R /\ Deadlocked(R)) /\ Refuse(r)

\* The connection is lost before COMMIT.
RollBack(r) ==
  /\ req[r] # Idle
  /\ ~(stage[r] = "write" /\ want[r] = <<>>)
  /\ Refuse(r)

(***************************************************************************)
(* Print batches: create, registration of an offline batch, correction.    *)
(***************************************************************************)
\* The places of a distribution: count[z] of them for the size z.
Places(count) == UNION {{z} \X (1 .. count[z]) : z \in Razmer}
PlaceOrder(places) ==
  {p \in places \X places : p[1][1] < p[2][1] \/ (p[1][1] = p[2][1] /\ p[1][2] <= p[2][2])}

\* Mutant: every row of the same size.
SlotsOfFirstSize(count) == [i \in 1 .. Cardinality(Places(count)) |-> InNumberOrder(Razmer)[1]]

\* One size per Patta, in the order of the size rows.
Slots(count) ==
  [i \in 1 .. Cardinality(Places(count)) |-> InOrder(Places(count), PlaceOrder(Places(count)))[i][1]]

\* A block number is used by one event only (NumberBlocks shows it of devices).
Claiming == {"register", "register_one", "correct_offline"}
Unclaimed(numbers) ==
  \A q \in Request : req[q].kind \in Claiming => DOMAIN req[q].sizes \cap numbers = {}
Unused(numbers) == \A n \in numbers : pattas[n] = Absent
Fresh(b) ==
  batches[b] = Absent /\ \A q \in Request : req[q].kind \in {"create", "register"} => req[q].batch # b

CountOf(sizes, z) == Cardinality({n \in DOMAIN sizes : sizes[n] = z})

\* The sizes that a device may print on these numbers of its blocks.
OfflineSizes(numbers, count) == {sizes \in [numbers -> Razmer] : \A z \in Razmer : CountOf(sizes, z) = count[z]}

BeginCreate(r) ==
  \E b \in Batch, soni \in Soni, target \in Distribution :
    /\ Fresh(b)
    /\ Begin(r, [kind |-> "create", batch |-> b, soni |-> soni, target |-> target, first |-> NoNumber],
             "numbers", <<PartiyaSequence, PattaSequence>>)

\* The next number of the sequence is read, and counted on from at the write.
ReadSequence(r) ==
  /\ req' = [req EXCEPT ![r] = [@ EXCEPT !.first = nextPatta]]
  /\ stage' = [stage EXCEPT ![r] = "write"]
  /\ want' = [want EXCEPT ![r] = <<>>]
  /\ UNCHANGED <<data, held, elders, overtaken>>

TakeNumbers(r) ==
  /\ At(r, "create", "numbers")
  /\ IF nextPatta + Len(Slots(req[r].target)) - 1 >= MaxNumber THEN Refuse(r) ELSE ReadSequence(r)

\* A device registers the batch it printed offline, with the size on each number.
BeginRegister(r) ==
  \E b \in Batch, soni \in Soni, target \in Distribution, numbers \in SUBSET BlockNumber :
    /\ Fresh(b) /\ Unclaimed(numbers) /\ Unused(numbers)
    /\ \E sizes \in OfflineSizes(numbers, target) :
         Begin(r, [kind |-> "register", batch |-> b, soni |-> soni, target |-> target, sizes |-> sizes], "write", <<>>)

\* A device of the first protocol registers a Patta that belongs to no batch.
BeginRegisterOne(r) ==
  \E n \in BlockNumber, soni \in Soni, z \in Razmer :
    /\ Unclaimed({n}) /\ Unused({n})
    /\ Begin(r, [kind |-> "register_one", soni |-> soni, sizes |-> [m \in {n} |-> z]], "write", <<>>)

SizesOf(b) == [n \in Active(b) |-> pattas[n].razmer]

Kept(sizes, target) ==
  {n \in DOMAIN sizes : Cardinality({m \in DOMAIN sizes : m <= n /\ sizes[m] = sizes[n]}) <= target[sizes[n]]}

\* Which Pattas of these sizes keep theirs, which take another one, and which
\* are too many, or missing, for a distribution.
Assignment(sizes, target) ==
  LET kept == Kept(sizes, target)
      unmatched == InNumberOrder(DOMAIN sizes \ kept)
      open == Slots([z \in Razmer |-> target[z] - Cardinality({n \in kept : sizes[n] = z})])
      moved == IF Len(unmatched) <= Len(open) THEN Len(unmatched) ELSE Len(open)
  IN  [moves    |-> [n \in {unmatched[i] : i \in 1 .. moved} |->
                       open[CHOOSE i \in 1 .. moved : unmatched[i] = n]],
       surplus  |-> {unmatched[i] : i \in (moved + 1) .. Len(unmatched)},
       deficits |-> SubSeq(open, moved + 1, Len(open))]

Plan(a) == Assignment(SizesOf(a.batch), a.target)

\* A correction from the browser names no Pattas.  One from a device lists the
\* Pattas as the device expects them, the added ones under its block numbers;
\* sizes holds those.
Correction(kind, b, expected, soni, target, sizes) ==
  [kind |-> kind, batch |-> b, expected |-> expected, soni |-> soni, target |-> target, sizes |-> sizes,
   first |-> NoNumber]

BeginCorrect(r) ==
  \E b \in Batch, soni \in Soni, target \in Distribution :
    /\ batches[b] # Absent
    /\ \E expected \in 1 .. batches[b].version :
         /\ expected < MaxVersion
         /\ Begin(r, Correction("correct", b, expected, soni, target, <<>>), "batch", <<BatchRow(b)>>)

BeginCorrectOffline(r) ==
  \E b \in Batch, soni \in Soni, target \in Distribution, numbers \in SUBSET BlockNumber :
    /\ batches[b] # Absent
    /\ Unclaimed(numbers)
    /\ \E expected \in 1 .. batches[b].version, sizes \in [numbers -> Razmer] :
         /\ expected < MaxVersion
         /\ \A z \in Razmer : CountOf(sizes, z) <= target[z]
         /\ Begin(r, Correction("correct_offline", b, expected, soni, target, sizes), "batch", <<BatchRow(b)>>)

Correcting(r, reached) == At(r, "correct", reached) \/ At(r, "correct_offline", reached)

CorrectBatch(r) ==
  /\ Correcting(r, "batch")
  /\ IF batches[req[r].batch].version = req[r].expected
     THEN Statement(r, "pattas", PattaRows(Active(req[r].batch)))
     ELSE Refuse(r)

CorrectEntries(r) ==
  /\ Correcting(r, "pattas")
  /\ Statement(r, "entries", SheetRowsOf(Active(req[r].batch)))

\* A Patta with a sheet, trashed or not, keeps its size and stays ACTIVE.
InUse(plan) == SheetsOf(DOMAIN plan.moves \cup plan.surplus) # {}

\* The Pattas a device added are the ones this batch, as it is now, needs.
Submitted(plan, sizes) ==
  /\ Unused(DOMAIN sizes)
  /\ \A z \in Razmer : CountOf(sizes, z) = CountOf(plan.deficits, z)

\* Mutant: a correction counts on without the lock of the sequence.
AllocateUnlocked(r) ==
  /\ Correcting(r, "entries")
  /\ LET plan == Plan(req[r])
     IN  IF InUse(plan) \/ (req[r].kind = "correct_offline" /\ ~Submitted(plan, req[r].sizes))
         THEN Refuse(r)
         ELSE IF nextPatta + Len(plan.deficits) - 1 < MaxNumber THEN ReadSequence(r) ELSE Refuse(r)

CorrectAssign(r) ==
  /\ Correcting(r, "entries")
  /\ LET plan == Plan(req[r])
     IN  CASE InUse(plan) -> Refuse(r)
           [] ~InUse(plan) /\ req[r].kind = "correct_offline" ->
                IF Submitted(plan, req[r].sizes) THEN Statement(r, "write", <<>>) ELSE Refuse(r)
           [] ~InUse(plan) /\ req[r].kind = "correct" ->
                IF plan.deficits = <<>> THEN Statement(r, "write", <<>>) ELSE Statement(r, "numbers", <<PattaSequence>>)

AllocateCorrectionPattaNumbers(r) ==
  /\ At(r, "correct", "numbers")
  /\ LET missing == Len(Plan(req[r]).deficits)
     IN  IF nextPatta + missing - 1 >= MaxNumber THEN Refuse(r) ELSE ReadSequence(r)

BeginLegacy(r) ==
  \E n \in LegacyNumber, soni \in Soni, expected \in {1, 2} :
    Begin(r, [kind |-> "legacy", patta |-> n, soni |-> soni, expected |-> expected], "patta", <<PattaRow(n)>>)

LegacyEntries(r) ==
  /\ At(r, "legacy", "patta")
  /\ IF pattas[req[r].patta].soni = Unknown /\ pattas[req[r].patta].version = req[r].expected
     THEN Statement(r, "write", SheetRowsOf({req[r].patta}))
     ELSE Refuse(r)

\* REQUESTED is recorded like FAILED: it leaves the batch alone.
PrintOutcome == {"SUCCEEDED", "FAILED"}

\* Mutant: the revision is compared before the batch is locked.
BeginPrintUnlocked(r) ==
  \E p \in PrintEvent, b \in Batch, outcome \in PrintOutcome :
    /\ batches[b] # Absent /\ prints[p] = Absent
    /\ Begin(r, [kind |-> "print", event |-> p, batch |-> b, revision |-> batches[b].version, outcome |-> outcome],
             "write", <<BatchRow(b)>>)

BeginPrint(r) ==
  \E p \in PrintEvent, b \in Batch, revision \in 1 .. MaxVersion, outcome \in PrintOutcome :
    /\ batches[b] # Absent /\ revision <= batches[b].version
    /\ Begin(r, [kind |-> "print", event |-> p, batch |-> b, revision |-> revision, outcome |-> outcome],
             "batch", <<BatchRow(b)>>)

PrintBatch(r) ==
  /\ At(r, "print", "batch")
  /\ IF prints[req[r].event] = Absent /\ batches[req[r].batch].version = req[r].revision
     THEN Statement(r, "write", <<>>)
     ELSE Refuse(r)

(***************************************************************************)
(* Sheets: create, update, trash, restore, purge.                          *)
(***************************************************************************)
\* The device chooses the identity of a new sheet, for one creation.
Entering == {"create_linked", "create_standalone", "reuse",
             "edit_linked", "edit_standalone", "trash", "restore", "purge"}
FreshSheet(s) ==
  /\ sheets[s] = Absent
  /\ \A q \in Request : req[q].kind \in Entering => req[q].sheet # s
  /\ \A q \in Request : SheetRow(s) \notin Promised(q)

BeginCreateLinked(r) ==
  \E s \in Sheet, n \in Number :
    /\ FreshSheet(s)
    /\ pattas[n] # Absent
    /\ Begin(r, [kind |-> "create_linked", sheet |-> s, patta |-> n], "patta", <<PattaRow(n)>>)

CreateLinkedPatta(r) ==
  /\ At(r, "create_linked", "patta")
  /\ LET n == req[r].patta
     IN  IF pattas[n].status = "ACTIVE" /\ pattas[n].soni # Unknown
         THEN Statement(r, "prior", SheetRowsOf({n}))
         ELSE Refuse(r)

\* A Patta has one sheet for good: a live one is answered as it is, a trashed
\* one refuses the creation.
CreateLinkedPrior(r) ==
  /\ At(r, "create_linked", "prior")
  /\ IF SheetsOf({req[r].patta}) = {} THEN Statement(r, "write", <<>>) ELSE Refuse(r)

BeginCreateStandalone(r) ==
  \E s \in Sheet, soni \in Soni :
    /\ FreshSheet(s)
    /\ Begin(r, [kind |-> "create_standalone", sheet |-> s, soni |-> soni], "write", <<>>)

Live(s, expected) == Present(sheets[s]) /\ sheets[s].version = expected

\* The caller names the version it saw, which may be one that is gone.
OnSheet(r, kind, s) ==
  \E expected \in 1 .. MaxVersion - 1 :
    /\ expected <= sheets[s].version
    /\ Begin(r, [kind |-> kind, sheet |-> s, expected |-> expected], "sheet", <<SheetRow(s)>>)

BeginOnSheet(r) ==
  \E kind \in {"reuse", "edit_linked", "trash", "restore", "purge"}, s \in Sheet :
    /\ Present(sheets[s])
    /\ kind = "edit_linked" => sheets[s].patta # NoNumber
    /\ OnSheet(r, kind, s)

\* The UPDATE event of a device carries the whole sheet: what it says of the
\* Trash, against what an unlocked read finds, decides which operation it is.
ApplyUpdateEvent(r) ==
  \E s \in Sheet, deleted \in BOOLEAN :
    /\ Present(sheets[s]) /\ sheets[s].patta # NoNumber
    /\ IF deleted = sheets[s].trashed THEN OnSheet(r, "edit_linked", s)
       ELSE IF deleted THEN OnSheet(r, "trash", s) ELSE OnSheet(r, "restore", s)

EditLinked(r) ==
  /\ At(r, "edit_linked", "sheet")
  /\ LET s == req[r].sheet
     IN  IF Live(s, req[r].expected) /\ ~sheets[s].trashed
         THEN Statement(r, "patta", <<PattaRow(sheets[s].patta)>>)
         ELSE Refuse(r)

EditLinkedPatta(r) ==
  /\ At(r, "edit_linked", "patta")
  /\ LET n == sheets[req[r].sheet].patta
     IN  IF pattas[n].status = "ACTIVE" /\ pattas[n].soni # Unknown
         THEN Statement(r, "write", <<>>)
         ELSE Refuse(r)

\* The update of a standalone sheet checks it without a lock.
BeginEditStandalone(r) ==
  \E s \in Sheet :
    /\ Present(sheets[s]) /\ sheets[s].patta = NoNumber /\ ~sheets[s].trashed
    /\ sheets[s].version < MaxVersion
    /\ Begin(r, [kind |-> "edit_standalone", sheet |-> s, expected |-> sheets[s].version],
             "write", <<SheetRows(s), SheetRow(s)>>)

\* A standalone creation that is sent again finds its sheet (PATTA_SHEET_ID_REUSED).
\* One that waits for a purge of it would create it anew, which is left out.
Reused(r) == At(r, "reuse", "sheet") /\ Refuse(r)

SetTrashed(r) ==
  /\ At(r, "trash", "sheet") \/ At(r, "restore", "sheet")
  /\ IF Live(req[r].sheet, req[r].expected) /\ sheets[req[r].sheet].trashed = (req[r].kind = "restore")
     THEN Statement(r, "write", <<>>)
     ELSE Refuse(r)

\* Mutant: the purge locks the Patta too.
PurgePattaToo(r) ==
  /\ At(r, "purge", "sheet")
  /\ IF Live(req[r].sheet, req[r].expected) /\ sheets[req[r].sheet].trashed
     THEN Statement(r, "write", <<PattaRow(sheets[req[r].sheet].patta), SheetRows(req[r].sheet)>>)
     ELSE Refuse(r)

Purge(r) ==
  /\ At(r, "purge", "sheet")
  /\ IF Live(req[r].sheet, req[r].expected) /\ sheets[req[r].sheet].trashed
     THEN Statement(r, "write", <<SheetRows(req[r].sheet)>>)
     ELSE Refuse(r)

\* The user may not correct: the batch, or the Patta, is locked by then.
NotPermitted(r) ==
  /\ Correcting(r, "batch") \/ Correcting(r, "entries") \/ At(r, "legacy", "patta")
  /\ Refuse(r)

\* The operations of the model, or its prices, are not those the sheet shows.
RejectSnapshots(r) ==
  /\ At(r, "create_linked", "prior") \/ At(r, "edit_linked", "patta")
  /\ Refuse(r)

\* A worker is unknown or inactive, or the rows of an operation pass its quantity.
RejectRows(r) ==
  /\ At(r, "create_linked", "prior") \/ At(r, "edit_linked", "patta")
  /\ Refuse(r)

(***************************************************************************)
(* The writes, and the triggers that judge them.                           *)
(***************************************************************************)
\* The database after a write.
After(b, p, s, e, n) == [batches |-> b, pattas |-> p, sheets |-> s, prints |-> e, nextPatta |-> n]

NewBatch(a) == [soni |-> a.soni, target |-> a.target, version |-> 1, printed |-> FALSE]
\* These Pattas with new ones of these sizes inserted; PattasMatch stands for the
\* unique key, which refuses a number that is there already.
Inserted(old, b, soni, sizes) ==
  [n \in Number |-> IF n \in DOMAIN sizes THEN NewPatta(b, sizes[n], soni) ELSE old[n]]

\* The numbers from the one that was read, one per slot, and the sequence after them.
NextNumbers(first, slots) == [n \in first .. (first + Len(slots) - 1) |-> slots[n - first + 1]]

\* Mutant: the sequence is not written back.
SequenceNotAdvanced(first, slots) == nextPatta

SequenceAfter(first, slots) == IF slots = <<>> THEN nextPatta ELSE first + Len(slots)

Created(a) ==
  LET slots == Slots(a.target)
  IN  After([batches EXCEPT ![a.batch] = NewBatch(a)],
            Inserted(pattas, a.batch, a.soni, NextNumbers(a.first, slots)), sheets, prints, SequenceAfter(a.first, slots))

Registered(a) ==
  After([batches EXCEPT ![a.batch] = NewBatch(a)], Inserted(pattas, a.batch, a.soni, a.sizes), sheets, prints, nextPatta)

RegisteredOne(a) == After(batches, Inserted(pattas, "none", a.soni, a.sizes), sheets, prints, nextPatta)

SheetWithSoni(sheet, soni) == [sheet EXCEPT !.soni = soni, !.rows = soni, !.version = @ + 1]

\* Mutant: trashed sheets keep their quantity.
RequantifiedLive(numbers, soni) ==
  [s \in Sheet |-> IF s \in SheetsOf(numbers) /\ ~sheets[s].trashed THEN SheetWithSoni(sheets[s], soni) ELSE sheets[s]]

\* correctQuantitySnapshots: the parent and its rows, trashed or not.
Requantified(numbers, soni) ==
  [s \in Sheet |-> IF s \in SheetsOf(numbers) THEN SheetWithSoni(sheets[s], soni) ELSE sheets[s]]

PattaVoid(patta) == [patta EXCEPT !.status = "VOID", !.version = @ + 1]
PattaWithSoni(patta, soni) == [patta EXCEPT !.soni = soni, !.version = @ + 1]
PattaMoved(patta, soni, razmer) == [patta EXCEPT !.soni = soni, !.razmer = razmer, !.version = @ + 1]

Recounted(plan, soni, n) ==
  IF n \in plan.surplus THEN PattaVoid(pattas[n])
  ELSE IF n \in DOMAIN plan.moves THEN PattaMoved(pattas[n], soni, plan.moves[n])
  ELSE PattaWithSoni(pattas[n], soni)

BatchCorrected(batch, a) == [batch EXCEPT !.soni = a.soni, !.target = a.target, !.version = @ + 1]

Corrected(a) ==
  LET plan == Plan(a)
      added == IF a.kind = "correct" THEN NextNumbers(a.first, plan.deficits) ELSE a.sizes
      written == [n \in Number |-> IF n \in Active(a.batch) THEN Recounted(plan, a.soni, n) ELSE pattas[n]]
  IN  After([batches EXCEPT ![a.batch] = BatchCorrected(@, a)],
            Inserted(written, a.batch, a.soni, added),
            IF batches[a.batch].soni = a.soni THEN sheets ELSE Requantified(Active(a.batch), a.soni), prints,
            IF a.kind = "correct" THEN SequenceAfter(a.first, plan.deficits) ELSE nextPatta)

LegacyCorrected(a) ==
  After(batches, [pattas EXCEPT ![a.patta] = PattaWithSoni(@, a.soni)],
        Requantified({a.patta}, a.soni), prints, nextPatta)

EventOf(a) == [batch |-> a.batch, revision |-> a.revision, outcome |-> a.outcome]

BatchPrinted(batch, outcome) == [batch EXCEPT !.printed = @ \/ outcome = "SUCCEEDED"]

Printed(a) ==
  After([batches EXCEPT ![a.batch] = BatchPrinted(@, a.outcome)], pattas, sheets,
        [prints EXCEPT ![a.event] = EventOf(a)], nextPatta)

\* Only a sheet changes.
WithSheet(s, sheet) == After(batches, pattas, [sheets EXCEPT ![s] = sheet], prints, nextPatta)

LinkedCreated(a) == WithSheet(a.sheet, NewSheet(a.patta, pattas[a.patta].razmer, pattas[a.patta].soni))
StandaloneCreated(a) == WithSheet(a.sheet, NewSheet(NoNumber, 0, a.soni))

\* An update replaces the rows, which take the quantity of the Patta, or of the sheet.
LinkedEdited(a) ==
  WithSheet(a.sheet, [sheets[a.sheet] EXCEPT !.rows = pattas[sheets[a.sheet].patta].soni, !.version = a.expected + 1])

StandaloneEdited(a) ==
  WithSheet(a.sheet, [sheets[a.sheet] EXCEPT !.rows = sheets[a.sheet].soni, !.updates = @ + 1, !.version = a.expected + 1])

Trashed(a, trashed) == WithSheet(a.sheet, [sheets[a.sheet] EXCEPT !.trashed = trashed, !.version = a.expected + 1])
Removed(a) == WithSheet(a.sheet, Absent)

Corrections == {"correct", "correct_offline"}

Outcome(a) ==
  CASE a.kind = "create"            -> Created(a)
    [] a.kind = "register"          -> Registered(a)
    [] a.kind = "register_one"      -> RegisteredOne(a)
    [] a.kind \in Corrections       -> Corrected(a)
    [] a.kind = "legacy"            -> LegacyCorrected(a)
    [] a.kind = "print"             -> Printed(a)
    [] a.kind = "create_linked"     -> LinkedCreated(a)
    [] a.kind = "create_standalone" -> StandaloneCreated(a)
    [] a.kind = "edit_linked"       -> LinkedEdited(a)
    [] a.kind = "edit_standalone"   -> StandaloneEdited(a)
    [] a.kind = "trash"             -> Trashed(a, TRUE)
    [] a.kind = "restore"           -> Trashed(a, FALSE)
    [] a.kind = "purge"             -> Removed(a)

\* The sheets whose rows a request's outcome changes or deletes.
Touched(after) == {s \in Sheet : after.sheets[s] # sheets[s]}

\* validate_patta_print_batch_contents, at COMMIT.
ContentsMatch(after) ==
  \A b \in Batch : after.batches[b] # Absent =>
    LET active == {n \in Number : /\ Present(after.pattas[n])
                                  /\ after.pattas[n].batch = b /\ after.pattas[n].status = "ACTIVE"}
    IN  /\ Cardinality(active) = Cardinality(Places(after.batches[b].target))
        /\ \A n \in active : after.pattas[n].soni = after.batches[b].soni

\* guard_patta_print_batch_mutation and guard_patta_hisob_correction: versions
\* one by one, and a print of the present revision that only sets printed_at.
BatchesMatch(after) ==
  \A b \in Batch : batches[b] # Absent /\ after.batches[b] # batches[b] =>
    \/ after.batches[b].version = batches[b].version + 1 /\ after.batches[b].printed = batches[b].printed
    \/ /\ after.batches[b] = [batches[b] EXCEPT !.printed = TRUE]
       /\ \E p \in PrintEvent : after.prints[p] = EventOf(
            [batch |-> b, revision |-> batches[b].version, outcome |-> "SUCCEEDED"])

PattasMatch(after) ==
  \A n \in Number : Present(pattas[n]) /\ after.pattas[n] # pattas[n] =>
    after.pattas[n].version = pattas[n].version + 1

\* guard_patta_sheet_mutation and guard_patta_sheet_row_mutation: a new sheet
\* agrees with an ACTIVE Patta that has no other; a changed one is one version
\* further, and its rows, unless it was only trashed or restored, agree with it
\* and with its Patta; only a trashed one is deleted.
QuantityOf(after, sheet) == IF sheet.patta = NoNumber THEN sheet.soni ELSE after.pattas[sheet.patta].soni

InsertMatches(after, s) ==
  LET new == after.sheets[s]
  IN  new.patta # NoNumber =>
        /\ after.pattas[new.patta].status = "ACTIVE"
        /\ new.soni = after.pattas[new.patta].soni
        /\ new.razmer = after.pattas[new.patta].razmer
        /\ \A t \in Sheet : Present(sheets[t]) => sheets[t].patta # new.patta

\* Mutant: the trigger does not compare versions.
UpdateMatchesAnyVersion(after, s) ==
  LET new == after.sheets[s]
  IN  new.trashed = sheets[s].trashed => new.rows = new.soni /\ new.soni = QuantityOf(after, new)

UpdateMatches(after, s) ==
  LET new == after.sheets[s]
  IN  /\ new.version = sheets[s].version + 1
      /\ new.soni # sheets[s].soni => new.patta # NoNumber /\ new.soni = QuantityOf(after, new)
      /\ new.trashed = sheets[s].trashed => new.rows = new.soni /\ new.soni = QuantityOf(after, new)

SheetsMatch(after) ==
  \A s \in Touched(after) :
    CASE sheets[s] = Absent        -> InsertMatches(after, s)
      [] after.sheets[s] = Absent  -> sheets[s].trashed
      [] OTHER                     -> UpdateMatches(after, s)

\* The rows of a trashed sheet are written only by a correction.
RowsWritable(a) == a.kind \in {"edit_linked", "edit_standalone"} => ~sheets[a.sheet].trashed

\* updated_at, the time this transaction began, is not before the row's.
TimesMatch(r, after) == \A s \in Touched(after) : after.sheets[s] # Absent => s \notin overtaken[r]

\* The sheet an unlocked check found may be gone, and the print event recorded
\* by a request that locked another batch: its identity is the primary key.
Found(a) ==
  /\ a.kind = "edit_standalone" => Present(sheets[a.sheet])
  /\ a.kind = "print" => prints[a.event] = Absent

GuardsAccept(a, after) ==
  ContentsMatch(after) /\ BatchesMatch(after) /\ PattasMatch(after) /\ SheetsMatch(after) /\ RowsWritable(a)

Writing(r) == req[r] # Idle /\ stage[r] = "write" /\ want[r] = <<>>

Write(r) ==
  /\ Writing(r)
  /\ LET after == Outcome(req[r])
     IN  IF Found(req[r]) /\ GuardsAccept(req[r], after) /\ TimesMatch(r, after)
         THEN /\ batches' = after.batches
              /\ pattas' = after.pattas
              /\ sheets' = after.sheets
              /\ prints' = after.prints
              /\ nextPatta' = after.nextPatta
              /\ Commit(r, Touched(after))
         ELSE Refuse(r)

Next ==
  \E r \in Request :
    \/ BeginCreate(r) \/ BeginRegister(r) \/ BeginRegisterOne(r)
    \/ BeginCorrect(r) \/ BeginCorrectOffline(r) \/ BeginLegacy(r) \/ BeginPrint(r)
    \/ BeginCreateLinked(r) \/ BeginCreateStandalone(r)
    \/ BeginOnSheet(r) \/ ApplyUpdateEvent(r) \/ BeginEditStandalone(r)
    \/ TakeNumbers(r) \/ CorrectBatch(r) \/ CorrectEntries(r) \/ CorrectAssign(r)
    \/ AllocateCorrectionPattaNumbers(r) \/ LegacyEntries(r) \/ PrintBatch(r)
    \/ CreateLinkedPatta(r) \/ CreateLinkedPrior(r) \/ EditLinked(r) \/ EditLinkedPatta(r)
    \/ Reused(r) \/ SetTrashed(r) \/ Purge(r)
    \/ NotPermitted(r) \/ RejectSnapshots(r) \/ RejectRows(r)
    \/ Acquire(r) \/ AbortVictim(r) \/ RollBack(r) \/ Write(r)

Spec == Init /\ [][Next]_vars

(***************************************************************************)
(* Properties                                                              *)
(***************************************************************************)
BatchRecord == [soni : Soni, target : Distribution, version : 1 .. MaxVersion, printed : BOOLEAN]
PattaRecord == [batch : Batch \cup {"none"}, razmer : Razmer, soni : Soni \cup {Unknown},
                status : {"ACTIVE", "VOID"}, version : Nat \ {0}]
SheetRecord == [patta : Number \cup {NoNumber}, razmer : Razmer \cup {0}, soni : Soni, rows : Soni,
                updates : Nat, trashed : BOOLEAN, version : Nat \ {0}]
PrintRecord == [batch : Batch, revision : 1 .. MaxVersion, outcome : PrintOutcome]
Rows == {BatchRow(b) : b \in Batch} \cup {PattaRow(n) : n \in Number} \cup {PartiyaSequence, PattaSequence}
          \cup {SheetRow(s) : s \in Sheet} \cup {SheetRows(s) : s \in Sheet}

\* The types of the tables and of the requests; a lock has one holder.
TypeOK ==
  /\ batches \in [Batch -> BatchRecord \cup {Absent}]
  /\ pattas \in [Number -> PattaRecord \cup {Absent}]
  /\ sheets \in [Sheet -> SheetRecord \cup {Absent}]
  /\ prints \in [PrintEvent -> PrintRecord \cup {Absent}]
  /\ nextPatta \in 1 .. MaxNumber
  /\ want \in [Request -> Seq(Rows)]
  /\ held \in [Request -> SUBSET Rows]
  /\ \A r, q \in Request : r # q => held[r] \cap held[q] = {}
  /\ elders \in [Request -> SUBSET Request]
  /\ overtaken \in [Request -> SUBSET Sheet]

\* A sheet linked to a Patta, trashed or not, has an ACTIVE Patta of its own,
\* and its quantity, that of its rows and its size are the Patta's, whatever
\* corrections, updates and lifecycle changes ran against each other.
QuantitiesAgree ==
  \A s \in Sheet : Present(sheets[s]) /\ sheets[s].patta # NoNumber =>
    LET patta == pattas[sheets[s].patta]
    IN  /\ patta.status = "ACTIVE"
        /\ sheets[s].soni = patta.soni /\ sheets[s].rows = patta.soni
        /\ sheets[s].razmer = patta.razmer
        /\ \A t \in Sheet \ {s} : Present(sheets[t]) => sheets[t].patta # sheets[s].patta

\* The ACTIVE Pattas of a batch are distributed over the sizes as its size rows
\* say and carry its quantity.  The database compares only the totals.
DistributionHolds ==
  \A b \in Batch : batches[b] # Absent =>
    /\ \A z \in Razmer : CountOf(SizesOf(b), z) = batches[b].target[z]
    /\ \A n \in Active(b) : pattas[n].soni = batches[b].soni

\* The sequence is ahead of every number it gave, creations and corrections
\* taken together, so that no number is printed on two Pattas.
SequenceIsAhead == \A n \in 1 .. MaxNumber : pattas[n] # Absent => n < nextPatta

\* A request that passed its service's checks, under its locks, is not refused
\* by a trigger.  Two exceptions: the update of a standalone sheet, which checks
\* without a lock, and a correction overtaken by a younger transaction that
\* wrote a sheet while the correction waited for it.
ServicesForesee ==
  \A r \in Request : Writing(r) /\ req[r].kind # "edit_standalone" =>
    LET after == Outcome(req[r])
    IN  GuardsAccept(req[r], after) /\ (req[r].kind \notin Corrections => TimesMatch(r, after))

\* A sheet is changed only by a request that named its current version, or by
\* the correction of its Patta; a batch only by one that named its version, or
\* by the first successful print.
StaleNeverWins ==
  [][/\ \A s \in Sheet : Present(sheets[s]) /\ sheets'[s] # sheets[s] =>
          \E r \in Request :
            /\ req[r] # Idle /\ req'[r] = Idle
            /\ \/ req[r].kind \in Corrections \cup {"legacy"}
               \/ req[r].sheet = s /\ req[r].expected = sheets[s].version
     /\ \A b \in Batch : batches[b] # Absent /\ batches'[b] # batches[b] =>
          \E r \in Request :
            /\ req[r] # Idle /\ req'[r] = Idle /\ req[r].batch = b
            /\ IF req[r].kind \in Corrections THEN req[r].expected = batches[b].version
                                         ELSE req[r].outcome = "SUCCEEDED"
    ]_vars

\* A batch counts as printed exactly when a print of it succeeded.
PrintedMeansSucceeded ==
  \A b \in Batch : batches[b] # Absent =>
    (batches[b].printed <=>
       \E p \in PrintEvent : prints[p] # Absent /\ prints[p].batch = b /\ prints[p].outcome = "SUCCEEDED")

\* A print event is recorded only for the revision that the batch has at that
\* moment, and leaves the batch alone unless it is its first success: after a
\* correction in between, what was printed is not what the batch says.
PrintsNameTheRevision ==
  [][\A p \in PrintEvent : prints[p] = Absent /\ prints'[p] # Absent =>
       LET b == prints'[p].batch
       IN  /\ prints'[p].revision = batches[b].version
           /\ batches'[b] = BatchPrinted(batches[b], prints'[p].outcome)]_vars

\* Requests wait on each other in a circle only when one of them updates the
\* rows of a sheet: only that operation takes its locks in another order.
CyclesNeedAnUpdate ==
  \A R \in SUBSET Request :
    Deadlocked(R) => \E r \in R : req[r].kind \in {"edit_linked", "edit_standalone"}

-----------------------------------------------------------------------------
(* The inductive invariant behind the types, QuantitiesAgree,              *)
(* SequenceIsAhead, PrintedMeansSucceeded and StaleNeverWins.  What a      *)
(* request asked for is bound as a member of {req[r]}.                     *)

Creating == {"create_linked", "create_standalone"}
Founding == {"create", "register"}
Changing == {"reuse", "edit_linked", "trash", "restore", "purge"}   \* under the lock of the sheet

Operations == Founding \cup Corrections \cup Entering \cup {"register_one", "legacy", "print"}

\* A request asks for what a caller may ask; what is new is still absent.
AskInv(a) ==
  /\ a.kind \in Operations \cup {"none"}
  /\ a.kind \in Founding \cup Corrections => a.batch \in Batch /\ a.soni \in Soni /\ a.target \in Distribution
  /\ a.kind \in Founding => ~Present(batches[a.batch])
  /\ a.kind \in Corrections => Present(batches[a.batch]) /\ a.expected \in 1 .. MaxVersion - 1
  /\ a.kind \in Claiming => /\ a.sizes \in [DOMAIN a.sizes -> Razmer]
                            /\ DOMAIN a.sizes \subseteq BlockNumber /\ a.soni \in Soni
  /\ a.kind = "legacy" => a.patta \in LegacyNumber /\ a.soni \in Soni
  /\ a.kind = "print" => /\ a.event \in PrintEvent /\ a.batch \in Batch /\ Present(batches[a.batch])
                         /\ a.revision \in 1 .. MaxVersion /\ a.outcome \in PrintOutcome
  /\ a.kind \in {"create"} \cup Corrections => /\ {"kind", "batch", "soni", "target", "first"} \subseteq DOMAIN a
                                             /\ a.first \in 0 .. MaxNumber
  /\ a.kind \in Corrections => "expected" \in DOMAIN a
  /\ a.kind \in Entering => a.sheet \in Sheet
  /\ a.kind \in Creating => ~Present(sheets[a.sheet])
  /\ a.kind = "edit_linked" /\ Present(sheets[a.sheet]) => sheets[a.sheet].patta # NoNumber
  /\ a.kind = "create_linked" => a.patta \in Number /\ Present(pattas[a.patta])
  /\ a.kind = "create_standalone" => a.soni \in Soni
  /\ a.kind \in Entering \ Creating => a.expected \in 1 .. MaxVersion - 1

RequestInv ==
  /\ req = [r \in Request |-> req[r]]
  /\ stage = [r \in Request |-> stage[r]]
  /\ \A r \in Request : (req[r].kind = "none" <=> req[r] = Idle) /\ \A a \in {req[r]} : AskInv(a)

\* A new batch is named by one request; so is a new sheet.
FreshInv ==
  \A r, q \in Request : r # q =>
    /\ req[r].kind \in Founding /\ req[q].kind \in Founding => req[r].batch # req[q].batch
    /\ req[r].kind \in Creating /\ req[q].kind \in Entering => req[r].sheet # req[q].sheet

\* The rows that the statements of a request have locked, or are locking.
CorrectionLocks(r, b) ==
  /\ stage[r] = "batch" => BatchRow(b) \in Promised(r)
  /\ stage[r] # "batch" => BatchRow(b) \in held[r]
  /\ stage[r] = "pattas" => \A n \in Active(b) : PattaRow(n) \in Promised(r)
  /\ stage[r] \notin {"batch", "pattas"} => \A n \in Active(b) : PattaRow(n) \in held[r]
  /\ stage[r] = "entries" => \A s \in SheetsOf(Active(b)) : SheetRow(s) \in Promised(r)
  /\ stage[r] \notin {"batch", "pattas", "entries"} => \A s \in SheetsOf(Active(b)) : SheetRow(s) \in held[r]

PattaLocks(r, n) ==
  /\ stage[r] = "patta" => PattaRow(n) \in Promised(r)
  /\ stage[r] # "patta" => PattaRow(n) \in held[r]

LockOf(r, a) ==
  /\ a.kind \in Corrections => CorrectionLocks(r, a.batch)
  /\ a.kind \in {"create", "correct"} /\ stage[r] = "numbers" => PattaSequence \in Promised(r)
  /\ a.kind \in {"legacy", "create_linked"} => PattaLocks(r, a.patta)
  /\ a.kind = "print" /\ stage[r] = "batch" => BatchRow(a.batch) \in Promised(r)
  /\ a.kind = "print" /\ stage[r] # "batch" => BatchRow(a.batch) \in held[r]
  /\ a.kind = "legacy" /\ stage[r] = "write" => \A s \in SheetsOf({a.patta}) : SheetRow(s) \in Promised(r)
  /\ a.kind \in Entering \ Creating => SheetRow(a.sheet) \in Promised(r)
  /\ a.kind \in Changing /\ stage[r] # "sheet" => SheetRow(a.sheet) \in held[r]

LockInv == \A r \in Request : \A a \in {req[r]} : LockOf(r, a)

\* What was found under a lock stays so while the lock is held.
FoundOf(r, a) ==
  /\ a.kind \in Corrections /\ stage[r] # "batch" => batches[a.batch].version = a.expected
  /\ a.kind \in Corrections /\ stage[r] \in {"numbers", "write"} => ~InUse(Plan(a))
  /\ a.kind = "correct" /\ stage[r] = "write" =>
       \/ Plan(a).deficits = <<>>
       \/ PattaSequence \in held[r] /\ a.first = nextPatta /\ a.first + Len(Plan(a).deficits) <= MaxNumber
  /\ a.kind = "create" /\ stage[r] = "write" =>
       PattaSequence \in held[r] /\ a.first = nextPatta /\ a.first + Len(Slots(a.target)) <= MaxNumber
  /\ a.kind = "print" /\ stage[r] # "batch" => batches[a.batch].version = a.revision
  /\ a.kind = "create_linked" /\ stage[r] # "patta" => pattas[a.patta].soni # Unknown
  /\ a.kind = "reuse" => stage[r] = "sheet"
  /\ a.kind \in Changing /\ stage[r] # "sheet" => Live(a.sheet, a.expected)

FoundInv == \A r \in Request : \A a \in {req[r]} : FoundOf(r, a)

\* Rows refer to rows: a linked sheet to a Patta, a print event to its batch, and
\* the Pattas of a batch have its quantity.  A Patta from before batches stays.
ReferenceInv ==
  /\ \A s \in Sheet : Present(sheets[s]) /\ sheets[s].patta # NoNumber => Present(pattas[sheets[s].patta])
  /\ \A b \in Batch : Present(batches[b]) => \A n \in Active(b) : pattas[n].soni = batches[b].soni
  /\ \A p \in PrintEvent : Present(prints[p]) => Present(batches[prints[p].batch])
  /\ \A n \in LegacyNumber : Present(pattas[n]) /\ pattas[n].batch = "none"

IInv ==
  /\ TypeOK /\ RequestInv /\ FreshInv /\ LockInv /\ FoundInv /\ ReferenceInv
  /\ SequenceIsAhead /\ QuantitiesAgree /\ PrintedMeansSucceeded
-----------------------------------------------------------------------------
(* What DistributionHolds and ServicesForesee rest on, over IInv.          *)

\* A number of a block is claimed by one request.  A request that is not there
\* was overtaken by none and is nobody's elder.
ClaimInv ==
  /\ \A r, q \in Request : r # q /\ req[r].kind \in Claiming /\ req[q].kind \in Claiming =>
       DOMAIN req[r].sizes \cap DOMAIN req[q].sizes = {}
  /\ \A r \in Request : req[r] = Idle => overtaken[r] = {}
  /\ \A r \in Request : \A q \in elders[r] : req[q] # Idle

\* The numbers a device printed are still free, and as many of each size as needed.
CountedOf(r, a) ==
  /\ a.kind \in {"register", "register_one"} => Unused(DOMAIN a.sizes)
  /\ a.kind = "register" => \A z \in Razmer : CountOf(a.sizes, z) = a.target[z]
  /\ a.kind = "correct_offline" /\ stage[r] = "write" => Submitted(Plan(a), a.sizes)

\* What the services checked of a Patta and of a sheet under their locks.
CheckedOf(r, a) ==
  /\ a.kind = "legacy" /\ stage[r] # "patta" => pattas[a.patta].soni = Unknown
  /\ a.kind = "create_linked" /\ stage[r] # "patta" => pattas[a.patta].status = "ACTIVE"
  /\ a.kind = "create_linked" /\ stage[r] = "write" => SheetsOf({a.patta}) = {}
  /\ a.kind = "edit_linked" /\ stage[r] # "sheet" => ~sheets[a.sheet].trashed
  /\ a.kind = "trash" /\ stage[r] # "sheet" => ~sheets[a.sheet].trashed
  /\ a.kind \in {"restore", "purge"} /\ stage[r] # "sheet" => sheets[a.sheet].trashed

\* A sheet written by a younger transaction has left the version asked for behind.
TimesOf(r, a) ==
  /\ a.kind \in Creating => a.sheet \notin overtaken[r]
  /\ a.kind \in Entering \ Creating /\ Present(sheets[a.sheet]) =>
       /\ a.expected <= sheets[a.sheet].version
       /\ a.sheet \in overtaken[r] => a.expected < sheets[a.sheet].version

CheckInv ==
  /\ \A r \in Request : \A a \in {req[r]} : CountedOf(r, a) /\ CheckedOf(r, a) /\ TimesOf(r, a)
  /\ \A n \in Number : Present(pattas[n]) /\ pattas[n].batch # "none" => Present(batches[pattas[n].batch])

ServiceInv == IInv /\ ClaimInv /\ CheckInv /\ DistributionHolds

-----------------------------------------------------------------------------
(* What CyclesNeedAnUpdate rests on: which rows a request has locked and    *)
(* which it waits for, by the statement it has come to.                     *)

Updates == {"edit_linked", "edit_standalone"}
Listing == Corrections \cup {"legacy", "create_linked"}   \* lock the sheets of Pattas
PattaRowsOf(b) == {PattaRow(n) : n \in {m \in Number : Present(pattas[m]) /\ pattas[m].batch = b}}
AnySheet == {SheetRow(s) : s \in Sheet}

Wanting(r, a, row) ==
  \/ a.kind = "create" /\ stage[r] = "numbers" /\ row \in {PartiyaSequence, PattaSequence}
  \/ a.kind \in Corrections \cup {"print"} /\ stage[r] = "batch" /\ row = BatchRow(a.batch)
  \/ a.kind \in Corrections /\ stage[r] = "pattas" /\ row \in PattaRowsOf(a.batch)
  \/ a.kind \in Corrections /\ stage[r] = "entries" /\ row \in AnySheet
  \/ a.kind = "correct" /\ stage[r] = "numbers" /\ row = PattaSequence
  \/ a.kind \in {"legacy", "create_linked"} /\ stage[r] = "patta" /\ row = PattaRow(a.patta)
  \/ a.kind = "legacy" /\ stage[r] = "write" /\ row \in AnySheet
  \/ a.kind = "create_linked" /\ stage[r] = "prior" /\ row \in AnySheet
  \/ a.kind \in {"reuse", "trash", "restore", "purge"} /\ stage[r] = "sheet" /\ row = SheetRow(a.sheet)
  \/ a.kind = "purge" /\ stage[r] = "write" /\ row = SheetRows(a.sheet)

Holding(r, a, row) ==
  \/ a.kind = "create" /\ row \in {PartiyaSequence, PattaSequence}
  \/ a.kind \in Corrections \cup {"print"} /\ row = BatchRow(a.batch)
  \/ a.kind \in Corrections /\ row \in PattaRowsOf(a.batch) \cup AnySheet
  \/ a.kind = "correct" /\ stage[r] \in {"numbers", "write"} /\ row = PattaSequence
  \/ a.kind \in {"legacy", "create_linked"} /\ row \in {PattaRow(a.patta)} \cup AnySheet
  \/ a.kind \in {"reuse", "trash", "restore", "purge"} /\ row = SheetRow(a.sheet)
  \/ a.kind = "purge" /\ stage[r] = "write" /\ row = SheetRows(a.sheet)

\* The rows that only the end of a request follows.
LastRows == {PattaSequence} \cup {SheetRows(s) : s \in Sheet}
\* The statements with which a request takes its first lock.
Opening == {"batch", "patta", "sheet"}

\* A statement wants the rows of its kind, and holds those of the ones before.
QueueOf(r, a) ==
  /\ \A i \in 1 .. Len(want[r]) :
       /\ Wanting(r, a, want[r][i])
       /\ stage[r] \in Opening \/ want[r][i] \in LastRows => i = Len(want[r])
  /\ \A row \in held[r] : Holding(r, a, row)
  /\ stage[r] \in Opening /\ want[r] # <<>> => held[r] = {}
  /\ want[r] # <<>> => held[r] \cap LastRows = {}

\* The sheets of a Patta are locked under the lock of the Patta.
ListOf(r) ==
  \A s \in Sheet : SheetRow(s) \in Promised(r) /\ Present(sheets[s]) => PattaRow(sheets[s].patta) \in held[r]

\* Nobody has asked for a sheet that is not there yet.
NewTo(q, s) == SheetRow(s) \notin Promised(q)

QueueInv ==
  /\ \A r \in Request : \A a \in {req[r]} :
       /\ a.kind \notin Updates => QueueOf(r, a)
       /\ a.kind \in Listing => ListOf(r)
       /\ a.kind \in Creating => \A q \in Request : NewTo(q, a.sheet)
  /\ \A r, q \in Request : r # q /\ req[r].kind \in Listing /\ req[q].kind \in Listing =>
       \A s \in Sheet : NewTo(r, s) \/ NewTo(q, s)
=============================================================================
