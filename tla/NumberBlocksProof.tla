-------------------------- MODULE NumberBlocksProof --------------------------
(***************************************************************************)
(* Proofs about NumberBlocks: for any set of devices, any block size and   *)
(* any bound, IInv is inductive, hence the types are right and no number   *)
(* is printed twice.                                                       *)
(*                                                                         *)
(* The argument in one sentence: every usage count the system ever holds,  *)
(* however old, was computed from a next number the same device had        *)
(* already reached, and next numbers only grow, so merging a server row    *)
(* never moves a next number at all.                                       *)
(***************************************************************************)
EXTENDS NumberBlocks, TLAPS, SequenceTheorems, WellFoundedInduction

USE DEF server, local, cycle

-----------------------------------------------------------------------------
(* Smallest elements of sets of naturals.                                  *)

\* The order on the naturals as a well-founded relation.
LEMMA NatOrder ==
  \E R : IsWellFoundedOn(R, Nat) /\ \A a, b \in Nat : a < b => <<a, b>> \in R
<1> DEFINE R == OpToRel(<, Nat)
<1>1. IsWellFoundedOn(R, Nat)
  BY NatLessThanWellFounded
<1>2. \A a, b \in Nat : a < b => <<a, b>> \in R
  BY DEF OpToRel
<1> HIDE DEF R
<1>3. QED BY <1>1, <1>2

\* Least, on which the choice of a block rests, returns an element of its set.
LEMMA LeastIsElement ==
  ASSUME NEW T, T \subseteq Nat, T # {}
  PROVE  Least(T) \in T
<1>1. PICK R : IsWellFoundedOn(R, Nat) /\ \A a, b \in Nat : a < b => <<a, b>> \in R
  BY NatOrder
<1>2. IsWellFoundedOn(R, Nat)
  BY <1>1
<1>3. PICK x \in T : \A y \in T : ~ (<<y, x>> \in R)
  BY <1>2, WFMin, Zenon
<1>4. ASSUME NEW y \in T PROVE x <= y
  <2>1. ~ (<<y, x>> \in R)
    BY <1>3
  <2>2. x \in Nat /\ y \in Nat
    OBVIOUS
  <2>3. ~ (y < x)
    BY <1>1, <2>1, <2>2
  <2>4. QED BY <2>2, <2>3
<1>5. QED BY <1>4 DEF Least

-----------------------------------------------------------------------------
(* The device's block table.                                               *)

\* A well-formed block table of device d: RowInv and MirrorKnown for one table.
MirrorOK(d, m) ==
  /\ DOMAIN m \subseteq BlockIds
  /\ m \in [DOMAIN m -> MirrorRow]
  /\ \A b \in DOMAIN m : /\ blocks[b].device = d
                         /\ blocks[b].start <= m[b].next
                         /\ m[b].next <= blocks[b].end + 1
                         /\ blocks[b].start + m[b].reported <= m[b].next
                         /\ blocks[b].start + m[b].consumed <= m[b].next

\* The rows of m2 stand where those of m stood; new ones at their range's start.
SameNext(m, m2) ==
  /\ DOMAIN m \subseteq DOMAIN m2
  /\ \A b \in DOMAIN m2 :
       m2[b].next = IF b \in DOMAIN m THEN m[b].next ELSE blocks[b].start

\* Known, for a table m of device d.
KnownIn(d, m, b, count) ==
  /\ blocks[b].device = d
  /\ count = 0 \/ (b \in DOMAIN m /\ blocks[b].start + count <= m[b].next)

BlocksOK ==
  /\ blocks \in Seq(BlockRow)
  /\ \A b \in BlockIds : blocks[b].start >= 1 /\ blocks[b].start <= blocks[b].end

LEMMA BlockFields ==
  ASSUME BlocksOK, NEW b \in BlockIds
  PROVE  /\ blocks[b] \in BlockRow
         /\ blocks[b].device \in Device
         /\ blocks[b].start \in Nat /\ blocks[b].end \in Nat /\ blocks[b].reported \in Nat
         /\ blocks[b].status \in Statuses
         /\ b \in Nat /\ b # 0
<1>1. blocks[b] \in BlockRow
  BY ElementOfSeq DEF BlocksOK, BlockIds
<1>2. b \in Nat /\ b # 0
  BY LenProperties DEF BlocksOK, BlockIds
<1>3. QED BY <1>1, <1>2 DEF BlockRow

\* Merging a known count leaves every next number where it is.
LEMMA MergeKnown ==
  ASSUME BlocksOK, NEW d \in Device, NEW m, MirrorOK(d, m),
         NEW b \in BlockIds, NEW count \in Nat, NEW status \in Statuses, NEW role \in Roles,
         KnownIn(d, m, b, count)
  PROVE  /\ MirrorOK(d, Merge(m, b, count, status, role))
         /\ SameNext(m, Merge(m, b, count, status, role))
         /\ b \in DOMAIN Merge(m, b, count, status, role)
<1> DEFINE r == Merge(m, b, count, status, role)
           start == blocks[b].start
           next == Max2(IF b \in DOMAIN m THEN m[b].next ELSE start, start + count)
           consumed == Max2(Max2(IF b \in DOMAIN m THEN m[b].consumed ELSE 0, count), next - start)
           row == [next |-> next, consumed |-> consumed, reported |-> count,
                   status |-> status, role |-> IF b \in DOMAIN m THEN m[b].role ELSE role]
<1>1. /\ DOMAIN r = DOMAIN m \cup {b}
      /\ r = [x \in DOMAIN m \cup {b} |-> IF x = b THEN row ELSE m[x]]
  BY DEF Merge, With
<1>2. /\ start \in Nat /\ blocks[b].end \in Nat /\ start <= blocks[b].end
      /\ blocks[b].device = d
  BY BlockFields DEF BlocksOK, KnownIn
<1>3. b \in DOMAIN m => m[b] \in MirrorRow
  BY DEF MirrorOK
<1>4. b \in DOMAIN m => /\ m[b].next \in Nat /\ m[b].consumed \in Nat /\ m[b].role \in Roles
                        /\ start <= m[b].next /\ m[b].next <= blocks[b].end + 1
                        /\ start + m[b].consumed <= m[b].next
  BY <1>3 DEF MirrorOK, MirrorRow
<1>5. next = IF b \in DOMAIN m THEN m[b].next ELSE start
  BY <1>2, <1>4 DEF KnownIn, Max2
<1>6. /\ next \in Nat /\ start <= next /\ next <= blocks[b].end + 1
      /\ start + count <= next
  BY <1>2, <1>4, <1>5 DEF KnownIn
<1>7. consumed \in Nat /\ start + consumed <= next
  BY <1>2, <1>4, <1>5, <1>6 DEF Max2
<1>8. row \in MirrorRow
  BY <1>4, <1>6, <1>7 DEF MirrorRow
<1>9. /\ r[b] = row
      /\ \A x \in DOMAIN m : x # b => r[x] = m[x]
  BY <1>1
<1>10. row.next = next /\ row.consumed = consumed /\ row.reported = count
  OBVIOUS
<1> HIDE DEF r, row, next, consumed, start
<1>11. DOMAIN r \subseteq BlockIds /\ r \in [DOMAIN r -> MirrorRow]
  BY <1>1, <1>8 DEF MirrorOK
<1>12. \A x \in DOMAIN r : /\ blocks[x].device = d
                           /\ blocks[x].start <= r[x].next
                           /\ r[x].next <= blocks[x].end + 1
                           /\ blocks[x].start + r[x].reported <= r[x].next
                           /\ blocks[x].start + r[x].consumed <= r[x].next
  BY <1>1, <1>2, <1>6, <1>7, <1>9, <1>10 DEF MirrorOK, start
<1>13. SameNext(m, r)
  BY <1>1, <1>5, <1>9, <1>10 DEF SameNext, start
<1>14. MirrorOK(d, r)
  BY <1>11, <1>12 DEF MirrorOK
<1>15. QED BY <1>1, <1>13, <1>14 DEF r

\* The same for all rows of a page or a snapshot.
LEMMA ApplyKnown ==
  ASSUME BlocksOK, NEW d \in Device, NEW m, MirrorOK(d, m), NEW rows, rows \subseteq Changes,
         \A r \in rows : KnownIn(d, m, r.block, r.reported)
  PROVE  MirrorOK(d, Apply(m, rows)) /\ SameNext(m, Apply(m, rows))
<1> DEFINE a == Apply(m, rows)
           Row(b) == CHOOSE r \in rows : r.block = b
           Merged(b) == Merge(m, b, Row(b).reported, Row(b).status, "AVAILABLE")
           touched == {b \in BlockIds : \E r \in rows : r.block = b}
<1>1. \A r \in rows : /\ r.block \in BlockIds /\ r.reported \in Nat /\ r.status \in Statuses
  BY DEF Changes
<1>2. {r.block : r \in rows} = touched
  BY <1>1
<1>3. /\ DOMAIN a = DOMAIN m \cup touched
      /\ \A b \in DOMAIN a : a[b] = IF b \in touched THEN Merged(b)[b] ELSE m[b]
  BY <1>1, <1>2 DEF Apply, MirrorOK
<1>4. ASSUME NEW b \in touched
      PROVE  MirrorOK(d, Merged(b)) /\ SameNext(m, Merged(b)) /\ b \in DOMAIN Merged(b)
  <2>1. Row(b) \in rows /\ Row(b).block = b
    OBVIOUS
  <2>2. b \in BlockIds /\ Row(b).reported \in Nat /\ Row(b).status \in Statuses
    BY <1>1, <2>1
  <2>3. KnownIn(d, m, b, Row(b).reported)
    BY <2>1
  <2>4. "AVAILABLE" \in Roles
    BY DEF Roles
  <2> HIDE DEF Row
  <2>5. QED BY <2>2, <2>3, <2>4, MergeKnown
<1> HIDE DEF Merged, Row
<1>5. DOMAIN a \subseteq BlockIds
  BY <1>3 DEF MirrorOK
<1>6. ASSUME NEW b \in DOMAIN a
      PROVE  /\ a[b] \in MirrorRow
             /\ blocks[b].device = d
             /\ blocks[b].start <= a[b].next
             /\ a[b].next <= blocks[b].end + 1
             /\ blocks[b].start + a[b].reported <= a[b].next
             /\ blocks[b].start + a[b].consumed <= a[b].next
             /\ a[b].next = IF b \in DOMAIN m THEN m[b].next ELSE blocks[b].start
  <2>1. CASE b \in touched
    BY <1>3, <1>4, <2>1 DEF MirrorOK, SameNext
  <2>2. CASE b \notin touched
    BY <1>3, <2>2 DEF MirrorOK, SameNext
  <2>3. QED BY <2>1, <2>2
<1>7. a = [b \in DOMAIN a |-> a[b]]
  BY DEF Apply
<1> HIDE DEF a, touched
<1>8. a \in [DOMAIN a -> MirrorRow]
  BY <1>6, <1>7
<1>9. QED
  <2>1. MirrorOK(d, a)
    BY <1>5, <1>6, <1>8 DEF MirrorOK
  <2>2. SameNext(m, a)
    BY <1>3, <1>6 DEF SameNext
  <2>3. QED BY <2>1, <2>2 DEF a

\* Demotion changes roles and nothing else.
LEMMA DemoteKeeps ==
  ASSUME BlocksOK, NEW d, NEW m, MirrorOK(d, m), NEW keep
  PROVE  /\ DOMAIN Demote(m, keep) = DOMAIN m
         /\ Demote(m, keep) = [b \in DOMAIN m |-> Demote(m, keep)[b]]
         /\ \A b \in DOMAIN m : /\ Demote(m, keep)[b] \in MirrorRow
                                /\ Demote(m, keep)[b].next = m[b].next
                                /\ Demote(m, keep)[b].consumed = m[b].consumed
                                /\ Demote(m, keep)[b].reported = m[b].reported
                                /\ Demote(m, keep)[b].status = m[b].status
<1>1. ASSUME NEW b \in DOMAIN m
      PROVE  /\ Demote(m, keep)[b] \in {m[b], [m[b] EXCEPT !.role = "AVAILABLE"]}
             /\ m[b] \in MirrorRow
  BY DEF Demote, MirrorOK
<1>2. QED BY <1>1 DEF Demote, MirrorRow, Roles

\* A device takes numbers only out of its own rows with a number left.
LEMMA ChosenIsUsable ==
  ASSUME BlocksOK, NEW d, NEW m, MirrorOK(d, m), ChosenBlock(m) # 0
  PROVE  ChosenBlock(m) \in DOMAIN m /\ Usable(m, ChosenBlock(m))
<1>1. ASSUME NEW x, NEW roles
      PROVE  DOMAIN m \subseteq Nat /\ ActiveIn(m, roles) \subseteq DOMAIN m
  BY BlockFields DEF ActiveIn, MirrorOK
<1>2. ASSUME UsableCurrent(m) # 0
      PROVE  UsableCurrent(m) \in DOMAIN m /\ Usable(m, UsableCurrent(m))
  <2>1. UsableCurrent(m) = CurrentBlock(m) /\ Usable(m, CurrentBlock(m)) /\ CurrentBlock(m) # 0
    BY <1>2 DEF UsableCurrent
  <2>2. CurrentBlock(m) \in ActiveIn(m, {"CURRENT"})
    BY <1>1, <2>1, LeastIsElement DEF CurrentBlock
  <2>3. QED BY <1>1, <2>1, <2>2
<1> DEFINE demoted == Demote(m, 0)
           usable(roles) == {b \in ActiveIn(demoted, roles) : Usable(demoted, b)}
<1>3. ASSUME NEW roles, usable(roles) # {}
      PROVE  Least(usable(roles)) \in DOMAIN m /\ Usable(m, Least(usable(roles)))
  <2>1. DOMAIN demoted = DOMAIN m
    BY DemoteKeeps
  <2>2. usable(roles) \subseteq DOMAIN m
    BY <2>1 DEF ActiveIn
  <2>3. usable(roles) \subseteq Nat
    BY <1>1, <2>2
  <2>4. Least(usable(roles)) \in usable(roles)
    BY <1>3, <2>3, LeastIsElement
  <2>5. Usable(demoted, Least(usable(roles)))
    BY <2>4
  <2>6. Least(usable(roles)) \in DOMAIN m
    BY <2>2, <2>4
  <2>7. /\ demoted[Least(usable(roles))].next = m[Least(usable(roles))].next
        /\ demoted[Least(usable(roles))].reported = m[Least(usable(roles))].reported
    BY <2>6, DemoteKeeps
  <2> HIDE DEF demoted, usable
  <2>8. Usable(m, Least(usable(roles)))
    BY ZenonT(60), <2>5, <2>7 DEF Usable
  <2>9. QED BY <2>6, <2>8
<1>4. QED
  <2>1. CASE UsableCurrent(m) # 0
    BY <1>2, <2>1 DEF ChosenBlock
  <2>2. CASE UsableCurrent(m) = 0 /\ usable({"RESERVED"}) # {}
    BY <1>3, <2>2 DEF ChosenBlock
  <2>3. CASE UsableCurrent(m) = 0 /\ usable({"RESERVED"}) = {} /\ usable({"AVAILABLE"}) # {}
    BY <1>3, <2>3 DEF ChosenBlock
  <2>4. CASE UsableCurrent(m) = 0 /\ usable({"RESERVED"}) = {} /\ usable({"AVAILABLE"}) = {}
    BY <2>4 DEF ChosenBlock
  <2>5. QED BY <2>1, <2>2, <2>3, <2>4

-----------------------------------------------------------------------------
(* The invariant in two halves: the core holds the printed numbers, the    *)
(* ranges and the device tables; the rest holds what travels.              *)

CoreType ==
  /\ nextNumber \in Nat
  /\ blocks \in Seq(BlockRow)
  /\ mirror = [d \in Device |-> mirror[d]]
  /\ \A d \in Device : /\ DOMAIN mirror[d] \subseteq BlockIds
                       /\ mirror[d] \in [DOMAIN mirror[d] -> MirrorRow]
  /\ issued \in [Number -> Nat]

Core == CoreType /\ RangeInv /\ RowInv /\ ServerKnown /\ MirrorKnown /\ IssueInv

UnreadOK   == unread \in [Device -> Seq(Changes)] /\ FeedKnown
RequestsOK == requests \subseteq Request /\ RequestKnown
StagedOK   == staged \in [Device -> [ready : BOOLEAN, rows : SUBSET Changes]] /\ StagedKnown
TodoOK     == todo \in [Device -> SUBSET [block : BlockIds, count : Nat]] /\ TodoKnown
ReplyOK    == reply \in [Device -> Answers] /\ ReplyKnown
LoopType   == /\ booted \in [Device -> BOOLEAN]
              /\ phase \in [Device -> {"idle", "pull", "patta", "report", "prefetch"}]
              /\ page \in [Device -> {NoPage} \cup [size : Nat, more : BOOLEAN]]
              /\ awaiting \in [Device -> {0} \cup Slot]

Travel == UnreadOK /\ RequestsOK /\ StagedOK /\ TodoOK /\ ReplyOK /\ LoopType /\ PageInv

LEMMA IInvSplit == IInv <=> family \in Families /\ Core /\ Travel
BY DEF IInv, Core, Travel, TypeOK, CoreType, ClaimInv, UnreadOK, RequestsOK, StagedOK, TodoOK,
       ReplyOK, LoopType

\* A page is absent or says how many changes it holds.
LEMMA PageFields ==
  ASSUME Travel
  PROVE  /\ page \in [Device -> {NoPage} \cup [size : Nat, more : BOOLEAN]]
         /\ \A d \in Device : page[d].size \in Int /\ page[d].more \in BOOLEAN
<1>1. ASSUME NEW d \in Device PROVE page[d].size \in Int /\ page[d].more \in BOOLEAN
  <2>1. page[d] \in {NoPage} \cup [size : Nat, more : BOOLEAN]
    BY DEF Travel, LoopType
  <2>2. CASE page[d] = NoPage
    BY <2>2 DEF NoPage
  <2>3. CASE page[d] \in [size : Nat, more : BOOLEAN]
    BY <2>3
  <2>4. QED BY <2>1, <2>2, <2>3
<1>2. QED BY <1>1 DEF Travel, LoopType

\* No step forgets a block or a count it knew.
Stable ==
  /\ BlockIds \subseteq BlockIds'
  /\ \A d \in Device, b \in BlockIds, count \in Nat : Known(d, b, count) => Known(d, b, count)'

LEMMA CoreFacts ==
  ASSUME Core
  PROVE  /\ BlocksOK
         /\ \A d \in Device : MirrorOK(d, mirror[d])
<1>1. BlocksOK
  BY DEF Core, CoreType, RangeInv, BlocksOK
<1>2. ASSUME NEW d \in Device PROVE MirrorOK(d, mirror[d])
  <2>1. ASSUME NEW b \in DOMAIN mirror[d]
        PROVE  /\ blocks[b].device = d
               /\ blocks[b].start <= mirror[d][b].next
               /\ mirror[d][b].next <= blocks[b].end + 1
               /\ blocks[b].start + mirror[d][b].reported <= mirror[d][b].next
               /\ blocks[b].start + mirror[d][b].consumed <= mirror[d][b].next
    <3>1. b \in BlockIds /\ mirror[d][b] \in MirrorRow
      BY DEF Core, CoreType
    <3>2. blocks[b].start \in Nat
      BY <1>1, <3>1, BlockFields
    <3>3. /\ blocks[b].start <= mirror[d][b].next
          /\ mirror[d][b].reported = 0 \/ blocks[b].start + mirror[d][b].reported <= mirror[d][b].next
          /\ mirror[d][b].consumed = 0 \/ blocks[b].start + mirror[d][b].consumed <= mirror[d][b].next
          /\ blocks[b].device = d
          /\ mirror[d][b].next <= blocks[b].end + 1
      BY DEF Core, RowInv, MirrorKnown, Known
    <3>4. QED BY <3>1, <3>2, <3>3 DEF MirrorRow
  <2>2. QED BY <2>1 DEF MirrorOK, Core, CoreType
<1>3. QED BY <1>1, <1>2

\* Steps that touch neither tables nor ranges nor printed numbers.
LEMMA CoreFrame ==
  ASSUME Core, UNCHANGED <<nextNumber, blocks, mirror, issued>>
  PROVE  Core' /\ Stable
BY DEF Core, CoreType, RangeInv, RangesDisjoint, RowInv, ServerKnown, MirrorKnown, IssueInv,
       NumberIssuedOnce, PrintedIsRecorded, Known, Stable, BlockIds

\* A device merges rows of the server.
LEMMA CoreMerge ==
  ASSUME Core, NEW d \in Device, NEW m, MirrorOK(d, m), SameNext(mirror[d], m),
         mirror' = [mirror EXCEPT ![d] = m], UNCHANGED <<nextNumber, blocks, issued>>
  PROVE  Core' /\ Stable
<1>1. BlocksOK /\ \A e \in Device : MirrorOK(e, mirror[e])
  BY CoreFacts
<1>2. /\ BlockIds' = BlockIds
      /\ mirror'[d] = m
      /\ \A e \in Device : e # d => mirror'[e] = mirror[e]
      /\ mirror' = [e \in Device |-> mirror'[e]]
  BY DEF BlockIds, Core, CoreType
<1>3. \A e \in Device : MirrorOK(e, mirror'[e])
  BY <1>1, <1>2
<1>4. CoreType'
  BY <1>2, <1>3 DEF CoreType, Core, MirrorOK
<1>5. RangeInv'
  BY <1>2 DEF Core, RangeInv, RangesDisjoint
<1>6. RowInv'
  BY <1>3 DEF RowInv, MirrorOK
<1>7. MirrorKnown'
  BY <1>3 DEF MirrorKnown, MirrorOK, Known
<1>8. Stable
  BY <1>2 DEF Stable, Known, SameNext
<1>9. ServerKnown'
  <2>1. SUFFICES ASSUME NEW b \in BlockIds PROVE Known(blocks[b].device, b, blocks[b].reported)'
    BY <1>2 DEF ServerKnown
  <2>2. Known(blocks[b].device, b, blocks[b].reported)
    BY DEF Core, ServerKnown
  <2>3. QED BY <1>1, <1>2, <2>2, BlockFields DEF Known, SameNext
<1>10. PrintedIsRecorded'
  <2>1. SUFFICES ASSUME NEW b \in BlockIds, NEW n \in blocks[b].start .. blocks[b].end, issued[n] > 0
                 PROVE  /\ b \in DOMAIN mirror'[blocks[b].device]
                        /\ n < mirror'[blocks[b].device][b].next
    BY <1>2 DEF PrintedIsRecorded
  <2>2. /\ b \in DOMAIN mirror[blocks[b].device]
        /\ n < mirror[blocks[b].device][b].next
    BY <2>1 DEF Core, IssueInv, PrintedIsRecorded
  <2>3. QED BY <1>1, <1>2, <2>2, BlockFields DEF SameNext
<1>11. ASSUME NEW e \in Device, NEW b \in DOMAIN mirror'[e], NEW n \in Number,
              blocks[b].start <= n, n < mirror'[e][b].next
       PROVE  issued[n] = 1
  <2>1. CASE b \in DOMAIN mirror[e]
    BY <1>2, <1>11, <2>1 DEF Core, IssueInv, SameNext
  <2>2. CASE b \notin DOMAIN mirror[e]
    <3>1. e = d /\ mirror'[e][b].next = blocks[b].start
      BY <1>2, <2>2 DEF SameNext
    <3>2. b \in BlockIds
      BY <1>3 DEF MirrorOK
    <3>3. QED BY <1>1, <1>11, <3>1, <3>2, BlockFields DEF Number
  <2>3. QED BY <2>1, <2>2
<1>12. IssueInv'
  BY <1>10, <1>11 DEF Core, IssueInv, NumberIssuedOnce
<1>13. QED BY <1>4, <1>5, <1>6, <1>7, <1>8, <1>9, <1>12 DEF Core

\* A device prints the next number of a block it holds.
LEMMA CoreConsume ==
  ASSUME Core, NEW d \in Device, ConsumeNext(d)
  PROVE  Core' /\ Stable
<1> DEFINE m == mirror[d]
           b == ChosenBlock(m)
           n == Max2(m[b].next, blocks[b].start + m[b].reported)
           consumed == Max2(Max2(m[b].consumed, m[b].reported), n + 1 - blocks[b].start)
           row == [m[b] EXCEPT !.next = n + 1, !.consumed = consumed, !.role = "CURRENT"]
           demoted == Demote(m, UsableCurrent(m))
           m2 == With(demoted, b, row)
<1>1. BlocksOK /\ \A e \in Device : MirrorOK(e, mirror[e])
  BY CoreFacts
<1>2. /\ b # 0
      /\ mirror' = [mirror EXCEPT ![d] = m2]
      /\ issued' = [issued EXCEPT ![n] = @ + 1]
      /\ UNCHANGED <<nextNumber, blocks>>
  BY DEF ConsumeNext
<1>3. b \in DOMAIN m /\ Usable(m, b)
  BY <1>1, <1>2, ChosenIsUsable
<1>4. b \in BlockIds /\ m[b] \in MirrorRow
  BY <1>1, <1>3 DEF MirrorOK
<1>5. /\ blocks[b].start \in Nat /\ blocks[b].end \in Nat /\ blocks[b].start <= blocks[b].end
      /\ m[b].next \in Nat /\ m[b].consumed \in Nat /\ m[b].reported \in Nat
      /\ blocks[b].start <= m[b].next
      /\ blocks[b].start + m[b].reported <= m[b].next
      /\ blocks[b].start + m[b].consumed <= m[b].next
      /\ blocks[b].device = d
  BY <1>1, <1>3, <1>4, BlockFields DEF MirrorRow, MirrorOK, BlocksOK
<1>6. n = m[b].next /\ n \in Nat /\ n <= blocks[b].end
  BY <1>3, <1>5 DEF Max2, Usable
<1>7. n \in Number
  BY <1>4, <1>5, <1>6, ConstantsAssumption DEF Number, Core, RangeInv
<1>8. consumed \in Nat /\ blocks[b].start + consumed <= n + 1
  BY <1>5, <1>6 DEF Max2
<1>9. /\ row \in MirrorRow
      /\ row.next = n + 1 /\ row.consumed = consumed /\ row.reported = m[b].reported
  <2> HIDE DEF n, consumed
  <2>1. n + 1 \in Nat /\ consumed \in Nat
    BY <1>6, <1>8
  <2>2. row \in {r \in MirrorRow : /\ r.next = n + 1 /\ r.consumed = consumed
                                  /\ r.reported = m[b].reported}
    <3> HIDE DEF m, b
    <3>1. m[b] \in MirrorRow
      BY <1>4
    <3>2. QED BY <2>1, <3>1 DEF MirrorRow, Roles
  <2> HIDE DEF row
  <2>3. QED BY <2>2
<1>10. /\ DOMAIN m2 = DOMAIN m
       /\ m2 = [x \in DOMAIN m |-> m2[x]]
       /\ m2[b] = row
       /\ \A x \in DOMAIN m : x # b => m2[x] = demoted[x]
  BY <1>1, <1>3, DemoteKeeps DEF With
<1>11. \A x \in DOMAIN m : /\ demoted[x] \in MirrorRow
                           /\ demoted[x].next = m[x].next
                           /\ demoted[x].consumed = m[x].consumed
                           /\ demoted[x].reported = m[x].reported
  BY <1>1, DemoteKeeps
<1>12. /\ mirror'[d] = m2
       /\ \A e \in Device : e # d => mirror'[e] = mirror[e]
       /\ mirror' = [e \in Device |-> mirror'[e]]
       /\ BlockIds' = BlockIds
  BY <1>2 DEF Core, CoreType, BlockIds
<1> HIDE DEF n, consumed, row, demoted, m2, b
<1>13. m2[b].next = m[b].next + 1 /\ \A x \in DOMAIN m : x # b => m2[x].next = m[x].next
  BY <1>6, <1>9, <1>10, <1>11
<1>14. MirrorOK(d, m2)
  <2>1. \A x \in DOMAIN m2 : /\ m2[x] \in MirrorRow
                             /\ blocks[x].device = d
                             /\ blocks[x].start <= m2[x].next
                             /\ m2[x].next <= blocks[x].end + 1
                             /\ blocks[x].start + m2[x].reported <= m2[x].next
                             /\ blocks[x].start + m2[x].consumed <= m2[x].next
    <3>1. SUFFICES ASSUME NEW x \in DOMAIN m
                   PROVE  /\ m2[x] \in MirrorRow
                          /\ blocks[x].device = d
                          /\ blocks[x].start <= m2[x].next
                          /\ m2[x].next <= blocks[x].end + 1
                          /\ blocks[x].start + m2[x].reported <= m2[x].next
                          /\ blocks[x].start + m2[x].consumed <= m2[x].next
      BY <1>10
    <3>2. CASE x = b
      BY <1>5, <1>6, <1>8, <1>9, <1>10, <3>2
    <3>3. CASE x # b
      <4>1. m2[x] = demoted[x]
        BY <1>10, <3>3
      <4>2. /\ blocks[x].device = d
            /\ blocks[x].start <= m[x].next
            /\ m[x].next <= blocks[x].end + 1
            /\ blocks[x].start + m[x].reported <= m[x].next
            /\ blocks[x].start + m[x].consumed <= m[x].next
        BY <1>1 DEF MirrorOK
      <4>3. QED BY <1>11, <4>1, <4>2
    <3>4. QED BY <3>2, <3>3
  <2>2. DOMAIN m2 \subseteq BlockIds /\ m2 \in [DOMAIN m2 -> MirrorRow]
    BY <1>1, <1>10, <2>1 DEF MirrorOK
  <2>3. QED BY <2>1, <2>2 DEF MirrorOK
<1>15. \A e \in Device : MirrorOK(e, mirror'[e])
  BY <1>1, <1>12, <1>14
<1>16. /\ issued' \in [Number -> Nat]
       /\ issued'[n] = issued[n] + 1
       /\ \A k \in Number : k # n => issued'[k] = issued[k]
  BY <1>2, <1>7 DEF Core, CoreType
<1>17. issued[n] = 0
  <2>1. n \in blocks[b].start .. blocks[b].end
    BY <1>5, <1>6
  <2>2. issued[n] > 0 => n < m[b].next
    BY <1>4, <1>5, <2>1 DEF Core, IssueInv, PrintedIsRecorded
  <2>3. issued[n] \in Nat
    BY <1>7 DEF Core, CoreType
  <2>4. QED BY <1>5, <1>6, <2>2, <2>3
<1>11a. CoreType' /\ RangeInv' /\ RowInv' /\ MirrorKnown'
  <2>1. CoreType'
    BY <1>2, <1>12, <1>15, <1>16 DEF CoreType, Core, MirrorOK
  <2>2. RangeInv'
    BY <1>2, <1>12 DEF Core, RangeInv, RangesDisjoint
  <2>3. RowInv'
    BY <1>2, <1>15 DEF RowInv, MirrorOK
  <2>4. MirrorKnown'
    BY <1>2, <1>15 DEF MirrorKnown, MirrorOK, Known
  <2>5. QED BY <2>1, <2>2, <2>3, <2>4
<1>19. Stable
  <2>1. SUFFICES ASSUME NEW e \in Device, NEW x \in BlockIds, NEW count \in Nat, Known(e, x, count)
                 PROVE  Known(e, x, count)'
    BY <1>12 DEF Stable
  <2>2. CASE e = d /\ x \in DOMAIN m
    <3>1. m[x].next <= m2[x].next /\ m[x].next \in Nat /\ m2[x].next \in Nat
      <4>1. m[x] \in MirrorRow /\ m2[x] \in MirrorRow
        BY <1>1, <1>10, <1>14, <2>2 DEF MirrorOK
      <4>2. m[x].next \in Nat /\ m2[x].next \in Nat
        BY <4>1 DEF MirrorRow
      <4>3. m2[x].next = m[x].next \/ m2[x].next = m[x].next + 1
        BY <1>13, <2>2
      <4>4. QED BY <4>2, <4>3
    <3>2. blocks[x].start \in Nat
      BY <1>1, BlockFields
    <3>3. QED BY <1>2, <1>10, <1>12, <2>1, <2>2, <3>1, <3>2 DEF Known
  <2>3. CASE ~ (e = d /\ x \in DOMAIN m)
    BY <1>2, <1>10, <1>12, <2>1, <2>3 DEF Known
  <2>4. QED BY <2>2, <2>3
<1>20. ServerKnown'
  BY <1>1, <1>2, <1>12, <1>19, BlockFields DEF Core, ServerKnown, Stable
<1>21. IssueInv'
  <2>1. NumberIssuedOnce'
    BY <1>16, <1>17 DEF Core, IssueInv, NumberIssuedOnce
  <2>2. (\A k \in Number : k >= nextNumber => issued[k] = 0)'
    <3>1. n < nextNumber /\ nextNumber \in Nat
      BY <1>4, <1>5, <1>6 DEF Core, RangeInv, CoreType
    <3>2. QED BY <1>2, <1>6, <1>16, <3>1 DEF Core, IssueInv
  <2>3. PrintedIsRecorded'
    <3>1. SUFFICES ASSUME NEW x \in BlockIds, NEW k \in blocks[x].start .. blocks[x].end,
                          issued'[k] > 0
                   PROVE  /\ x \in DOMAIN mirror'[blocks[x].device]
                          /\ k < mirror'[blocks[x].device][x].next
      BY <1>2, <1>12 DEF PrintedIsRecorded
    <3>2. /\ blocks[x].device \in Device /\ blocks[x].start \in Nat /\ blocks[x].end \in Nat
          /\ x \in Nat /\ b \in Nat
      BY <1>1, <1>4, BlockFields
    <3>3. k \in Number
      BY <3>2, ConstantsAssumption DEF Number, Core, RangeInv
    <3>4. CASE x = b
      <4>1. CASE k = n
        BY <1>3, <1>5, <1>6, <1>9, <1>10, <1>12, <3>4, <4>1
      <4>2. CASE k # n
        <5>1. issued[k] > 0
          BY <1>16, <3>1, <3>3, <4>2
        <5>2. k < m[b].next
          BY <1>5, <3>4, <5>1 DEF Core, IssueInv, PrintedIsRecorded
        <5>3. QED BY <1>3, <1>5, <1>10, <1>12, <1>13, <3>2, <3>4, <5>2
      <4>3. QED BY <4>1, <4>2
    <3>5. CASE x # b
      <4>1. k # n
        BY <1>4, <1>5, <1>6, <3>2, <3>5 DEF Core, RangeInv, RangesDisjoint
      <4>2. issued[k] > 0
        BY <1>16, <3>1, <3>3, <4>1
      <4>3. x \in DOMAIN mirror[blocks[x].device] /\ k < mirror[blocks[x].device][x].next
        BY <4>2 DEF Core, IssueInv, PrintedIsRecorded
      <4>4. QED BY <1>10, <1>12, <1>13, <3>2, <3>5, <4>3
    <3>6. QED BY <3>4, <3>5
  <2>4. ASSUME NEW e \in Device, NEW x \in DOMAIN mirror'[e], NEW k \in Number,
               blocks'[x].start <= k, k < mirror'[e][x].next
        PROVE  issued'[k] = 1
    <3>1. CASE k = n
      BY <1>16, <1>17, <3>1
    <3>2. CASE k # n
      <4>1. x \in DOMAIN mirror[e] /\ k < mirror[e][x].next
        <5>1. CASE e = d /\ x = b
          <6>1. k < n + 1
            BY <1>6, <1>12, <1>13, <2>4, <5>1
          <6>2. k \in Int /\ n \in Int
            BY <1>6 DEF Number
          <6>3. k < n
            BY <3>2, <6>1, <6>2
          <6>4. QED BY <1>3, <1>6, <5>1, <6>3
        <5>2. CASE ~ (e = d /\ x = b)
          BY <1>10, <1>12, <1>13, <2>4, <5>2
        <5>3. QED BY <5>1, <5>2
      <4>2. issued[k] = 1
        BY <1>2, <2>4, <4>1 DEF Core, IssueInv
      <4>3. QED BY <1>16, <3>2, <4>2
    <3>3. QED BY <3>1, <3>2
  <2>5. QED BY <2>1, <2>2, <2>3, <2>4 DEF IssueInv
<1>22. QED BY <1>11a, <1>19, <1>20, <1>21 DEF Core

\* The API prints the number the sequence stands at.
LEMMA CoreOnline ==
  ASSUME Core, IssueOnline
  PROVE  Core' /\ Stable
<1>1. BlocksOK /\ \A e \in Device : MirrorOK(e, mirror[e])
  BY CoreFacts
<1>2. /\ nextNumber \in Number
      /\ nextNumber' = nextNumber + 1
      /\ UNCHANGED <<blocks, mirror>>
      /\ BlockIds' = BlockIds
  BY ConstantsAssumption DEF IssueOnline, Core, CoreType, RangeInv, Number, BlockIds
<1>3. /\ issued' \in [Number -> Nat]
      /\ issued'[nextNumber] = issued[nextNumber] + 1
      /\ \A k \in Number : k # nextNumber => issued'[k] = issued[k]
      /\ issued[nextNumber] = 0
  BY <1>2 DEF IssueOnline, Core, CoreType, IssueInv
<1>4. CoreType'
  BY <1>2, <1>3 DEF Core, CoreType, Number
<1>5. RangeInv'
  BY <1>1, <1>2, BlockFields DEF Core, RangeInv, RangesDisjoint, Number
<1>6. RowInv' /\ MirrorKnown' /\ ServerKnown' /\ Stable
  BY <1>2 DEF Core, RowInv, MirrorKnown, ServerKnown, Known, Stable
<1>7. IssueInv'
  <2>1. NumberIssuedOnce'
    BY <1>3 DEF Core, IssueInv, NumberIssuedOnce
  <2>2. (\A k \in Number : k >= nextNumber => issued[k] = 0)'
    BY <1>2, <1>3 DEF Core, IssueInv, Number
  <2>3. ASSUME NEW b \in BlockIds, NEW k \in blocks[b].start .. blocks[b].end
        PROVE  k # nextNumber /\ k \in Number
    BY <1>1, <1>2, BlockFields, ConstantsAssumption DEF Core, RangeInv, Number
  <2>4. PrintedIsRecorded'
    BY <1>2, <1>3, <2>3 DEF Core, IssueInv, PrintedIsRecorded
  <2>5. ASSUME NEW d \in Device, NEW b \in DOMAIN mirror[d], NEW k \in Number,
               blocks[b].start <= k, k < mirror[d][b].next
        PROVE  issued'[k] = 1
    <3>1. issued[k] = 1
      BY <2>5 DEF Core, IssueInv
    <3>2. QED BY <1>3, <3>1
  <2>6. QED BY <1>2, <2>1, <2>2, <2>4, <2>5 DEF IssueInv
<1>8. QED BY <1>4, <1>5, <1>6, <1>7 DEF Core

\* A transaction of the server that changes one row, never its range.
LEMMA CoreRowChange ==
  ASSUME Core, NEW b \in BlockIds, NEW count \in Nat, NEW status \in Statuses,
         blocks' \in Seq(BlockRow), Len(blocks') = Len(blocks),
         \A x \in BlockIds :
           /\ blocks'[x].device = blocks[x].device
           /\ blocks'[x].start = blocks[x].start /\ blocks'[x].end = blocks[x].end
           /\ blocks'[x].reported = IF x = b THEN count ELSE blocks[x].reported,
         Known(blocks[b].device, b, count),
         UNCHANGED <<nextNumber, mirror, issued>>
  PROVE  Core' /\ Stable
<1>1. BlockIds' = BlockIds
  BY DEF BlockIds
<1>2. CoreType'
  BY <1>1 DEF Core, CoreType
<1>3. RangeInv'
  BY <1>1 DEF Core, RangeInv, RangesDisjoint
<1>4. \A d \in Device : \A x \in DOMAIN mirror[d] : x \in BlockIds
  BY DEF Core, CoreType
<1>5. RowInv' /\ MirrorKnown' /\ Stable
  BY <1>1, <1>4 DEF Core, RowInv, MirrorKnown, Known, Stable
<1>6. ServerKnown'
  BY <1>1 DEF Core, ServerKnown, Known
<1>7. IssueInv'
  BY <1>1, <1>4 DEF Core, IssueInv, NumberIssuedOnce, PrintedIsRecorded
<1>8. QED BY <1>2, <1>3, <1>5, <1>6, <1>7 DEF Core

\* A transaction of the server that allocates the next range.
LEMMA CoreAllocate ==
  ASSUME Core, NEW d \in Device,
         nextNumber' = nextNumber + BlockSize, nextNumber' <= MaxNumber,
         blocks' = Append(blocks, [device |-> d, start |-> nextNumber,
                                   end |-> nextNumber + BlockSize - 1,
                                   reported |-> 0, status |-> "ACTIVE"]),
         UNCHANGED <<mirror, issued>>
  PROVE  Core' /\ Stable /\ BlockIds' = 1 .. Len(blocks) + 1 /\ blocks'[Len(blocks) + 1].device = d
<1> DEFINE new == [device |-> d, start |-> nextNumber, end |-> nextNumber + BlockSize - 1,
                   reported |-> 0, status |-> "ACTIVE"]
           last == Len(blocks) + 1
<1>1. BlocksOK /\ \A e \in Device : MirrorOK(e, mirror[e])
  BY CoreFacts
<1>2. new \in BlockRow /\ nextNumber \in Nat \ {0} /\ BlockSize \in Nat \ {0}
  BY ConstantsAssumption DEF Core, CoreType, RangeInv, BlockRow, Statuses
<1>3. /\ blocks' \in Seq(BlockRow) /\ Len(blocks') = last /\ last \in Nat
      /\ \A x \in BlockIds : blocks'[x] = blocks[x]
      /\ blocks'[last] = new
      /\ BlockIds' = BlockIds \cup {last} /\ last \notin BlockIds
      /\ BlockIds' = 1 .. last
  <2>1. blocks \in Seq(BlockRow)
    BY DEF BlocksOK, Core, CoreType
  <2> HIDE DEF new
  <2>2. QED BY <1>2, <2>1, AppendProperties, LenProperties DEF new, BlockIds
<1>4. /\ blocks'[last].start = nextNumber /\ blocks'[last].end = nextNumber + BlockSize - 1
      /\ blocks'[last].reported = 0 /\ blocks'[last].device = d
  BY <1>3
<1> HIDE DEF new, last
<1>5. CoreType'
  BY <1>2, <1>3 DEF Core, CoreType
<1>6. RangeInv'
  <2>1. \A x \in BlockIds : /\ blocks[x].start \in Nat /\ blocks[x].end \in Nat
                            /\ blocks[x].end < nextNumber
    BY <1>1, BlockFields DEF Core, RangeInv
  <2>2. QED BY SMTT(30), <1>2, <1>3, <1>4, <2>1, ConstantsAssumption DEF Core, RangeInv, RangesDisjoint
<1>7. \A e \in Device : \A x \in DOMAIN mirror[e] : x \in BlockIds
  BY DEF Core, CoreType
<1>8. RowInv' /\ MirrorKnown' /\ Stable
  BY <1>3, <1>7 DEF Core, RowInv, MirrorKnown, Known, Stable
<1>9. ServerKnown'
  BY <1>3, <1>4 DEF Core, ServerKnown, Known
<1>10. IssueInv'
  <2>1. NumberIssuedOnce'
    BY DEF Core, IssueInv, NumberIssuedOnce
  <2>2. (\A k \in Number : k >= nextNumber => issued[k] = 0)'
    BY <1>2 DEF Core, IssueInv, Number
  <2>3. ASSUME NEW k \in nextNumber .. nextNumber + BlockSize - 1
        PROVE  issued[k] = 0
    BY <1>2, ConstantsAssumption DEF Core, IssueInv, Number
  <2>4. PrintedIsRecorded'
    BY <1>3, <1>4, <2>3 DEF Core, IssueInv, PrintedIsRecorded
  <2>5. QED BY <1>3, <1>7, <2>1, <2>2, <2>4 DEF Core, IssueInv
<1>11. QED BY <1>3, <1>4, <1>5, <1>6, <1>8, <1>9, <1>10 DEF Core, last

-----------------------------------------------------------------------------
(* Every step keeps the core.                                              *)

LEMMA CoreNext ==
  ASSUME IInv, [Next]_vars
  PROVE  Core' /\ Stable
<1>1. Core /\ Travel
  BY IInvSplit
<1>2. BlocksOK /\ \A e \in Device : MirrorOK(e, mirror[e])
  BY <1>1, CoreFacts
<1>3. ASSUME NEW d \in Device, ConsumeNext(d) PROVE Core' /\ Stable
  BY <1>1, <1>3, CoreConsume
<1>4. ASSUME NEW d \in Device, FinalizeBootstrap(d) PROVE Core' /\ Stable
  <2> DEFINE rows == staged[d].rows
  <2>1. rows \subseteq Changes /\ \A r \in rows : KnownIn(d, mirror[d], r.block, r.reported)
    BY <1>1 DEF Travel, StagedOK, StagedKnown, Known, KnownIn
  <2>2. MirrorOK(d, Apply(mirror[d], rows)) /\ SameNext(mirror[d], Apply(mirror[d], rows))
    BY <1>2, <2>1, ApplyKnown
  <2>3. mirror' = [mirror EXCEPT ![d] = Apply(mirror[d], rows)] /\ UNCHANGED <<nextNumber, blocks, issued>>
    BY <1>1, <1>4 DEF FinalizeBootstrap, Core, CoreType
  <2>4. QED BY <1>1, <2>2, <2>3, CoreMerge
<1>5. ASSUME NEW d \in Device, ApplyPage(d) PROVE Core' /\ Stable
  <2> DEFINE read == SubSeq(unread[d], 1, page[d].size)
             rows == LastPerBlock(read)
  <2>1. /\ unread[d] \in Seq(Changes) /\ page[d].size \in Int
        /\ page[d].size <= Len(unread[d])
        /\ \A i \in 1 .. Len(unread[d]) : Known(d, unread[d][i].block, unread[d][i].reported)
    <3>1. unread[d] \in Seq(Changes) /\ page[d].size \in Int
      BY <1>1, PageFields DEF Travel, UnreadOK
    <3>2. DOMAIN unread[d] = 1 .. Len(unread[d])
      BY <3>1, LenProperties
    <3>3. QED BY <1>1, <3>1, <3>2 DEF Travel, UnreadOK, FeedKnown, PageInv
  <2>2. \A i \in 1 .. page[d].size : unread[d][i] \in Changes /\ i \in 1 .. Len(unread[d])
    BY <2>1, ElementOfSeq, LenProperties
  <2>3. /\ read \in Seq(Changes)
        /\ \A i \in 1 .. Len(read) : i \in 1 .. Len(unread[d]) /\ read[i] = unread[d][i]
    <3>1. /\ read \in Seq(Changes)
          /\ Len(read) = IF 1 <= page[d].size THEN page[d].size - 1 + 1 ELSE 0
          /\ \A i \in 1 .. page[d].size - 1 + 1 : read[i] = unread[d][1 + i - 1]
      BY <2>1, <2>2, SubSeqProperties
    <3>2. QED BY <2>1, <2>2, <3>1
  <2> HIDE DEF read
  <2>4. DOMAIN read = 1 .. Len(read)
    BY <2>3, LenProperties
  <2>5. \A r \in rows : \E i \in 1 .. Len(read) : r = read[i]
    BY <2>4 DEF LastPerBlock
  <2>6. rows \subseteq Changes /\ \A r \in rows : KnownIn(d, mirror[d], r.block, r.reported)
    <3>1. SUFFICES ASSUME NEW r \in rows
                   PROVE  r \in Changes /\ KnownIn(d, mirror[d], r.block, r.reported)
      OBVIOUS
    <3>2. PICK i \in 1 .. Len(read) : r = read[i]
      BY <2>5
    <3>3. Known(d, r.block, r.reported)
      BY <2>1, <2>3, <3>2
    <3>4. QED BY <2>3, <3>2, <3>3, ElementOfSeq DEF Known, KnownIn
  <2>7. MirrorOK(d, Apply(mirror[d], rows)) /\ SameNext(mirror[d], Apply(mirror[d], rows))
    BY <1>2, <2>6, ApplyKnown
  <2>8. mirror' = [mirror EXCEPT ![d] = Apply(mirror[d], rows)] /\ UNCHANGED <<nextNumber, blocks, issued>>
    BY <1>1, <1>5 DEF ApplyPage, Core, CoreType, read
  <2>9. QED BY <1>1, <2>7, <2>8, CoreMerge
<1>6. ASSUME NEW d \in Device, ReceiveBlock(d) PROVE Core' /\ Stable
  <2> DEFINE r == reply[d]
             m == Merge(mirror[d], r.block, r.reported, r.status, AllocatedRole(mirror[d]))
  <2>1. r.block \in BlockIds /\ r.reported \in Nat /\ r.status \in Statuses
    BY <1>1, <1>6 DEF ReceiveBlock, Travel, ReplyOK, Answers, NoReply
  <2>2. KnownIn(d, mirror[d], r.block, r.reported)
    BY <1>1, <1>6 DEF ReceiveBlock, Travel, ReplyOK, ReplyKnown, Known, KnownIn
  <2>3. AllocatedRole(mirror[d]) \in Roles
    BY DEF AllocatedRole, Roles
  <2>4. MirrorOK(d, m) /\ SameNext(mirror[d], m)
    BY <1>2, <2>1, <2>2, <2>3, MergeKnown
  <2>5. mirror' = [mirror EXCEPT ![d] = m] /\ UNCHANGED <<nextNumber, blocks, issued>>
    BY <1>1, <1>6 DEF ReceiveBlock, Core, CoreType
  <2>6. QED BY <1>1, <2>4, <2>5, CoreMerge
<1>7. ASSUME IssueOnline PROVE Core' /\ Stable
  BY <1>1, <1>7, CoreOnline
<1>8. ASSUME NEW m \in requests, Allocate(m) PROVE Core' /\ Stable
  <2>1. m.device \in Device
    BY <1>1 DEF Travel, RequestsOK, Request
  <2>2. CASE UNCHANGED server
    BY <1>1, <1>8, <2>2, CoreFrame DEF Allocate
  <2>3. CASE ~ UNCHANGED server
    <3>1. /\ nextNumber' = nextNumber + BlockSize /\ nextNumber' <= MaxNumber
          /\ blocks' = Append(blocks, [device |-> m.device, start |-> nextNumber,
                                       end |-> nextNumber + BlockSize - 1,
                                       reported |-> 0, status |-> "ACTIVE"])
          /\ UNCHANGED <<mirror, issued>>
      BY <1>1, <1>8, <2>3, ConstantsAssumption DEF Allocate, Refuse, Core, CoreType
    <3>2. QED BY <1>1, <2>1, <3>1, CoreAllocate
  <2>4. QED BY <2>2, <2>3
<1>9. ASSUME NEW m \in requests, ReportUsage(m) PROVE Core' /\ Stable
  <2>1. CASE UNCHANGED server
    BY <1>1, <1>9, <2>1, CoreFrame DEF ReportUsage
  <2>2. CASE ~ UNCHANGED server
    <3> DEFINE status == IF m.count = Capacity(m.block) THEN "EXHAUSTED" ELSE "ACTIVE"
    <3>1. m.block \in BlockIds /\ m.count \in Nat /\ Known(m.device, m.block, m.count)
      BY <1>1, <1>9 DEF ReportUsage, Travel, RequestsOK, RequestKnown, Request
    <3>2. /\ blocks' = [blocks EXCEPT ![m.block].reported = m.count, ![m.block].status = status]
          /\ blocks[m.block].device = m.device
          /\ UNCHANGED <<nextNumber, mirror, issued>>
      BY <1>9, <2>2 DEF ReportUsage, Refuse
    <3>3. status \in Statuses
      BY DEF Statuses
    <3>4. [blocks[m.block] EXCEPT !.reported = m.count, !.status = status] \in BlockRow
      BY <1>2, <3>1, <3>3, BlockFields DEF BlockRow
    <3>5. blocks' = [blocks EXCEPT ![m.block] =
                       [blocks[m.block] EXCEPT !.reported = m.count, !.status = status]]
      BY <1>2, <3>1, <3>2, LenProperties DEF BlocksOK, BlockIds
    <3>6. /\ blocks' \in Seq(BlockRow) /\ Len(blocks') = Len(blocks)
          /\ \A x \in BlockIds : blocks'[x] =
               IF x = m.block THEN [blocks[m.block] EXCEPT !.reported = m.count, !.status = status]
               ELSE blocks[x]
      BY <1>2, <3>1, <3>4, <3>5, ExceptSeq DEF BlocksOK, BlockIds
    <3>7. \A x \in BlockIds :
            /\ blocks'[x].device = blocks[x].device
            /\ blocks'[x].start = blocks[x].start /\ blocks'[x].end = blocks[x].end
            /\ blocks'[x].reported = IF x = m.block THEN m.count ELSE blocks[x].reported
      <4> HIDE DEF status
      <4>1. blocks[m.block] \in BlockRow
        BY <1>2, <3>1, BlockFields
      <4>2. QED BY ZenonT(60), <3>6, <4>1 DEF BlockRow
    <3>8. QED BY <1>1, <3>1, <3>2, <3>3, <3>6, <3>7, CoreRowChange
  <2>3. QED BY <2>1, <2>2
<1>10. ASSUME NEW b \in BlockIds, Cancel(b) PROVE Core' /\ Stable
  <2>1. [blocks[b] EXCEPT !.status = "CANCELLED"] \in BlockRow /\ blocks[b].reported \in Nat
    BY <1>2, BlockFields DEF BlockRow, Statuses
  <2>2. blocks' = [blocks EXCEPT ![b] = [blocks[b] EXCEPT !.status = "CANCELLED"]]
        /\ UNCHANGED <<nextNumber, mirror, issued>>
    BY <1>2, <1>10, LenProperties DEF Cancel, BlocksOK, BlockIds
  <2>3. /\ blocks' \in Seq(BlockRow) /\ Len(blocks') = Len(blocks)
        /\ \A x \in BlockIds : blocks'[x] =
             IF x = b THEN [blocks[b] EXCEPT !.status = "CANCELLED"] ELSE blocks[x]
    BY <1>2, <2>1, <2>2, ExceptSeq DEF BlocksOK, BlockIds
  <2>4. \A x \in BlockIds :
          /\ blocks'[x].device = blocks[x].device
          /\ blocks'[x].start = blocks[x].start /\ blocks'[x].end = blocks[x].end
          /\ blocks'[x].reported = IF x = b THEN blocks[b].reported ELSE blocks[x].reported
    BY ZenonT(60), <1>2, <2>3, BlockFields DEF BlockRow
  <2>5. Known(blocks[b].device, b, blocks[b].reported)
    BY <1>1 DEF Core, ServerKnown
  <2>6. QED BY <1>1, <2>1, <2>2, <2>3, <2>4, <2>5, CoreRowChange DEF Statuses
<1>11. ASSUME NEW d \in Device,
              \/ StageBootstrap(d) \/ ReadPage(d) \/ BeginPartiya(d)
              \/ SendReport(d) \/ SendAllocate(d) \/ CycleFails(d)
       PROVE  Core' /\ Stable
  BY <1>1, <1>11, CoreFrame
     DEF StageBootstrap, ReadPage, BeginPartiya, SendReport, SendAllocate, CycleFails
<1>12. ASSUME LoseRequest \/ UNCHANGED vars PROVE Core' /\ Stable
  BY <1>1, <1>12, CoreFrame DEF LoseRequest, vars
<1>13. QED
  BY <1>3, <1>4, <1>5, <1>6, <1>7, <1>8, <1>9, <1>10, <1>11, <1>12 DEF Next, Cycle, Handle, BlockIds

-----------------------------------------------------------------------------
(* Every step keeps what travels.                                          *)

\* A claim stays known as long as nobody rewrites the variable that holds it.
LEMMA TravelKept ==
  ASSUME Travel, Stable
  PROVE  /\ UNCHANGED unread => UnreadOK'
         /\ (requests' \subseteq requests) => RequestsOK'
         /\ UNCHANGED staged => StagedOK'
         /\ UNCHANGED todo => TodoOK'
         /\ UNCHANGED reply => ReplyOK'
         /\ Changes \subseteq Changes'
<1>1. Changes \subseteq Changes'
  BY DEF Stable, Changes
<1>2. \A c \in Changes : c.block \in BlockIds /\ c.reported \in Nat
  BY DEF Changes
<1>3. ASSUME UNCHANGED unread PROVE UnreadOK'
  <2>1. \A d \in Device : unread[d] \in Seq(Changes')
    BY <1>1, SeqMonotonic DEF Travel, UnreadOK
  <2>2. unread' \in [Device -> Seq(Changes')]
    BY <1>3, <2>1 DEF Travel, UnreadOK
  <2>3. ASSUME NEW d \in Device, NEW i \in DOMAIN unread[d]
        PROVE  Known(d, unread[d][i].block, unread[d][i].reported)'
    <3>1. unread[d] \in Seq(Changes)
      BY DEF Travel, UnreadOK
    <3>2. unread[d][i] \in Changes
      BY <3>1, ElementOfSeq, LenProperties
    <3>3. Known(d, unread[d][i].block, unread[d][i].reported)
      BY DEF Travel, UnreadOK, FeedKnown
    <3>4. QED BY <1>2, <1>3, <3>2, <3>3 DEF Stable
  <2>4. QED BY <1>3, <2>2, <2>3 DEF UnreadOK, FeedKnown
<1>4. ASSUME requests' \subseteq requests PROVE RequestsOK'
  <2>1. Request \subseteq Request'
    BY DEF Request, Stable
  <2>2. ASSUME NEW m \in requests, m.kind = "usage"
        PROVE  m.block # 0 /\ Known(m.device, m.block, m.count)'
    <3>1. m \in Request /\ m.block # 0 /\ Known(m.device, m.block, m.count)
      BY <2>2 DEF Travel, RequestsOK, RequestKnown
    <3>2. QED BY <3>1 DEF Request, Stable
  <2>3. QED BY <1>4, <2>1, <2>2 DEF Travel, RequestsOK, RequestKnown
<1>5. ASSUME UNCHANGED staged PROVE StagedOK'
  <2>1. staged' \in [Device -> [ready : BOOLEAN, rows : SUBSET Changes']]
    BY <1>1, <1>5 DEF Travel, StagedOK
  <2>2. ASSUME NEW d \in Device, NEW r \in staged[d].rows
        PROVE  Known(d, r.block, r.reported)'
    <3>1. r \in Changes /\ Known(d, r.block, r.reported)
      BY DEF Travel, StagedOK, StagedKnown
    <3>2. QED BY <1>2, <3>1 DEF Stable
  <2>3. QED BY <1>5, <2>1, <2>2 DEF StagedOK, StagedKnown
<1>6. ASSUME UNCHANGED todo PROVE TodoOK'
  <2>1. todo' \in [Device -> SUBSET [block : BlockIds', count : Nat]]
    BY <1>6 DEF Travel, TodoOK, Stable
  <2>2. ASSUME NEW d \in Device, NEW r \in todo[d]
        PROVE  Known(d, r.block, r.count)'
    <3>1. r.block \in BlockIds /\ r.count \in Nat /\ Known(d, r.block, r.count)
      BY DEF Travel, TodoOK, TodoKnown
    <3>2. QED BY <3>1 DEF Stable
  <2>3. QED BY <1>6, <2>1, <2>2 DEF TodoOK, TodoKnown
<1>7. ASSUME UNCHANGED reply PROVE ReplyOK'
  <2>1. Answers \subseteq Answers'
    BY DEF Answers, Stable
  <2>2. reply' \in [Device -> Answers']
    BY <1>7, <2>1 DEF Travel, ReplyOK
  <2>3. ASSUME NEW d \in Device, reply[d].kind = "block"
        PROVE  Known(d, reply[d].block, reply[d].reported)'
    <3>1. reply[d] \in Answers /\ Known(d, reply[d].block, reply[d].reported)
      BY <2>3 DEF Travel, ReplyOK, ReplyKnown
    <3>2. reply[d].block \in BlockIds /\ reply[d].reported \in Nat
      BY <2>3, <3>1 DEF Answers, NoReply
    <3>3. QED BY <1>7, <3>1, <3>2 DEF Stable
  <2>4. QED BY <1>7, <2>2, <2>3 DEF ReplyOK, ReplyKnown
<1>8. QED BY <1>1, <1>3, <1>4, <1>5, <1>6, <1>7

\* A handler records a change of device d's block b and answers request m.
LEMMA TravelHandled ==
  ASSUME Travel, Stable, NEW d \in Device, NEW b \in BlockIds', NEW count \in Nat,
         NEW status \in Statuses, Known(d, b, count)',
         Record(d, Change(b, count, status))
  PROVE  UnreadOK' /\ (UNCHANGED page => PageInv')
<1> DEFINE change == Change(b, count, status)
           old == unread[d]
<1>1. change \in Changes' /\ change.block = b /\ change.reported = count
  BY DEF Change, Changes
<1>2. UNCHANGED unread \/ unread' = [unread EXCEPT ![d] = Append(old, change)]
  BY DEF Record
<1>3. CASE UNCHANGED unread
  BY <1>3, TravelKept DEF Travel, PageInv
<1>4. CASE unread' = [unread EXCEPT ![d] = Append(old, change)]
  <2>1. \A e \in Device : unread[e] \in Seq(Changes) /\ unread[e] \in Seq(Changes')
    BY TravelKept, SeqMonotonic DEF Travel, UnreadOK
  <2> HIDE DEF change
  <2>2. /\ Append(old, change) \in Seq(Changes') /\ Len(Append(old, change)) = Len(old) + 1
        /\ \A i \in 1 .. Len(old) : Append(old, change)[i] = old[i]
        /\ Append(old, change)[Len(old) + 1] = change
        /\ Len(old) \in Nat
    BY <1>1, <2>1, AppendProperties, LenProperties
  <2>3. /\ unread' \in [Device -> Seq(Changes')]
        /\ unread'[d] = Append(old, change)
        /\ \A e \in Device : e # d => unread'[e] = unread[e]
    BY <1>4, <2>1, <2>2 DEF Travel, UnreadOK
  <2>4. ASSUME NEW e \in Device, NEW i \in DOMAIN unread[e]
        PROVE  Known(e, unread[e][i].block, unread[e][i].reported)'
               \/ unread'[e][i] # unread[e][i]
    <3>1. unread[e][i] \in Changes
      BY <2>1, ElementOfSeq, LenProperties
    <3>2. Known(e, unread[e][i].block, unread[e][i].reported)
      BY DEF Travel, UnreadOK, FeedKnown
    <3>3. unread[e][i].block \in BlockIds /\ unread[e][i].reported \in Nat
      BY <3>1 DEF Changes
    <3>4. \A bb \in BlockIds, cc \in Nat : Known(e, bb, cc) => Known(e, bb, cc)'
      BY DEF Stable
    <3>5. CASE unread'[e][i] = unread[e][i]
      BY <3>2, <3>3, <3>4, <3>5
    <3>6. QED BY <3>5
  <2>5. FeedKnown'
    <3>1. SUFFICES ASSUME NEW e \in Device, NEW i \in DOMAIN unread'[e]
                   PROVE  Known(e, unread[e][i].block, unread[e][i].reported)'
      BY DEF FeedKnown
    <3>2. DOMAIN unread'[e] = 1 .. Len(unread'[e]) /\ DOMAIN unread[e] = 1 .. Len(unread[e])
      BY <2>1, <2>3, LenProperties
    <3>3. CASE i \in DOMAIN unread[e] /\ unread'[e][i] = unread[e][i]
      BY <2>4, <3>3
    <3>4. CASE ~ (i \in DOMAIN unread[e] /\ unread'[e][i] = unread[e][i])
      <4>1. e = d /\ i = Len(old) + 1
        BY <2>2, <2>3, <3>1, <3>2, <3>4
      <4>2. unread'[e][i] = change
        BY <2>2, <2>3, <4>1
      <4>3. QED BY <1>1, <4>1, <4>2
    <3>5. QED BY <3>3, <3>4
  <2>6. ASSUME UNCHANGED page PROVE PageInv'
    <3>1. \A e \in Device : Len(unread[e]) \in Nat /\ page[e].size \in Int
      BY <2>1, LenProperties, PageFields
    <3>2. QED BY <2>2, <2>3, <2>6, <3>1 DEF Travel, PageInv
  <2>7. QED BY <2>3, <2>5, <2>6 DEF UnreadOK
<1>5. QED BY <1>2, <1>3, <1>4

\* An answer without a block holds no claim.
LEMMA AnswerOther ==
  ASSUME Travel, Stable, NEW d \in Device, NEW answer \in {NoReply, [kind |-> "error"]},
         reply' = [reply EXCEPT ![d] = answer]
  PROVE  ReplyOK'
<1>1. answer.kind # "block" /\ answer \in Answers'
  BY DEF NoReply, Answers
<1>2. Answers \subseteq Answers'
  BY DEF Answers, Stable
<1>3. reply' \in [Device -> Answers']
  BY <1>1, <1>2 DEF Travel, ReplyOK
<1>4. ASSUME NEW e \in Device, reply'[e].kind = "block"
      PROVE  Known(e, reply[e].block, reply[e].reported)'
  <2>1. e # d /\ reply'[e] = reply[e]
    BY <1>1, <1>4 DEF Travel, ReplyOK
  <2>2. reply[e] \in Answers /\ Known(e, reply[e].block, reply[e].reported)
    BY <1>4, <2>1 DEF Travel, ReplyOK, ReplyKnown
  <2>3. reply[e].block \in BlockIds /\ reply[e].reported \in Nat
    BY <1>4, <2>1, <2>2 DEF Answers, NoReply
  <2>4. QED BY <2>1, <2>2, <2>3 DEF Stable
<1>5. QED BY <1>3, <1>4 DEF ReplyOK, ReplyKnown

\* A handler answers with the row it just wrote.
LEMMA AnswerBlock ==
  ASSUME Travel, Stable, NEW m, m.device \in Device, NEW b \in BlockIds', NEW count \in Nat,
         NEW status \in Statuses, Known(m.device, b, count)',
         Answer(m, [kind |-> "block", block |-> b, reported |-> count, status |-> status])
  PROVE  ReplyOK'
<1> DEFINE answer == [kind |-> "block", block |-> b, reported |-> count, status |-> status]
<1>1. answer \in Answers' /\ answer.block = b /\ answer.reported = count
  BY DEF Answers
<1>2. Answers \subseteq Answers'
  BY DEF Answers, Stable
<1>3. UNCHANGED reply \/ reply' = [reply EXCEPT ![m.device] = answer]
  BY DEF Answer
<1>4. CASE UNCHANGED reply
  BY <1>4, TravelKept
<1>5. CASE reply' = [reply EXCEPT ![m.device] = answer]
  <2> HIDE DEF answer
  <2>1. /\ reply' \in [Device -> Answers']
        /\ reply'[m.device] = answer
        /\ \A e \in Device : e # m.device => reply'[e] = reply[e]
    BY <1>1, <1>2, <1>5 DEF Travel, ReplyOK
  <2>2. ASSUME NEW e \in Device, reply'[e].kind = "block"
        PROVE  Known(e, reply[e].block, reply[e].reported)'
    <3>1. CASE e = m.device
      BY <1>1, <2>1, <3>1
    <3>2. CASE e # m.device
      <4>1. reply'[e] = reply[e]
        BY <2>1, <3>2
      <4>2. reply[e] \in Answers /\ Known(e, reply[e].block, reply[e].reported)
        BY <2>2, <4>1 DEF Travel, ReplyOK, ReplyKnown
      <4>3. reply[e].block \in BlockIds /\ reply[e].reported \in Nat
        BY <2>2, <4>1, <4>2 DEF Answers, NoReply
      <4>4. QED BY <4>1, <4>2, <4>3 DEF Stable
    <3>3. QED BY <3>1, <3>2
  <2>3. QED BY <2>1, <2>2 DEF ReplyOK, ReplyKnown
<1>6. QED BY <1>3, <1>4, <1>5

\* The reports of a cycle are computed from counts the device reached itself.
LEMMA ReportsComputed ==
  ASSUME Core', Travel, Stable, NEW d \in Device,
         todo' = [todo EXCEPT ![d] = PendingUsageReports(mirror'[d])]
  PROVE  TodoOK'
<1>1. PendingUsageReports(mirror'[d]) = PendingUsageReports(mirror[d])'
  BY DEF PendingUsageReports
<1>2. \A r \in PendingUsageReports(mirror[d])' :
        /\ r \in [block : BlockIds', count : Nat]
        /\ Known(d, r.block, r.count)'
  <2>1. SUFFICES ASSUME NEW b \in DOMAIN mirror'[d], NEW count, count = mirror'[d][b].consumed
                 PROVE  b \in BlockIds' /\ count \in Nat /\ Known(d, b, count)'
    BY DEF PendingUsageReports
  <2>2. QED BY <2>1 DEF Core, CoreType, MirrorRow, MirrorKnown
<1>3. todo' \in [Device -> SUBSET [block : BlockIds', count : Nat]]
  BY <1>1, <1>2 DEF Travel, TodoOK, Stable
<1>4. ASSUME NEW e \in Device, NEW r \in todo'[e]
      PROVE  Known(e, r.block, r.count)'
  <2>1. CASE e = d
    BY <1>1, <1>2, <2>1 DEF Travel, TodoOK
  <2>2. CASE e # d
    <3>1. r \in todo[e]
      BY <2>2 DEF Travel, TodoOK
    <3>2. r.block \in BlockIds /\ r.count \in Nat /\ Known(e, r.block, r.count)
      BY <3>1 DEF Travel, TodoOK, TodoKnown
    <3>3. QED BY <3>2 DEF Stable
  <2>3. QED BY <2>1, <2>2
<1>5. QED BY <1>3, <1>4 DEF TodoOK, TodoKnown

\* A page takes its changes out of the feed and may end the pull.
LEMMA PageApplied ==
  ASSUME IInv, NEW d \in Device, ApplyPage(d)
  PROVE  Travel'
<1>1. Core /\ Travel /\ Stable /\ Core'
  <2>1. [Next]_vars
    BY DEF Next, Cycle
  <2>2. QED BY <2>1, IInvSplit, CoreNext
<1> DEFINE old == unread[d]
           size == page[d].size
           left == SubSeq(old, size + 1, Len(old))
<1>2. /\ \A e \in Device : unread[e] \in Seq(Changes) /\ Len(unread[e]) \in Nat
      /\ \A e \in Device : page[e] = NoPage \/ page[e].size \in Nat
      /\ \A e \in Device : page[e].size <= Len(unread[e])
      /\ size \in Nat
  BY <1>1, LenProperties DEF Travel, UnreadOK, LoopType, PageInv, ApplyPage
<1>3. /\ unread' = [unread EXCEPT ![d] = left]
      /\ page' = [page EXCEPT ![d] = NoPage]
      /\ UNCHANGED <<blocks, requests, booted, staged, awaiting, reply>>
  BY DEF ApplyPage
<1>4. BlockIds' = BlockIds /\ Changes' = Changes
  BY <1>3 DEF BlockIds, Changes
<1>5. /\ left \in Seq(Changes) /\ Len(left) \in Nat
      /\ \A i \in DOMAIN left : i + size \in DOMAIN old /\ left[i] = old[i + size]
  <2>1. \A i \in size + 1 .. Len(old) : old[i] \in Changes
    BY <1>2, ElementOfSeq
  <2>2. /\ left \in Seq(Changes)
        /\ Len(left) = IF size + 1 <= Len(old) THEN Len(old) - (size + 1) + 1 ELSE 0
        /\ \A i \in 1 .. Len(old) - (size + 1) + 1 : left[i] = old[size + 1 + i - 1]
    <3>1. size + 1 \in Int /\ Len(old) \in Int
      BY <1>2
    <3> HIDE DEF size, old
    <3>2. QED BY <2>1, <3>1, SubSeqProperties
  <2>3. DOMAIN left = 1 .. Len(left) /\ DOMAIN old = 1 .. Len(old)
    BY <1>2, <2>2, LenProperties
  <2> HIDE DEF left, size, old
  <2>4. QED BY SMTT(40), <1>2, <2>2, <2>3 DEF old
<1> HIDE DEF left, size
<1>6. \A e \in Device : unread'[e] = IF e = d THEN left ELSE unread[e]
  BY <1>1, <1>3 DEF Travel, UnreadOK
<1>7. UnreadOK'
  <2>1. unread' \in [Device -> Seq(Changes')]
    BY <1>1, <1>3, <1>4, <1>5 DEF Travel, UnreadOK
  <2>2. ASSUME NEW e \in Device, NEW i \in DOMAIN unread'[e]
        PROVE  Known(e, unread[e][i].block, unread[e][i].reported)'
    <3>1. PICK j \in DOMAIN unread[e] : unread'[e][i] = unread[e][j]
      BY <1>5, <1>6
    <3>2. unread[e][j] \in Changes
      BY <1>2, ElementOfSeq, LenProperties
    <3>3. Known(e, unread[e][j].block, unread[e][j].reported)
      BY <1>1 DEF Travel, UnreadOK, FeedKnown
    <3>4. QED BY <1>1, <3>1, <3>2, <3>3 DEF Stable, Changes
  <2>3. QED BY <2>1, <2>2 DEF UnreadOK, FeedKnown
<1>8. PageInv'
  <2>1. \A e \in Device : page'[e] = IF e = d THEN NoPage ELSE page[e]
    BY <1>1, <1>3, PageFields
  <2>2. NoPage.size = -1
    BY DEF NoPage
  <2>3. QED BY <1>2, <1>5, <1>6, <2>1, <2>2 DEF PageInv
<1>9. LoopType'
  BY <1>1, <1>3 DEF ApplyPage, Travel, LoopType, NoPage
<1>10. TodoOK'
  <2>1. CASE UNCHANGED todo
    BY <1>1, <2>1, TravelKept
  <2>2. CASE todo' = [todo EXCEPT ![d] = PendingUsageReports(mirror'[d])]
    BY <1>1, <2>2, ReportsComputed
  <2>3. CASE todo' = [todo EXCEPT ![d] = {}]
    <3>1. \A e \in Device : todo'[e] \subseteq todo[e]
      BY <1>1, <2>3 DEF Travel, TodoOK
    <3>2. todo' \in [Device -> SUBSET [block : BlockIds', count : Nat]]
      BY <1>1, <1>4, <2>3 DEF Travel, TodoOK
    <3>3. ASSUME NEW e \in Device, NEW q \in todo'[e] PROVE Known(e, q.block, q.count)'
      <4>1. q.block \in BlockIds /\ q.count \in Nat /\ Known(e, q.block, q.count)
        BY <1>1, <3>1 DEF Travel, TodoOK, TodoKnown
      <4>2. QED BY <1>1, <4>1 DEF Stable
    <3>4. QED BY <3>2, <3>3 DEF TodoOK, TodoKnown
  <2>4. QED BY <2>1, <2>2, <2>3 DEF ApplyPage
<1>11. QED BY <1>1, <1>3, <1>7, <1>8, <1>9, <1>10, TravelKept DEF Travel

\* A report sent carries the count it was computed with.
LEMMA RequestSent ==
  ASSUME IInv, NEW d \in Device, SendReport(d) \/ SendAllocate(d)
  PROVE  Travel'
<1>1. Core /\ Travel /\ Stable
  <2>1. [Next]_vars
    BY DEF Next, Cycle
  <2>2. QED BY <2>1, IInvSplit, CoreNext
<1>2. ASSUME NEW kind \in {"usage", "allocate"}, NEW b \in {0} \cup BlockIds, NEW count \in Nat,
             kind = "usage" => b # 0 /\ Known(d, b, count),
             Send(d, kind, b, count)
      PROVE  RequestsOK' /\ awaiting' \in [Device -> {0} \cup Slot]
  <2> DEFINE s == Least(FreeSlots(d))
             m == [device |-> d, slot |-> s, kind |-> kind, block |-> b, count |-> count]
  <2>1. s \in Slot
    <3>1. FreeSlots(d) \subseteq Nat /\ FreeSlots(d) # {} /\ FreeSlots(d) \subseteq Slot
      BY <1>2, ConstantsAssumption DEF Send, FreeSlots, Slot
    <3>2. QED BY <3>1, LeastIsElement
  <2>2. requests' = requests \cup {m} /\ awaiting' = [awaiting EXCEPT ![d] = s]
    BY <1>2 DEF Send
  <2> HIDE DEF s
  <2>3. m \in Request'
    BY <1>1, <1>2, <2>1 DEF Request, Stable
  <2>4. /\ m.kind = kind /\ m.block = b /\ m.count = count /\ m.device = d
    OBVIOUS
  <2> HIDE DEF m
  <2>5. ASSUME NEW q \in requests'
        PROVE  /\ q \in Request'
               /\ q.kind = "usage" => q.block # 0 /\ Known(q.device, q.block, q.count)'
    <3>1. CASE q = m
      <4>1. kind = "usage" => b \in BlockIds /\ Known(d, b, count)
        BY <1>2
      <4>2. QED BY <1>1, <1>2, <2>3, <2>4, <3>1, <4>1 DEF Stable
    <3>2. CASE q \in requests
      <4>1. q \in Request /\ (q.kind = "usage" => q.block # 0 /\ Known(q.device, q.block, q.count))
        BY <1>1, <3>2 DEF Travel, RequestsOK, RequestKnown
      <4>2. QED BY <1>1, <4>1 DEF Request, Stable
    <3>3. QED BY <2>2, <3>1, <3>2
  <2>6. QED BY <1>1, <2>1, <2>2, <2>5 DEF RequestsOK, RequestKnown, Travel, LoopType
<1>3. CASE SendReport(d)
  <2>1. PICK r \in todo[d] : /\ Send(d, "usage", r.block, r.count)
                            /\ todo' = [todo EXCEPT ![d] = @ \ {r}]
                            /\ UNCHANGED <<server, local, phase, page, reply, issued>>
    BY <1>3 DEF SendReport
  <2>2. r.block \in BlockIds /\ r.count \in Nat /\ Known(d, r.block, r.count) /\ r.block # 0
    BY <1>1 DEF Travel, TodoOK, TodoKnown, BlockIds
  <2>3. RequestsOK' /\ awaiting' \in [Device -> {0} \cup Slot]
    BY <1>2, <2>1, <2>2
  <2>4. LoopType' /\ PageInv'
    BY <1>1, <2>1, <2>3 DEF Travel, LoopType, PageInv
  <2>5. TodoOK'
    <3>1. \A e \in Device : todo'[e] \subseteq todo[e]
      BY <1>1, <2>1 DEF Travel, TodoOK
    <3>2. todo' \in [Device -> SUBSET [block : BlockIds', count : Nat]]
      BY <1>1, <2>1 DEF Travel, TodoOK, Stable
    <3>3. ASSUME NEW e \in Device, NEW q \in todo'[e] PROVE Known(e, q.block, q.count)'
      <4>1. q.block \in BlockIds /\ q.count \in Nat /\ Known(e, q.block, q.count)
        BY <1>1, <3>1 DEF Travel, TodoOK, TodoKnown
      <4>2. QED BY <1>1, <4>1 DEF Stable
    <3>4. QED BY <3>2, <3>3 DEF TodoOK, TodoKnown
  <2>6. QED BY <1>1, <2>1, <2>3, <2>4, <2>5, TravelKept DEF Travel
<1>4. CASE SendAllocate(d)
  <2>1. /\ UNCHANGED <<server, local, page, todo, reply, issued>>
        /\ Send(d, "allocate", 0, 0) \/ UNCHANGED <<requests, awaiting>>
        /\ phase' = [phase EXCEPT ![d] = "prefetch"] \/ phase' = [phase EXCEPT ![d] = "idle"]
    BY <1>4 DEF SendAllocate
  <2>2. RequestsOK' /\ awaiting' \in [Device -> {0} \cup Slot]
    <3>1. CASE Send(d, "allocate", 0, 0)
      BY <1>2, <3>1
    <3>2. CASE UNCHANGED <<requests, awaiting>>
      BY <1>1, <3>2, TravelKept DEF Travel, LoopType
    <3>3. QED BY <2>1, <3>1, <3>2
  <2>3. LoopType' /\ PageInv'
    BY <1>1, <2>1, <2>2 DEF Travel, LoopType, PageInv
  <2>4. QED BY <1>1, <2>1, <2>2, <2>3, TravelKept DEF Travel
<1>5. QED BY <1>3, <1>4

LEMMA CycleFailed ==
  ASSUME IInv, NEW d \in Device, CycleFails(d)
  PROVE  Travel'
<1>1. Core /\ Travel /\ Stable
  <2>1. [Next]_vars
    BY DEF Next
  <2>2. QED BY <2>1, IInvSplit, CoreNext
<1>2. /\ phase' = [phase EXCEPT ![d] = "idle"] /\ page' = [page EXCEPT ![d] = NoPage]
      /\ todo' = [todo EXCEPT ![d] = {}] /\ awaiting' = [awaiting EXCEPT ![d] = 0]
      /\ reply' = [reply EXCEPT ![d] = NoReply]
      /\ UNCHANGED <<server, requests, local, issued>>
  BY DEF CycleFails
<1>3. ReplyOK'
  BY <1>1, <1>2, AnswerOther
<1>4. LoopType'
  BY <1>1, <1>2 DEF Travel, LoopType
<1>5. PageInv'
  <2>1. \A e \in Device : Len(unread[e]) \in Nat
    BY <1>1, LenProperties DEF Travel, UnreadOK
  <2>2. QED BY <1>1, <1>2, <2>1 DEF Travel, LoopType, PageInv, NoPage
<1>6. TodoOK'
  <2>1. \A e \in Device : todo'[e] \subseteq todo[e]
    BY <1>1, <1>2 DEF Travel, TodoOK
  <2>2. todo' \in [Device -> SUBSET [block : BlockIds', count : Nat]]
    BY <1>1, <1>2 DEF Travel, TodoOK, Stable
  <2>3. ASSUME NEW e \in Device, NEW q \in todo'[e] PROVE Known(e, q.block, q.count)'
    <3>1. q.block \in BlockIds /\ q.count \in Nat /\ Known(e, q.block, q.count)
      BY <1>1, <2>1 DEF Travel, TodoOK, TodoKnown
    <3>2. QED BY <1>1, <3>1 DEF Stable
  <2>4. QED BY <2>2, <2>3 DEF TodoOK, TodoKnown
<1>7. QED BY <1>1, <1>2, <1>3, <1>4, <1>5, <1>6, TravelKept DEF Travel

LEMMA TravelNext ==
  ASSUME IInv, [Next]_vars
  PROVE  Travel'
<1>1. Core /\ Travel /\ Stable /\ Core'
  BY IInvSplit, CoreNext
<1>2. \A d \in Device : /\ unread[d] \in Seq(Changes) /\ Len(unread[d]) \in Nat
                        /\ page[d].size \in Int /\ page[d].size <= Len(unread[d])
                        /\ page[d].more \in BOOLEAN
  BY <1>1, LenProperties, PageFields DEF Travel, UnreadOK, PageInv
<1>3. ASSUME NEW d \in Device, ConsumeNext(d) PROVE Travel'
  BY <1>1, <1>3, TravelKept DEF ConsumeNext, Travel, LoopType, PageInv
<1>4. ASSUME IssueOnline PROVE Travel'
  BY <1>1, <1>4, TravelKept DEF IssueOnline, Travel, LoopType, PageInv
<1>5. ASSUME NEW m \in requests, Allocate(m) PROVE Travel'
  <2>1. m.device \in Device
    BY <1>1 DEF Travel, RequestsOK, Request
  <2>2. RequestsOK' /\ StagedOK' /\ TodoOK' /\ LoopType'
    BY <1>1, <1>5, TravelKept DEF Allocate, Travel, LoopType
  <2>3. CASE Refuse(m)
    <3>1. UnreadOK' /\ PageInv'
      BY <1>1, <1>5, <2>3, TravelKept DEF Allocate, Refuse, Travel, PageInv
    <3>2. CASE UNCHANGED reply
      BY <1>1, <2>2, <3>1, <3>2, TravelKept DEF Travel
    <3>3. CASE reply' = [reply EXCEPT ![m.device] = [kind |-> "error"]]
      <4>1. ReplyOK'
        BY <1>1, <2>1, <3>3, AnswerOther
      <4>2. QED BY <2>2, <3>1, <4>1 DEF Travel
    <3>4. QED BY <2>3, <3>2, <3>3 DEF Refuse, Answer
  <2>4. CASE ~ Refuse(m)
    <3>0. PICK b \in Nat : b = Len(blocks) + 1
      BY <1>1, LenProperties DEF Core, CoreType
    <3>1. /\ nextNumber' = nextNumber + BlockSize /\ nextNumber' <= MaxNumber
          /\ blocks' = Append(blocks, [device |-> m.device, start |-> nextNumber,
                                       end |-> nextNumber + BlockSize - 1,
                                       reported |-> 0, status |-> "ACTIVE"])
          /\ UNCHANGED <<mirror, issued, page>>
          /\ Record(m.device, Change(b, 0, "ACTIVE"))
          /\ Answer(m, [kind |-> "block", block |-> b, reported |-> 0, status |-> "ACTIVE"])
      BY SMTT(30), <1>1, <1>5, <2>4, <3>0, ConstantsAssumption DEF Allocate, Core, CoreType
    <3>2. b \in BlockIds' /\ blocks'[b].device = m.device
      <4>1. blocks \in Seq(BlockRow)
        BY <1>1 DEF Core, CoreType
      <4>2. Len(blocks) \in Nat
        BY <4>1, LenProperties
      <4>3. BlockIds' = 1 .. b /\ blocks'[b].device = m.device
        BY <1>1, <2>1, <3>0, <3>1, CoreAllocate
      <4>4. QED BY <3>0, <4>2, <4>3
    <3>3. Known(m.device, b, 0)' /\ "ACTIVE" \in Statuses
      BY <3>2 DEF Known, Statuses
    <3>4. UnreadOK' /\ PageInv'
      BY <1>1, <2>1, <3>1, <3>2, <3>3, TravelHandled
    <3>5. ReplyOK'
      BY <1>1, <2>1, <3>1, <3>2, <3>3, AnswerBlock
    <3>6. QED BY <2>2, <3>4, <3>5 DEF Travel
  <2>5. QED BY <2>3, <2>4
<1>6. ASSUME NEW m \in requests, ReportUsage(m) PROVE Travel'
  <2>1. /\ m.device \in Device /\ m.block \in BlockIds /\ m.count \in Nat
        /\ Known(m.device, m.block, m.count)
    BY <1>1, <1>6 DEF ReportUsage, Travel, RequestsOK, RequestKnown, Request
  <2>2. RequestsOK' /\ StagedOK' /\ TodoOK' /\ LoopType'
    BY <1>1, <1>6, TravelKept DEF ReportUsage, Travel, LoopType
  <2>3. CASE Refuse(m)
    <3>1. UnreadOK' /\ PageInv'
      BY <1>1, <1>6, <2>3, TravelKept DEF ReportUsage, Refuse, Travel, PageInv
    <3>2. CASE UNCHANGED reply
      BY <1>1, <2>2, <3>1, <3>2, TravelKept DEF Travel
    <3>3. CASE reply' = [reply EXCEPT ![m.device] = [kind |-> "error"]]
      <4>1. ReplyOK'
        BY <1>1, <2>1, <3>3, AnswerOther
      <4>2. QED BY <2>2, <3>1, <4>1 DEF Travel
    <3>4. QED BY <2>3, <3>2, <3>3 DEF Refuse, Answer
  <2>4. CASE ~ Refuse(m)
    <3> DEFINE status == IF m.count = Capacity(m.block) THEN "EXHAUSTED" ELSE "ACTIVE"
    <3>1. /\ Record(m.device, Change(m.block, m.count, status))
          /\ Answer(m, [kind |-> "block", block |-> m.block, reported |-> m.count,
                        status |-> status])
          /\ UNCHANGED page
      BY <1>6, <2>4 DEF ReportUsage
    <3>2. status \in Statuses
      BY DEF Statuses
    <3> HIDE DEF status
    <3>3. m.block \in BlockIds' /\ Known(m.device, m.block, m.count)'
      BY <1>1, <2>1 DEF Stable
    <3>4. UnreadOK' /\ PageInv'
      BY <1>1, <2>1, <3>1, <3>2, <3>3, TravelHandled
    <3>5. ReplyOK'
      BY <1>1, <2>1, <3>1, <3>2, <3>3, AnswerBlock
    <3>6. QED BY <2>2, <3>4, <3>5 DEF Travel
  <2>5. QED BY <2>3, <2>4
<1>7. ASSUME NEW b \in BlockIds, Cancel(b) PROVE Travel'
  <2>1. blocks[b].device \in Device /\ blocks[b].reported \in Nat
    BY <1>1, CoreFacts, BlockFields
  <2>2. b \in BlockIds' /\ Known(blocks[b].device, b, blocks[b].reported)
    BY <1>1 DEF Core, ServerKnown, Stable
  <2>3. \E e \in Device, count \in Nat :
          Known(e, b, count)' /\ Record(e, Change(b, count, "CANCELLED"))
    <3>1. \A e \in Device, count \in Nat : Known(e, b, count) => Known(e, b, count)'
      BY <1>1 DEF Stable
    <3>2. Record(blocks[b].device, Change(b, blocks[b].reported, "CANCELLED"))
      BY <1>7 DEF Cancel
    <3>3. PICK e \in Device, count \in Nat : e = blocks[b].device /\ count = blocks[b].reported
      BY <2>1
    <3>4. QED BY <2>2, <3>1, <3>2, <3>3
  <2>4. UnreadOK' /\ PageInv'
    BY <1>1, <1>7, <2>2, <2>3, TravelHandled DEF Cancel, Statuses
  <2>5. QED BY <1>1, <1>7, <2>4, TravelKept DEF Cancel, Travel, LoopType
<1>8. ASSUME NEW d \in Device, StageBootstrap(d) PROVE Travel'
  <2> DEFINE rows == {Change(b, blocks[b].reported, blocks[b].status) :
                        b \in {x \in 1 .. Len(blocks) : blocks[x].device = d}}
  <2>1. /\ staged' = [staged EXCEPT ![d] = [ready |-> TRUE, rows |-> rows]]
        /\ unread' = [unread EXCEPT ![d] = <<>>]
        /\ page[d] = NoPage
        /\ UNCHANGED <<nextNumber, blocks, requests, mirror, booted, page, todo, awaiting, reply, issued>>
        /\ phase' = [phase EXCEPT ![d] = "idle"]
    BY <1>8 DEF StageBootstrap
  <2>2. BlockIds' = BlockIds /\ Changes' = Changes
    BY <2>1 DEF BlockIds, Changes
  <2>3. \A r \in rows : r \in Changes /\ Known(d, r.block, r.reported)
    <3>1. SUFFICES ASSUME NEW b \in BlockIds, blocks[b].device = d
                   PROVE  /\ Change(b, blocks[b].reported, blocks[b].status) \in Changes
                          /\ Known(d, b, blocks[b].reported)
      BY DEF BlockIds, Change
    <3>2. QED BY <1>1, <3>1, CoreFacts, BlockFields DEF Change, Changes, Core, ServerKnown
  <2> HIDE DEF rows
  <2>4. StagedOK'
    <3>1. staged' \in [Device -> [ready : BOOLEAN, rows : SUBSET Changes']]
      BY <1>1, <2>1, <2>2, <2>3 DEF Travel, StagedOK
    <3>2. StagedKnown'
      BY <1>1, <2>1, <2>3 DEF Travel, StagedOK, StagedKnown, Known
    <3>3. QED BY <3>1, <3>2 DEF StagedOK
  <2>5. \A e \in Device : unread'[e] = IF e = d THEN <<>> ELSE unread[e]
    BY <1>1, <2>1 DEF Travel, UnreadOK
  <2>6. UnreadOK'
    <3>1. <<>> \in Seq(Changes) /\ DOMAIN <<>> = {}
      OBVIOUS
    <3>2. unread' \in [Device -> Seq(Changes')]
      BY <1>1, <2>1, <2>2, <3>1 DEF Travel, UnreadOK
    <3>3. FeedKnown'
      BY <1>1, <2>1, <2>5, <3>1 DEF Travel, UnreadOK, FeedKnown, Known
    <3>4. QED BY <3>2, <3>3 DEF UnreadOK
  <2>7. PageInv'
    <3>1. page[d].size = -1
      BY <2>1 DEF NoPage
    <3>2. QED BY <1>2, <2>1, <2>5, <3>1 DEF PageInv
  <2>8. QED BY <1>1, <2>1, <2>4, <2>6, <2>7, TravelKept DEF Travel, LoopType
<1>9. ASSUME NEW d \in Device, FinalizeBootstrap(d) PROVE Travel'
  <2>1. /\ staged' = [staged EXCEPT ![d] = NoStage]
        /\ UNCHANGED <<server, requests, page, todo, awaiting, reply>>
        /\ booted' = [booted EXCEPT ![d] = TRUE] /\ phase' = [phase EXCEPT ![d] = "pull"]
    BY <1>9 DEF FinalizeBootstrap
  <2>2. LoopType' /\ PageInv'
    BY <1>1, <2>1 DEF Travel, LoopType, PageInv
  <2>3. StagedOK'
    <3>1. Changes \subseteq Changes' /\ NoStage \in [ready : BOOLEAN, rows : SUBSET Changes']
      BY <1>1, TravelKept DEF NoStage
    <3>2. staged' \in [Device -> [ready : BOOLEAN, rows : SUBSET Changes']]
      BY <1>1, <2>1, <3>1 DEF Travel, StagedOK
    <3>3. ASSUME NEW e \in Device, NEW r \in staged'[e].rows
          PROVE  Known(e, r.block, r.reported)'
      <4>1. e # d /\ r \in staged[e].rows
        BY <1>1, <2>1 DEF Travel, StagedOK, NoStage
      <4>2. r \in Changes /\ Known(e, r.block, r.reported)
        BY <1>1, <4>1 DEF Travel, StagedOK, StagedKnown
      <4>3. QED BY <1>1, <4>2 DEF Stable, Changes
    <3>4. QED BY <3>2, <3>3 DEF StagedOK, StagedKnown
  <2>4. QED BY <1>1, <2>1, <2>2, <2>3, TravelKept DEF Travel
<1>10. ASSUME NEW d \in Device, ReadPage(d) PROVE Travel'
  <2>1. PICK size \in 1 .. PullLimit :
          page' = [page EXCEPT ![d] =
            IF size < Len(unread[d]) THEN [size |-> size, more |-> TRUE]
            ELSE [size |-> Len(unread[d]), more |-> FALSE]]
    BY <1>10 DEF ReadPage
  <2>2. LoopType' /\ PageInv'
    BY <1>1, <1>2, <1>10, <2>1, ConstantsAssumption DEF ReadPage, Travel, LoopType, PageInv
  <2>3. QED BY <1>1, <1>10, <2>2, TravelKept DEF ReadPage, Travel
<1>11. ASSUME NEW d \in Device, ApplyPage(d) PROVE Travel'
  BY <1>11, PageApplied
<1>11a. ASSUME NEW d \in Device, BeginPartiya(d) PROVE Travel'
  <2>1. TodoOK'
    BY <1>1, <1>11a, ReportsComputed DEF BeginPartiya
  <2>2. LoopType' /\ PageInv'
    BY <1>1, <1>11a DEF BeginPartiya, Travel, LoopType, PageInv
  <2>3. QED BY <1>1, <1>11a, <2>1, <2>2, TravelKept DEF BeginPartiya, Travel
<1>12. ASSUME NEW d \in Device, SendReport(d) \/ SendAllocate(d) PROVE Travel'
  BY <1>12, RequestSent
<1>13. ASSUME NEW d \in Device, ReceiveBlock(d) PROVE Travel'
  <2>1. ReplyOK'
    BY <1>1, <1>13, AnswerOther DEF ReceiveBlock, NoReply
  <2>2. LoopType' /\ PageInv'
    BY <1>1, <1>13 DEF ReceiveBlock, Travel, LoopType, PageInv
  <2>3. QED BY <1>1, <1>13, <2>1, <2>2, TravelKept DEF ReceiveBlock, Travel
<1>14. ASSUME NEW d \in Device, CycleFails(d) PROVE Travel'
  BY <1>14, CycleFailed
<1>15. ASSUME LoseRequest PROVE Travel'
  <2>1. requests' \subseteq requests
    BY <1>15 DEF LoseRequest
  <2>2. QED BY <1>1, <1>15, <2>1, TravelKept DEF LoseRequest, Travel, LoopType, PageInv
<1>16. ASSUME UNCHANGED vars PROVE Travel'
  BY <1>1, <1>16, TravelKept DEF vars, Travel, LoopType, PageInv
<1>17. QED
  BY <1>3, <1>4, <1>5, <1>6, <1>7, <1>8, <1>9, <1>10, <1>11, <1>12, <1>13, <1>14, <1>15, <1>16, <1>11a
     DEF Next, Cycle, Handle, BlockIds

\* A behaviour is about one allocator.
LEMMA FamilyKept == ASSUME [Next]_vars PROVE UNCHANGED family
BY DEF Next, Cycle, Handle, vars, server, ConsumeNext, IssueOnline, Allocate, ReportUsage, Refuse,
       Cancel, StageBootstrap, FinalizeBootstrap, ReadPage, ApplyPage, BeginPartiya, SendReport,
       SendAllocate, ReceiveBlock, CycleFails, LoseRequest

-----------------------------------------------------------------------------
(* The theorems.                                                           *)

LEMMA InitIInv == ASSUME Init PROVE IInv
<1>1. BlockIds = {}
  BY DEF Init, BlockIds
<1>2. TypeOK
  BY <1>1, ConstantsAssumption DEF Init, TypeOK, NoStage, NoPage, NoReply, Answers
<1>3. RangeInv /\ RowInv /\ PageInv /\ IssueInv
  BY <1>1 DEF Init, RangeInv, RangesDisjoint, RowInv, PageInv, NoPage, IssueInv, NumberIssuedOnce,
              PrintedIsRecorded, Number
<1>4. ClaimInv
  BY <1>1 DEF Init, ClaimInv, ServerKnown, FeedKnown, StagedKnown, ReplyKnown, TodoKnown,
              RequestKnown, MirrorKnown, NoStage, NoReply
<1>5. QED BY <1>2, <1>3, <1>4 DEF IInv

\* IInv holds in every reachable state, for any number of devices, any block
\* size and any loss, delay and crash: it is inductive.
THEOREM InductiveInvariant == Spec => []IInv
<1>1. Init => IInv
  BY InitIInv
<1>2. IInv /\ [Next]_vars => IInv'
  <2>1. (IInv <=> family \in Families /\ Core /\ Travel)'
    BY IInvSplit, PTL
  <2>2. QED BY <2>1, CoreNext, TravelNext, FamilyKept, IInvSplit
<1>3. QED BY <1>1, <1>2, PTL DEF Spec

\* Every variable keeps its type: tables hold only blocks that exist, and a
\* page never claims more changes than its device has unread.
THEOREM TypeCorrect == Spec => []TypeOK
<1>1. IInv => TypeOK
  BY DEF IInv
<1>2. QED BY <1>1, InductiveInvariant, PTL

\* No number is printed on two Pattas: consumeNext of any device and the
\* API's own batches never take the same number, whatever the network does.
THEOREM NoNumberTwice == Spec => []NumberIssuedOnce
<1>1. IInv => NumberIssuedOnce
  BY DEF IInv, IssueInv
<1>2. QED BY <1>1, InductiveInvariant, PTL

\* The server's exclusion constraint on block ranges never has to fire.
THEOREM BlocksNeverOverlap == Spec => []RangesDisjoint
<1>1. IInv => RangesDisjoint
  BY DEF IInv, RangeInv
<1>2. QED BY <1>1, InductiveInvariant, PTL

\* What the server records as used was printed by the block's owner.
THEOREM ReportsAreTrue == Spec => []ReportedWasPrinted
<1>1. ASSUME IInv PROVE ReportedWasPrinted
  <2>1. SUFFICES ASSUME NEW b \in BlockIds, NEW n \in Number,
                        blocks[b].start <= n, n < blocks[b].start + blocks[b].reported
                 PROVE  issued[n] = 1
    BY DEF ReportedWasPrinted
  <2>2. Core
    BY <1>1, IInvSplit
  <2>3. /\ blocks[b].start \in Nat /\ blocks[b].reported \in Nat /\ blocks[b].device \in Device
    BY <2>2, CoreFacts, BlockFields
  <2>4. Known(blocks[b].device, b, blocks[b].reported)
    BY <2>2 DEF Core, ServerKnown
  <2>5. /\ b \in DOMAIN mirror[blocks[b].device]
        /\ blocks[b].start + blocks[b].reported <= mirror[blocks[b].device][b].next
    BY <2>1, <2>3, <2>4 DEF Known, Number
  <2>6. mirror[blocks[b].device][b].next \in Nat
    BY <2>2, <2>3, <2>5 DEF Core, CoreType, MirrorRow
  <2>7. QED BY <2>1, <2>2, <2>3, <2>5, <2>6 DEF Core, IssueInv, Number
<1>2. QED BY <1>1, InductiveInvariant, PTL

\* A device knows of every number it has printed: in the row of its block the
\* next number is behind it, whatever server row has been merged since.
THEOREM PrintedNumbersAreRecorded == Spec => []PrintedIsRecorded
<1>1. IInv => PrintedIsRecorded
  BY DEF IInv, IssueInv
<1>2. QED BY <1>1, InductiveInvariant, PTL
=============================================================================
