---------------------------- MODULE NumberBlocks ----------------------------
(***************************************************************************)
(* Allocation and offline consumption of Patta (or Partiya) numbers.       *)
(*                                                                         *)
(* The server owns one sequence per family and hands inclusive ranges      *)
(* ("blocks") to devices.  A device takes numbers out of its blocks        *)
(* without asking anybody, reports its consumption in every sync cycle,    *)
(* asks for another block when the current one is 80% used, and learns the *)
(* server's view of its blocks through the pull feed or a bootstrap.       *)
(* Requests and replies may be lost, a request may be executed after its   *)
(* sender gave up, and a device may crash at any point of its cycle.       *)
(*                                                                         *)
(* Blocks are named by their allocation order, which is also the order of  *)
(* (allocated_at, id) the queries sort by.  Of the change feed a device    *)
(* sees only what concerns its own blocks: every query on the block table  *)
(* filters by device_id.                                                   *)
(*                                                                         *)
(* The code has this allocator twice, for Pattas and for Partiyas, each    *)
(* with its own sequence and tables: a behaviour is about one of them.  A  *)
(* cycle serves Patta numbers first, and Partiya numbers only if nothing   *)
(* of that has failed.                                                     *)
(***************************************************************************)
EXTENDS Integers, Sequences, FiniteSets

CONSTANTS
  Device,          \* workstations with a registered device id
  Families,        \* the allocators looked at: "patta", "partiya"
  BlockSize,       \* configuration.blockSize
  MaxActiveBlocks, \* configuration.maxActiveBlocksPerDevice
  MaxNumber,       \* the BIGINT limit, small in a model
  PullLimit,       \* changes in one pull page
  MaxOnline,       \* bound: numbers the API prints itself
  MaxCancels,      \* bound: blocks an operator cancels
  MaxInFlight      \* bound: requests of one device the network still holds

ASSUME ConstantsAssumption ==
  /\ Families \subseteq {"patta", "partiya"}
  /\ BlockSize \in Nat \ {0}
  /\ MaxActiveBlocks \in Nat \ {0}
  /\ MaxNumber \in Nat
  /\ PullLimit \in Nat \ {0}
  /\ MaxOnline \in Nat /\ MaxCancels \in Nat
  /\ MaxInFlight \in Nat \ {0}

VARIABLES
  family,      \* which allocator this behaviour is of; it never changes
  nextNumber,  \* patta_number_sequence.next_number
  blocks,      \* the server's patta_number_blocks rows
  unread,      \* unread[d]: d's changes in server_change_log after d's cursor
  requests,    \* usage reports and allocation requests in the network
  mirror,      \* mirror[d]: the rows of its own blocks in d's SQLite database
  booted,      \* booted[d]: d has a last_server_cursor
  staged,      \* staged[d]: the server snapshot staged in d's database, if any
  phase,       \* phase[d]: where d's sync cycle stands
  page,        \* page[d]: the pull response on its way to d
  todo,        \* todo[d]: the usage reports this cycle has still to send
  awaiting,    \* awaiting[d]: the request d waits for, 0 when it waits for none
  reply,       \* reply[d]: the answer to it
  issued       \* history: how often each number was printed on a Patta

server == <<family, nextNumber, blocks, unread>>
local  == <<mirror, booted, staged>>
cycle  == <<phase, page, todo, awaiting, reply>>
vars   == <<server, requests, local, cycle, issued>>

Number == 1 .. MaxNumber
Slot   == 1 .. MaxInFlight
NoReply  == [kind |-> "none"]
NoPage   == [size |-> -1, more |-> FALSE]
NoStage  == [ready |-> FALSE, rows |-> {}]
Statuses == {"ACTIVE", "EXHAUSTED", "CANCELLED"}
Roles    == {"CURRENT", "RESERVED", "AVAILABLE"}

Max2(a, b) == IF a >= b THEN a ELSE b
Least(S)    == CHOOSE x \in S : \A y \in S : x <= y
Greatest(S) == CHOOSE x \in S : \A y \in S : x >= y
With(f, k, v) == [x \in DOMAIN f \cup {k} |-> IF x = k THEN v ELSE f[x]]
Capacity(b) == blocks[b].end - blocks[b].start + 1
Change(b, count, status) == [block |-> b, reported |-> count, status |-> status]

-----------------------------------------------------------------------------
(* The device's block table: pure functions of one mirror m.               *)

Usable(m, b) ==
  Max2(m[b].next, blocks[b].start + m[b].reported) <= blocks[b].end

ActiveIn(m, roles) ==
  {b \in DOMAIN m : m[b].status = "ACTIVE" /\ m[b].role \in roles}

\* The row CURRENT and ACTIVE with the smallest (allocated_at, id), 0 if none.
CurrentBlock(m) ==
  IF ActiveIn(m, {"CURRENT"}) = {} THEN 0 ELSE Least(ActiveIn(m, {"CURRENT"}))

\* currentBlock and consumeNext leave at most the row `keep' CURRENT; the
\* Patta repository does not touch terminal CURRENT rows while it keeps one.
Demote(m, keep) ==
  [b \in DOMAIN m |->
     IF /\ m[b].role = "CURRENT" /\ b # keep
        /\ family = "partiya" \/ keep = 0 \/ m[b].status = "ACTIVE"
     THEN [m[b] EXCEPT !.role = "AVAILABLE"]
     ELSE m[b]]

UsableCurrent(m) ==
  IF CurrentBlock(m) # 0 /\ Usable(m, CurrentBlock(m)) THEN CurrentBlock(m) ELSE 0

\* The block consumeNext takes its number from, 0 when all are exhausted.
ChosenBlock(m) ==
  LET demoted  == Demote(m, 0)
      usable(roles) == {b \in ActiveIn(demoted, roles) : Usable(demoted, b)}
  IN CASE UsableCurrent(m) # 0 -> UsableCurrent(m)
       [] UsableCurrent(m) = 0 /\ usable({"RESERVED"}) # {} -> Least(usable({"RESERVED"}))
       [] UsableCurrent(m) = 0 /\ usable({"RESERVED"}) = {} /\ usable({"AVAILABLE"}) # {}
            -> Least(usable({"AVAILABLE"}))
       [] OTHER -> 0

\* Mutant: the server's count overwrites the local progress.
MergeServerWins(m, b, count, status, newRole) ==
  With(m, b, [next |-> blocks[b].start + count, consumed |-> count, reported |-> count,
              status |-> status, role |-> IF b \in DOMAIN m THEN m[b].role ELSE newRole])

\* applyProjection, upsertServerBlock: the server's row merged into the local
\* one, never moving the local next number or consumption back.
Merge(m, b, count, status, newRole) ==
  LET start == blocks[b].start
      known == b \in DOMAIN m
      next  == Max2(IF known THEN m[b].next ELSE start, start + count)
  IN With(m, b,
       [next     |-> next,
        consumed |-> Max2(Max2(IF known THEN m[b].consumed ELSE 0, count), next - start),
        reported |-> count,
        status   |-> status,
        role     |-> IF known THEN m[b].role ELSE newRole])

\* The role of a block that arrives as the answer to an allocation.
AllocatedRole(m) ==
  IF family = "partiya" THEN "AVAILABLE"
  ELSE IF ActiveIn(m, {"CURRENT"}) = {} THEN "CURRENT" ELSE "RESERVED"

\* Mutant: more than 80% instead of at least 80%.
PrefetchAbove80(m) ==
  LET shown == {b \in DOMAIN m : /\ m[b].role \in {"CURRENT", "AVAILABLE"}
                                 /\ m[b].status \in {"ACTIVE", "EXHAUSTED"}}
      currents == {b \in shown : m[b].role = "CURRENT"}
      current  == Greatest(IF currents = {} THEN shown ELSE currents)
      usable   == {b \in ActiveIn(m, {"RESERVED", "AVAILABLE"}) : Usable(m, b)}
  IN IF shown = {} THEN usable = {}
     ELSE m[current].consumed * 100 > Capacity(current) * 80 /\ usable = {}

ShouldPrefetchNextBlock(m) ==
  LET shown == {b \in DOMAIN m : /\ m[b].role \in {"CURRENT", "AVAILABLE"}
                                 /\ m[b].status \in {"ACTIVE", "EXHAUSTED"}}
      currents   == {b \in shown : m[b].role = "CURRENT"}
      current    == Greatest(IF currents = {} THEN shown ELSE currents)
      candidates == ActiveIn(m, {"RESERVED", "AVAILABLE"})
      usable     == {b \in candidates : Usable(m, b)}
  IN IF shown = {} THEN usable = {}
     ELSE /\ m[current].consumed * 100 >= Capacity(current) * 80
          /\ IF family = "partiya" THEN candidates = {} ELSE usable = {}

\* Mutant: reports the number it will print next as already used.
ReportsOneTooMany(m) ==
  {[block |-> b, count |-> m[b].consumed + 1] :
     b \in {x \in DOMAIN m : m[x].status = "ACTIVE" /\ m[x].consumed > m[x].reported}}

PendingUsageReports(m) ==
  {[block |-> b, count |-> m[b].consumed] :
     b \in {x \in DOMAIN m : m[x].status = "ACTIVE" /\ m[x].consumed > m[x].reported}}

\* Rows of the server (a snapshot, or the last change a page holds for each
\* block: usage only grows along the feed, so the last one decides).
Apply(m, rows) ==
  [b \in DOMAIN m \cup {r.block : r \in rows} |->
     IF \E r \in rows : r.block = b
     THEN LET r == CHOOSE x \in rows : x.block = b
          IN Merge(m, b, r.reported, r.status, "AVAILABLE")[b]
     ELSE m[b]]

LastPerBlock(changes) ==
  {changes[i] : i \in {j \in DOMAIN changes :
                         \A k \in DOMAIN changes : k > j => changes[k].block # changes[j].block}}

-----------------------------------------------------------------------------
Init ==
  /\ family \in Families
  /\ nextNumber = 1
  /\ blocks = <<>>
  /\ unread = [d \in Device |-> <<>>]
  /\ requests = {}
  /\ mirror = [d \in Device |-> [b \in {} |-> {}]]
  /\ booted = [d \in Device |-> FALSE]
  /\ staged = [d \in Device |-> NoStage]
  /\ phase = [d \in Device |-> "idle"]
  /\ page = [d \in Device |-> NoPage]
  /\ todo = [d \in Device |-> {}]
  /\ awaiting = [d \in Device |-> 0]
  /\ reply = [d \in Device |-> NoReply]
  /\ issued = [n \in Number |-> 0]

-----------------------------------------------------------------------------
(* Printing Pattas.                                                        *)

\* One number taken inside the SQLite transaction that stores the Patta; when
\* no block has a number left the transaction rolls back and nothing changes.
ConsumeNext(d) ==
  LET m == mirror[d]
      b == ChosenBlock(m)
      n == Max2(m[b].next, blocks[b].start + m[b].reported)
      consumed == Max2(Max2(m[b].consumed, m[b].reported), n + 1 - blocks[b].start)
  IN /\ b # 0
     /\ mirror' = [mirror EXCEPT ![d] =
          With(Demote(m, UsableCurrent(m)), b,
               [m[b] EXCEPT !.next = n + 1, !.consumed = consumed, !.role = "CURRENT"])]
     /\ issued' = [issued EXCEPT ![n] = @ + 1]
     /\ UNCHANGED <<server, requests, booted, staged, cycle>>

\* A batch printed by the API takes its numbers straight from the sequence.
IssueOnline ==
  /\ nextNumber < MaxNumber
  /\ nextNumber - 1 - BlockSize * Len(blocks) < MaxOnline
  /\ issued' = [issued EXCEPT ![nextNumber] = @ + 1]
  /\ nextNumber' = nextNumber + 1
  /\ UNCHANGED <<family, blocks, unread, requests, local, cycle>>

-----------------------------------------------------------------------------
(* The server's handlers: one transaction each, serialised by row locks.   *)

\* recordBlockChange: a device without a cursor will see a snapshot instead.
Record(d, change) ==
  unread' = IF booted[d] \/ staged[d].ready
            THEN [unread EXCEPT ![d] = Append(@, change)] ELSE unread

Answer(m, answer) ==
  reply' = IF awaiting[m.device] = m.slot
           THEN [reply EXCEPT ![m.device] = answer] ELSE reply

Refuse(m) ==
  /\ Answer(m, [kind |-> "error"])
  /\ UNCHANGED server

ActiveBlocksOf(d) ==
  {b \in 1 .. Len(blocks) : blocks[b].device = d /\ blocks[b].status = "ACTIVE"}

\* Mutant: a used-up block is never marked exhausted.
ReportNeverExhausts(m) ==
  /\ m \in requests /\ m.kind = "usage"
  /\ requests' = requests \ {m}
  /\ m.count >= blocks[m.block].reported
  /\ blocks' = [blocks EXCEPT ![m.block].reported = m.count]
  /\ Record(m.device, Change(m.block, m.count, "ACTIVE"))
  /\ Answer(m, [kind |-> "block", block |-> m.block,
                reported |-> m.count, status |-> "ACTIVE"])
  /\ UNCHANGED <<family, nextNumber, local, phase, page, todo, awaiting, issued>>

Allocate(m) ==
  LET end   == nextNumber + BlockSize - 1
      block == [device |-> m.device, start |-> nextNumber, end |-> end,
                reported |-> 0, status |-> "ACTIVE"]
  IN /\ m \in requests /\ m.kind = "allocate"
     /\ requests' = requests \ {m}
     /\ \/ /\ Cardinality(ActiveBlocksOf(m.device)) < MaxActiveBlocks
           /\ end + 1 <= MaxNumber
           /\ blocks' = Append(blocks, block)
           /\ nextNumber' = end + 1
           /\ UNCHANGED family
           /\ Record(m.device, Change(Len(blocks) + 1, 0, "ACTIVE"))
           /\ Answer(m, [kind |-> "block", block |-> Len(blocks) + 1,
                         reported |-> 0, status |-> "ACTIVE"])
        \/ /\ \/ Cardinality(ActiveBlocksOf(m.device)) >= MaxActiveBlocks
              \/ end + 1 > MaxNumber
           /\ Refuse(m)
     /\ UNCHANGED <<local, phase, page, todo, awaiting, issued>>

\* Mutant: the change is not recorded, only answered.
ReportUnrecorded(m) ==
  LET b == blocks[m.block]
      status == IF m.count = Capacity(m.block) THEN "EXHAUSTED" ELSE "ACTIVE"
  IN /\ m \in requests /\ m.kind = "usage"
     /\ requests' = requests \ {m}
     /\ b.status = "ACTIVE" /\ m.count >= b.reported
     /\ blocks' = [blocks EXCEPT ![m.block].reported = m.count, ![m.block].status = status]
     /\ Answer(m, [kind |-> "block", block |-> m.block, reported |-> m.count, status |-> status])
     /\ UNCHANGED <<family, nextNumber, unread, local, phase, page, todo, awaiting, issued>>

ReportUsage(m) ==
  LET b == blocks[m.block]
      status == IF m.count = Capacity(m.block) THEN "EXHAUSTED" ELSE "ACTIVE"
      accepted == /\ b.device = m.device
                  /\ b.status = "ACTIVE"
                  /\ m.count >= b.reported
                  /\ m.count <= Capacity(m.block)
  IN /\ m \in requests /\ m.kind = "usage"
     /\ requests' = requests \ {m}
     /\ \/ /\ accepted
           /\ blocks' = [blocks EXCEPT ![m.block].reported = m.count,
                                       ![m.block].status = status]
           /\ Record(m.device, Change(m.block, m.count, status))
           /\ Answer(m, [kind |-> "block", block |-> m.block,
                         reported |-> m.count, status |-> status])
           /\ UNCHANGED <<family, nextNumber>>
        \/ ~accepted /\ Refuse(m)
     /\ UNCHANGED <<local, phase, page, todo, awaiting, issued>>

\* An operator gives a block back; its range is never released.
Cancel(b) ==
  /\ family = "patta"
  /\ Cardinality({x \in 1 .. Len(blocks) : blocks[x].status = "CANCELLED"}) < MaxCancels
  /\ blocks[b].status = "ACTIVE"
  /\ blocks' = [blocks EXCEPT ![b].status = "CANCELLED"]
  /\ Record(blocks[b].device, Change(b, blocks[b].reported, "CANCELLED"))
  /\ UNCHANGED <<family, nextNumber, requests, local, cycle, issued>>

-----------------------------------------------------------------------------
(* The device's sync cycle, as far as it concerns its blocks.              *)

\* First contact, or the server answered SYNC_CURSOR_EXPIRED: a snapshot is
\* staged page by page.  Changes after its watermark stay unread.  Staged rows
\* survive a crash, and the next cycle finalizes them before anything else.
StageBootstrap(d) ==
  /\ phase[d] = IF booted[d] THEN "pull" ELSE "idle"
  /\ ~staged[d].ready /\ page[d] = NoPage
  /\ staged' = [staged EXCEPT ![d] = [ready |-> TRUE, rows |->
       {Change(b, blocks[b].reported, blocks[b].status) :
          b \in {x \in 1 .. Len(blocks) : blocks[x].device = d}}]]
  /\ unread' = [unread EXCEPT ![d] = <<>>]
  /\ phase' = [phase EXCEPT ![d] = "idle"]
  /\ UNCHANGED <<family, nextNumber, blocks, requests, mirror, booted, page, todo, awaiting, reply, issued>>

\* Mutant: the snapshot replaces the table instead of being merged into it.
FinalizeReplacing(d) ==
  /\ phase[d] = "idle"
  /\ staged[d].ready
  /\ mirror' = [mirror EXCEPT ![d] = Apply([b \in {} |-> 0], staged[d].rows)]
  /\ booted' = [booted EXCEPT ![d] = TRUE]
  /\ staged' = [staged EXCEPT ![d] = NoStage]
  /\ phase' = [phase EXCEPT ![d] = "pull"]
  /\ UNCHANGED <<server, requests, page, todo, awaiting, reply, issued>>

FinalizeBootstrap(d) ==
  /\ phase[d] = "idle"
  /\ staged[d].ready
  /\ mirror' = [mirror EXCEPT ![d] = Apply(@, staged[d].rows)]
  /\ booted' = [booted EXCEPT ![d] = TRUE]
  /\ staged' = [staged EXCEPT ![d] = NoStage]
  /\ phase' = [phase EXCEPT ![d] = "pull"]
  /\ UNCHANGED <<server, requests, page, todo, awaiting, reply, issued>>

\* The server reads a page, the first one of a cycle or the next one; more
\* changes may commit before it is applied.  Other devices' changes fill the
\* page too, so it may hold fewer of d's than PullLimit.
ReadPage(d) ==
  /\ phase[d] = "pull" \/ (phase[d] = "idle" /\ booted[d] /\ ~staged[d].ready)
  /\ page[d] = NoPage
  /\ phase' = [phase EXCEPT ![d] = "pull"]
  /\ \E size \in 1 .. PullLimit :
       page' = [page EXCEPT ![d] =
         IF size < Len(unread[d]) THEN [size |-> size, more |-> TRUE]
         ELSE [size |-> Len(unread[d]), more |-> FALSE]]
  /\ UNCHANGED <<server, requests, local, todo, awaiting, reply, issued>>

\* Rows and cursor move in one transaction.  After the last page the cycle goes
\* on with its Patta phase at once: it computes the usage reports, once.
ApplyPage(d) ==
  /\ phase[d] = "pull"
  /\ page[d] # NoPage
  /\ mirror' = [mirror EXCEPT ![d] =
       Apply(@, LastPerBlock(SubSeq(unread[d], 1, page[d].size)))]
  /\ unread' = [unread EXCEPT ![d] = SubSeq(@, page[d].size + 1, Len(@))]
  /\ page' = [page EXCEPT ![d] = NoPage]
  /\ \/ page[d].more /\ UNCHANGED <<phase, todo>>
     \/ /\ ~page[d].more
        /\ phase' = [phase EXCEPT ![d] = IF family = "patta" THEN "report" ELSE "patta"]
        /\ todo' = [todo EXCEPT ![d] =
             IF family = "patta" THEN PendingUsageReports(mirror'[d]) ELSE {}]
  /\ UNCHANGED <<family, nextNumber, blocks, requests, booted, staged, awaiting, reply, issued>>

\* The Patta phase of the cycle has gone well: the Partiya phase begins, with
\* the usage reports of this moment.  A failed one ends the cycle (CycleFails).
BeginPartiya(d) ==
  /\ phase[d] = "patta"
  /\ phase' = [phase EXCEPT ![d] = "report"]
  /\ todo' = [todo EXCEPT ![d] = PendingUsageReports(mirror[d])]
  /\ UNCHANGED <<server, requests, local, page, awaiting, reply, issued>>

FreeSlots(d) == {s \in Slot : \A m \in requests : m.device = d => m.slot # s}

Send(d, kind, b, count) ==
  /\ awaiting[d] = 0
  /\ FreeSlots(d) # {}
  /\ LET s == Least(FreeSlots(d)) IN
       /\ requests' = requests \cup
            {[device |-> d, slot |-> s, kind |-> kind, block |-> b, count |-> count]}
       /\ awaiting' = [awaiting EXCEPT ![d] = s]

SendReport(d) ==
  /\ phase[d] = "report"
  /\ \E r \in todo[d] :
       /\ \A other \in todo[d] : r.block <= other.block
       /\ Send(d, "usage", r.block, r.count)
       /\ todo' = [todo EXCEPT ![d] = @ \ {r}]
  /\ UNCHANGED <<server, local, phase, page, reply, issued>>

\* After the last report the device decides whether it needs a block.
SendAllocate(d) ==
  /\ phase[d] = "report"
  /\ todo[d] = {} /\ awaiting[d] = 0
  /\ \/ /\ ShouldPrefetchNextBlock(mirror[d])
        /\ Send(d, "allocate", 0, 0)
        /\ phase' = [phase EXCEPT ![d] = "prefetch"]
     \/ /\ ~ShouldPrefetchNextBlock(mirror[d])
        /\ phase' = [phase EXCEPT ![d] = "idle"]
        /\ UNCHANGED <<requests, awaiting>>
  /\ UNCHANGED <<server, local, page, todo, reply, issued>>

\* applyReportedUsage and storeAllocatedBlock both merge the server's row.
ReceiveBlock(d) ==
  /\ reply[d].kind = "block"
  /\ mirror' = [mirror EXCEPT ![d] =
       Merge(@, reply[d].block, reply[d].reported, reply[d].status, AllocatedRole(@))]
  /\ phase' = [phase EXCEPT ![d] = IF @ = "prefetch" THEN "idle" ELSE @]
  /\ awaiting' = [awaiting EXCEPT ![d] = 0]
  /\ reply' = [reply EXCEPT ![d] = NoReply]
  /\ UNCHANGED <<server, requests, booted, staged, page, todo, issued>>

\* A refusal, a timeout, a lost reply or a crash ends the cycle where it is;
\* what SQLite holds stays, a request still in the network may yet run.
CycleFails(d) ==
  /\ phase[d] # "idle"
  /\ phase' = [phase EXCEPT ![d] = "idle"]
  /\ page' = [page EXCEPT ![d] = NoPage]
  /\ todo' = [todo EXCEPT ![d] = {}]
  /\ awaiting' = [awaiting EXCEPT ![d] = 0]
  /\ reply' = [reply EXCEPT ![d] = NoReply]
  /\ UNCHANGED <<server, requests, local, issued>>

LoseRequest ==
  /\ \E m \in requests : requests' = requests \ {m}
  /\ UNCHANGED <<server, local, cycle, issued>>

-----------------------------------------------------------------------------
Cycle(d) ==
  \/ StageBootstrap(d) \/ FinalizeBootstrap(d)
  \/ ReadPage(d) \/ ApplyPage(d) \/ BeginPartiya(d)
  \/ SendReport(d) \/ SendAllocate(d) \/ ReceiveBlock(d)

Handle == \E m \in requests : Allocate(m) \/ ReportUsage(m)

Next ==
  \/ \E d \in Device : ConsumeNext(d) \/ Cycle(d) \/ CycleFails(d)
  \/ IssueOnline
  \/ Handle
  \/ \E b \in 1 .. Len(blocks) : Cancel(b)
  \/ LoseRequest

Spec == Init /\ [][Next]_vars
\* Scheduling: the poll timer starts a cycle whenever none runs, a request
\* that gets no answer times out, and a network that is up again and again
\* lets pages, requests and replies through.  Nothing promises that the Patta
\* phase of a cycle goes well, so none is assumed of BeginPartiya.
FairSpec ==
  /\ Spec
  /\ \A d \in Device :
       /\ WF_vars(StageBootstrap(d)) /\ SF_vars(ReadPage(d)) /\ WF_vars(CycleFails(d))
       /\ SF_vars(FinalizeBootstrap(d)) /\ SF_vars(ApplyPage(d))
       /\ SF_vars(SendReport(d)) /\ SF_vars(SendAllocate(d)) /\ SF_vars(ReceiveBlock(d))
  /\ SF_vars(Handle)

-----------------------------------------------------------------------------
(* Properties.                                                             *)

BlockIds == 1 .. Len(blocks)
Changes  == [block : BlockIds, reported : Nat, status : Statuses]

BlockRow  == [device : Device, start : Nat, end : Nat, reported : Nat, status : Statuses]
MirrorRow == [next : Nat, consumed : Nat, reported : Nat, status : Statuses, role : Roles]
Request   == [device : Device, slot : Slot, kind : {"usage", "allocate"},
              block : {0} \cup BlockIds, count : Nat]
Answers   == {NoReply, [kind |-> "error"]} \cup
             [kind : {"block"}, block : BlockIds, reported : Nat, status : Statuses]

TypeOK ==
  /\ family \in Families
  /\ nextNumber \in Nat
  /\ blocks \in Seq(BlockRow)
  /\ unread \in [Device -> Seq(Changes)]
  /\ requests \subseteq Request
  /\ mirror = [d \in Device |-> mirror[d]]
  /\ \A d \in Device : /\ DOMAIN mirror[d] \subseteq BlockIds
                       /\ mirror[d] \in [DOMAIN mirror[d] -> MirrorRow]
  /\ booted \in [Device -> BOOLEAN]
  /\ staged \in [Device -> [ready : BOOLEAN, rows : SUBSET Changes]]
  /\ phase \in [Device -> {"idle", "pull", "patta", "report", "prefetch"}]
  /\ page \in [Device -> {NoPage} \cup [size : Nat, more : BOOLEAN]]
  /\ todo \in [Device -> SUBSET [block : BlockIds, count : Nat]]
  /\ awaiting \in [Device -> {0} \cup Slot]
  /\ reply \in [Device -> Answers]
  /\ issued \in [Number -> Nat]

\* No number is ever printed on two Pattas: not by two devices, not by a
\* device and the API, not twice by one device across crashes, lost replies,
\* late requests and re-merged server rows.
NumberIssuedOnce == \A n \in Number : issued[n] <= 1

\* The exclusion constraint ex_patta_number_blocks_no_overlap never fires:
\* blocks are disjoint and lie below the sequence, whatever their status.
RangesDisjoint ==
  \A a \in BlockIds :
    /\ blocks[a].end < nextNumber
    /\ \A b \in BlockIds : a # b => blocks[a].end < blocks[b].start \/ blocks[b].end < blocks[a].start

\* What the server records as used of a block was printed, each number once.
ReportedWasPrinted ==
  \A b \in BlockIds : \A n \in Number :
    blocks[b].start <= n /\ n < blocks[b].start + blocks[b].reported => issued[n] = 1

\* Numbers are printed only below the next number of the block's owner: a
\* row that is merged, reported or re-read never hides a printed number.
PrintedIsRecorded ==
  \A b \in BlockIds : \A n \in blocks[b].start .. blocks[b].end :
    issued[n] > 0 => /\ b \in DOMAIN mirror[blocks[b].device]
                     /\ n < mirror[blocks[b].device][b].next

\* A device that has read its changes to the end and applied the answer it
\* got knows the usage and the status the server has of every block of its
\* own, whichever replies were lost, whichever requests were executed late and
\* whichever older rows it merged in between.
CaughtUpKnowsAll ==
  \A d \in Device :
    booted[d] /\ ~staged[d].ready /\ unread[d] = <<>> /\ reply[d].kind # "block" =>
      \A b \in BlockIds : blocks[b].device = d =>
        /\ b \in DOMAIN mirror[d]
        /\ mirror[d][b].reported = blocks[b].reported
        /\ mirror[d][b].status = blocks[b].status

-----------------------------------------------------------------------------
(* The inductive invariant behind the safety properties.                   *)

\* The ranges: each starts where the sequence stood, none reaches it again.
RangeInv ==
  /\ nextNumber >= 1
  /\ \A b \in BlockIds : /\ blocks[b].start >= 1 /\ blocks[b].start <= blocks[b].end
                         /\ blocks[b].end < nextNumber /\ blocks[b].end < MaxNumber
  /\ RangesDisjoint

\* A device holds rows of its own blocks only, its next number inside them.
RowInv ==
  \A d \in Device : \A b \in DOMAIN mirror[d] :
    /\ blocks[b].device = d
    /\ blocks[b].start <= mirror[d][b].next
    /\ mirror[d][b].next <= blocks[b].end + 1

\* A page never holds more than is unread.
PageInv == \A d \in Device : page[d].size <= Len(unread[d])

\* d owns b and has itself taken the first `count' numbers of it.
Known(d, b, count) ==
  /\ blocks[b].device = d
  /\ count = 0 \/ (b \in DOMAIN mirror[d] /\ blocks[b].start + count <= mirror[d][b].next)

\* Wherever a usage count stands -- on the server, in the feed, in a snapshot,
\* in a reply, in a request still to be sent or executed -- it is Known.
ServerKnown  == \A b \in BlockIds : Known(blocks[b].device, b, blocks[b].reported)
FeedKnown    == \A d \in Device : \A i \in DOMAIN unread[d] :
                  Known(d, unread[d][i].block, unread[d][i].reported)
StagedKnown  == \A d \in Device : \A r \in staged[d].rows : Known(d, r.block, r.reported)
ReplyKnown   == \A d \in Device :
                  reply[d].kind = "block" => Known(d, reply[d].block, reply[d].reported)
TodoKnown    == \A d \in Device : \A r \in todo[d] : Known(d, r.block, r.count)
RequestKnown == \A m \in requests :
                  m.kind = "usage" => m.block # 0 /\ Known(m.device, m.block, m.count)
MirrorKnown  == \A d \in Device : \A b \in DOMAIN mirror[d] :
                  Known(d, b, mirror[d][b].reported) /\ Known(d, b, mirror[d][b].consumed)
ClaimInv == /\ ServerKnown /\ FeedKnown /\ StagedKnown /\ ReplyKnown
            /\ TodoKnown /\ RequestKnown /\ MirrorKnown

\* A number is printed once at most, only below the sequence, and inside a
\* block exactly when its owner's next number has passed it.
IssueInv ==
  /\ NumberIssuedOnce
  /\ \A n \in Number : n >= nextNumber => issued[n] = 0
  /\ PrintedIsRecorded
  /\ \A d \in Device : \A b \in DOMAIN mirror[d] : \A n \in Number :
       blocks[b].start <= n /\ n < mirror[d][b].next => issued[n] = 1

IInv == TypeOK /\ RangeInv /\ RowInv /\ PageInv /\ ClaimInv /\ IssueInv

-----------------------------------------------------------------------------
(* Stock and liveness.                                                     *)

RemainingIn(m) ==
  UNION {(m[b].next .. blocks[b].end) : b \in {x \in ActiveIn(m, Roles) : Usable(m, x)}}

\* When a cycle is about to end without asking for a block, the device still
\* holds more than a fifth of a block: the 80% mark is read off one row, but
\* roles and late replies never let it miss a low stock.  That is so of the
\* Patta allocator.  The Partiya allocator counts a used-up block whose usage is
\* not reported yet as a reserve, and asks for the next block a cycle late.
LowStockIsNoticed ==
  \A d \in Device :
    phase[d] = "report" /\ todo[d] = {} /\ awaiting[d] = 0 /\ ~ShouldPrefetchNextBlock(mirror[d])
      => Cardinality(RemainingIn(mirror[d])) * 5 > BlockSize

\* A device left with fewer numbers than the largest batch needs gets enough
\* of them again, as long as the sequence can still serve a whole block.
NumbersArriveAgain(largestBatch) ==
  \A d \in Device :
    (Cardinality(RemainingIn(mirror[d])) < largestBatch)
      ~> \/ Cardinality(RemainingIn(mirror[d])) >= largestBatch
         \/ nextNumber + BlockSize > MaxNumber
=============================================================================
