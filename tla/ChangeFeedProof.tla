-------------------------- MODULE ChangeFeedProof --------------------------
(***************************************************************************)
(* Proofs about ChangeFeed, for every number of rows, writers and devices. *)
(***************************************************************************)
EXTENDS ChangeFeed, TLAPS, NaturalsInduction, WellFoundedInduction

-----------------------------------------------------------------------------
(* The newest of a bounded set of changes exists.                          *)

LEMMA LeastExists ==
  ASSUME NEW T, T \subseteq Nat, T # {}
  PROVE  \E x \in T : \A y \in T : x <= y
<1>1. PICK x \in T : \A y \in T : ~(<<y, x>> \in OpToRel(<, Nat))
  BY NatLessThanWellFounded, WFMin
<1>2. \A y \in T : ~(y < x)
  BY <1>1 DEF OpToRel
<1>3. QED
  BY <1>2

LEMMA NewestExists ==
  ASSUME NEW S, S \subseteq Change, S # {}, NEW b \in Nat, \A c \in S : c.sequence <= b
  PROVE  \E c \in S : \A x \in S : x.sequence <= c.sequence
<1>. DEFINE T == {b - c.sequence : c \in S}
<1>1. \A c \in S : c.sequence \in Nat
  BY DEF Change
<1>2. T \subseteq Nat /\ T # {}
  BY <1>1
<1>3. PICK y \in T : \A z \in T : y <= z
  <2>. HIDE DEF T
  <2>. QED
    BY <1>2, LeastExists
<1>4. PICK c \in S : y = b - c.sequence
  BY DEF T
<1>5. \A x \in S : b - c.sequence <= b - x.sequence
  BY <1>3, <1>4
<1>6. QED
  BY <1>1, <1>5

-----------------------------------------------------------------------------
(* The kinds of steps.                                                     *)

Lapse == \E id \in DOMAIN sessions : SessionLapses(id)

\* All but the writers leave the server's tables and its feed alone.
LEMMA ServerStill ==
  ASSUME [Next]_vars
  PROVE  (\E t \in Transaction : WriterNext(t)) \/ UNCHANGED server
<1>1. ASSUME NEW d \in Device, CycleNext(d) PROVE UNCHANGED server
  BY <1>1 DEF CycleNext, StartCycle, NothingOwed, Complete, ReceiveConfirmation,
    RequestBootstrap, BeginSession, PageCheck, PageRead, PersistPage, SessionExpired,
    FinalizeBootstrap, Pull, ApplyPullPage
<1>2. ASSUME NEW d \in Device, FaultNext(d) PROVE UNCHANGED server
  BY <1>2 DEF FaultNext, CycleFails, ConfirmationLost
<1>3. ASSUME NEW d \in Device, NEW s \in Slot, CreateNext(d, s) PROVE UNCHANGED server
  BY <1>3 DEF CreateNext, Snapshot, Materialize, CreateFails
<1>4. ASSUME Lapse PROVE UNCHANGED server
  BY <1>4 DEF Lapse, SessionLapses
<1>5. CASE UNCHANGED vars
  BY <1>5 DEF vars
<1>6. QED
  BY <1>1, <1>2, <1>3, <1>4, <1>5 DEF Next, Lapse

\* The writers leave everything else alone.
LEMMA DevicesStill ==
  ASSUME NEW t \in Transaction, WriterNext(t)
  PROVE  UNCHANGED <<staging, cycle, local, faults>>
BY DEF WriterNext, Write, Record, Commit, Rollback, EndTransaction

-----------------------------------------------------------------------------
(* Types.                                                                  *)

LEMMA ServerTypeStep ==
  ASSUME ServerType, [Next]_vars
  PROVE  ServerType'
<1>1. CASE UNCHANGED server
  BY <1>1 DEF server, ServerType
<1>2. ASSUME NEW t \in Transaction, WriterNext(t) PROVE ServerType'
  <2>1. ASSUME NEW e \in Entity, Write(t, e) PROVE ServerType'
    BY <2>1 DEF ServerType, Write
  <2>2. ASSUME NEW r \in wrote[t], Record(t, r) PROVE ServerType'
    <3>1. r \in [entity : Entity, version : Nat \ {0}, live : BOOLEAN]
      BY <2>2 DEF ServerType
    <3>2. [sequence |-> nextSequence, entity |-> r.entity, version |-> r.version, live |-> r.live]
            \in Change
      BY <3>1 DEF ServerType, Change
    <3>3. recorded' \in [Transaction -> SUBSET Change]
      BY <2>2, <3>2 DEF ServerType, Record
    <3>4. QED
      BY <2>2, <3>3 DEF ServerType, Record
  <2>3. ASSUME Commit(t) PROVE ServerType'
    <3>1. \A e \in Entity : (\E r \in wrote[t] : r.entity = e) =>
            LET r == CHOOSE r \in wrote[t] : r.entity = e
            IN r.version \in Nat \ {0} /\ r.live \in BOOLEAN
      BY DEF ServerType
    <3>2. /\ rows' \in [Entity -> [version : Nat, live : BOOLEAN]]
          /\ \A e \in Entity : rows'[e].live => rows'[e].version # 0
      BY <2>3, <3>1 DEF ServerType, Commit
    <3>3. QED
      BY <2>3, <3>2, ConstantsAssumption DEF ServerType, Commit, EndTransaction
  <2>4. ASSUME Rollback(t) PROVE ServerType'
    BY <2>4 DEF ServerType, Rollback, EndTransaction
  <2>5. QED
    BY <1>2, <2>1, <2>2, <2>3, <2>4 DEF WriterNext
<1>3. QED
  BY <1>1, <1>2, ServerStill

LEMMA StagingTypeStep ==
  ASSUME TypeOK, [Next]_vars
  PROVE  StagingType'
<1>. USE DEF StagingType
<1>1. CASE UNCHANGED staging
  BY <1>1 DEF TypeOK, staging
<1>2. ASSUME NEW d \in Device, NEW s \in Slot, CreateNext(d, s) PROVE StagingType'
  <2>. creation[d][s] \in Creation
    BY DEF TypeOK
  <2>1. ASSUME Snapshot(d, s) PROVE StagingType'
    <3>1. PICK gone \in SUBSET Disposable, ended \in SUBSET Lapsed,
               watermark \in {0} \cup {c.sequence : c \in changes} :
            /\ sessions' = CleanedUp(gone, ended)
            /\ creation' = [creation EXCEPT ![d][s] =
                 [stage |-> "frozen", session |-> 0, watermark |-> watermark, items |-> LiveRows,
                  active |-> {id \in DOMAIN sessions \ (gone \cup ended) :
                               /\ sessions[id].device = d
                               /\ sessions[id].status \in {"ACTIVE", "LAPSED"}}]]
      BY <2>1 DEF Snapshot
    <3>2. watermark \in Nat
      BY DEF TypeOK, ServerType, Change
    <3>3. DOMAIN sessions \subseteq Nat \ {0}
      BY SMT DEF TypeOK
    <3>4. DOMAIN sessions' \subseteq DOMAIN sessions /\ sessions' \in [DOMAIN sessions' -> Session]
      BY <3>1 DEF TypeOK, CleanedUp, Session
    <3>5. LiveRows \subseteq Item
      <4>1. \A e \in Entity : rows[e].live => rows[e].version \in Nat \ {0}
        BY DEF TypeOK, ServerType
      <4>2. QED
        BY <4>1 DEF LiveRows, Item
    <3>6. creation' \in [Device -> [Slot -> Creation]]
      BY <3>1, <3>2, <3>3, <3>5 DEF TypeOK, Creation
    <3>7. QED
      BY <2>1, <3>4, <3>6 DEF TypeOK, Snapshot
  <2>2. ASSUME Materialize(d, s) PROVE StagingType'
    <3>1. NewSession(d, s, creation[d][s].items) \in Session
      BY DEF NewSession, Session, Creation
    <3>2. sessions' \in [DOMAIN sessions' -> Session] /\ DOMAIN sessions' \subseteq 1 .. nextSession
      BY <2>2, <3>1 DEF TypeOK, Materialize
    <3>3. creation' \in [Device -> [Slot -> Creation]]
      BY <2>2 DEF TypeOK, Materialize, EndCreate, NoCreate, Creation
    <3>4. nextSession' = nextSession + 1
      BY <2>2 DEF Materialize
    <3>5. QED
      BY <3>2, <3>3, <3>4 DEF TypeOK
  <2>3. ASSUME CreateFails(d, s) PROVE StagingType'
    BY <2>3 DEF TypeOK, CreateFails, NoCreate, Creation
  <2>4. QED
    BY <1>2, <2>1, <2>2, <2>3 DEF CreateNext
<1>3. ASSUME Lapse PROVE StagingType'
  <2>1. PICK id \in DOMAIN sessions : SessionLapses(id)
    BY <1>3 DEF Lapse
  <2>2. sessions' \in [DOMAIN sessions -> Session]
    BY <2>1 DEF SessionLapses, TypeOK, Session
  <2>3. QED
    BY <2>1, <2>2 DEF SessionLapses, TypeOK
<1>4. ASSUME NEW d \in Device, CycleNext(d) PROVE StagingType'
  <2>1. CASE StartCycle(d) \/ NothingOwed(d) \/ ReceiveConfirmation(d) \/ PageRead(d)
             \/ PersistPage(d) \/ SessionExpired(d) \/ FinalizeBootstrap(d)
             \/ Pull(d) \/ ApplyPullPage(d)
    BY <1>1, <2>1 DEF StartCycle, NothingOwed, ReceiveConfirmation, PageRead, PersistPage,
      SessionExpired, FinalizeBootstrap, Pull, ApplyPullPage
  <2>2. CASE Complete(d)
    BY ZenonT(60), <2>2 DEF Complete, TypeOK, Session
  <2>3. CASE PageCheck(d)
    BY ZenonT(60), <2>3 DEF PageCheck, TypeOK, Session
  <2>4. CASE RequestBootstrap(d) \/ BeginSession(d)
    <3>1. "current" \in Slot /\ creation[d]["current"] \in Creation /\ NoCreate \in Creation
      BY DEF TypeOK, Slot, NoCreate, Creation
    <3>2. [creation[d]["current"] EXCEPT !.stage = "sent"] \in Creation
      BY <3>1 DEF Creation
    <3>3. creation' \in [Device -> [Slot -> Creation]]
      BY <2>4, <3>1, <3>2 DEF RequestBootstrap, BeginSession, TypeOK
    <3>4. QED
      BY <2>4, <3>3 DEF RequestBootstrap, BeginSession, TypeOK
  <2>5. QED
    BY <1>4, <2>1, <2>2, <2>3, <2>4 DEF CycleNext
<1>5. ASSUME NEW d \in Device, FaultNext(d) PROVE StagingType'
  <2>1. CASE CycleFails(d)
    <3>1. /\ "current" \in Slot /\ "late" \in Slot
          /\ creation[d]["current"] \in Creation /\ NoCreate \in Creation
      BY DEF TypeOK, Slot, NoCreate, Creation
    <3>2. creation' \in [Device -> [Slot -> Creation]]
      BY <2>1, <3>1 DEF CycleFails, TypeOK
    <3>3. QED
      BY <2>1, <3>2 DEF CycleFails, TypeOK
  <2>2. CASE ConfirmationLost(d)
    BY <1>1, <2>2 DEF ConfirmationLost
  <2>3. QED
    BY <1>5, <2>1, <2>2 DEF FaultNext
<1>6. CASE UNCHANGED vars
  BY <1>1, <1>6 DEF vars
<1>7. QED
  BY <1>1, <1>2, <1>3, <1>4, <1>5, <1>6, DevicesStill DEF Next, Lapse

LEMMA CycleTypeStep ==
  ASSUME TypeOK, [Next]_vars
  PROVE  CycleType'
<1>. USE DEF CycleType
<1>1. CASE UNCHANGED cycle
  BY <1>1 DEF TypeOK, cycle
<1>2. ASSUME NEW d \in Device, CycleNext(d) PROVE CycleType'
  <2>. cursor[d] \in Nat \cup {NoCursor} /\ NoReply.kind = "none" /\ NoReply \in
         [kind : {"none", "confirmed", "expired", "checked", "page", "changes"},
          items : SUBSET (Item \cup Change), upto : Nat \cup {NoCursor}, more : BOOLEAN]
    BY DEF TypeOK, LocalType, NoReply
  <2>1. CASE StartCycle(d) \/ NothingOwed(d)
    BY <2>1 DEF StartCycle, NothingOwed, Proceed, After, Phases, TypeOK
  <2>2. CASE Complete(d)
    BY <2>2 DEF Complete, TypeOK, NoReply
  <2>3. CASE ReceiveConfirmation(d)
    BY <2>3 DEF ReceiveConfirmation, Proceed, After, Phases, TypeOK
  <2>4. CASE RequestBootstrap(d) \/ BeginSession(d)
    BY <1>1, <2>4 DEF RequestBootstrap, BeginSession
  <2>5. CASE PageCheck(d)
    BY <2>5 DEF PageCheck, TypeOK, NoReply
  <2>6. CASE PageRead(d)
    <3>. DEFINE id == staged[d].session
                rest == IF id \in DOMAIN sessions
                        THEN {i \in sessions[id].items : Rank[i.entity] > staged[d].after} ELSE {}
    <3>1. rest \subseteq Item
      BY DEF TypeOK, StagingType, Session
    <3>2. \A i \in rest : Rank[i.entity] \in Nat
      BY <3>1, ConstantsAssumption DEF Item
    <3>3. staged[d].after \in Nat
      BY DEF TypeOK, LocalType
    <3>4. PICK upto \in IF rest = {} THEN {staged[d].after} ELSE {Rank[i.entity] : i \in rest} :
            reply' = [reply EXCEPT ![d] =
              [kind |-> "page", items |-> {i \in rest : Rank[i.entity] <= upto},
               upto |-> upto, more |-> \E i \in rest : Rank[i.entity] > upto]]
      BY <2>6 DEF PageRead
    <3>. HIDE DEF rest
    <3>5. upto \in Nat
      BY <3>2, <3>3
    <3>6. QED
      BY <2>6, <3>1, <3>4, <3>5 DEF PageRead, TypeOK
  <2>7. CASE PersistPage(d)
    BY <2>7 DEF PersistPage, TypeOK
  <2>8. CASE SessionExpired(d)
    BY <2>8 DEF SessionExpired, Phases, TypeOK
  <2>9. CASE FinalizeBootstrap(d)
    BY <2>9 DEF FinalizeBootstrap, Phases, TypeOK
  <2>10. CASE Pull(d)
    <3>. DEFINE unread == {c \in changes : c.sequence > cursor[d]}
    <3>1. unread \subseteq Change /\ \A c \in unread : c.sequence \in Nat
      BY DEF TypeOK, ServerType, Change
    <3>2. PICK upto \in IF unread = {} THEN {cursor[d]} ELSE {c.sequence : c \in unread} :
            reply' = [reply EXCEPT ![d] =
              [kind |-> "changes", items |-> {c \in unread : c.sequence <= upto},
               upto |-> upto, more |-> \E c \in unread : c.sequence > upto]]
      BY <2>10 DEF Pull
    <3>. HIDE DEF unread
    <3>3. upto \in Nat \cup {NoCursor}
      BY <3>1
    <3>4. QED
      BY <2>10, <3>1, <3>2, <3>3 DEF Pull, TypeOK
  <2>11. CASE ApplyPullPage(d)
    BY <2>11 DEF ApplyPullPage, Phases, TypeOK
  <2>12. QED
    BY <1>2, <2>1, <2>2, <2>3, <2>4, <2>5, <2>6, <2>7, <2>8, <2>9, <2>10, <2>11 DEF CycleNext
<1>3. ASSUME NEW d \in Device, FaultNext(d) PROVE CycleType'
  <2>. NoReply.kind = "none" /\ NoReply \in
         [kind : {"none", "confirmed", "expired", "checked", "page", "changes"},
          items : SUBSET (Item \cup Change), upto : Nat \cup {NoCursor}, more : BOOLEAN]
    BY DEF NoReply
  <2>1. CASE CycleFails(d)
    BY <2>1 DEF CycleFails, Phases, TypeOK
  <2>2. CASE ConfirmationLost(d)
    BY <2>2 DEF ConfirmationLost, Proceed, After, Phases, TypeOK
  <2>3. QED
    BY <1>3, <2>1, <2>2 DEF FaultNext
<1>4. ASSUME NEW d \in Device, NEW s \in Slot, CreateNext(d, s) PROVE CycleType'
  <2>1. CASE CreateFails(d, s)
    BY <2>1 DEF CreateFails, Phases, TypeOK
  <2>2. CASE Snapshot(d, s) \/ Materialize(d, s)
    BY <1>1, <2>2 DEF Snapshot, Materialize
  <2>3. QED
    BY <1>4, <2>1, <2>2 DEF CreateNext
<1>5. CASE UNCHANGED vars \/ Lapse
  BY <1>1, <1>5 DEF vars, Lapse, SessionLapses
<1>6. QED
  BY <1>1, <1>2, <1>3, <1>4, <1>5, DevicesStill DEF Next, Lapse

\* The page of changes that is applied has a newest change of each row in it.
LEMMA UpdatedRow ==
  ASSUME TypeOK, PullInv, NEW d \in Device, NEW e \in Entity, reply[d].kind = "changes",
         NEW newer,
         newer = {c \in reply[d].items : c.entity = e /\ c.sequence > mirror[d][e].sequence}
  PROVE  \/ newer = {} /\ Updated(d, reply[d].items)[e] = mirror[d][e]
         \/ \E c \in newer :
              /\ \A x \in newer : x.sequence <= c.sequence
              /\ Updated(d, reply[d].items)[e] =
                   [version |-> IF c.live THEN c.version ELSE 0,
                    live |-> c.live, sequence |-> c.sequence]
<1>1. newer \subseteq Change /\ \A c \in newer : c.sequence <= reply[d].upto
  BY DEF PullInv, TypeOK, CycleType
<1>2. reply[d].upto \in Nat \/ newer = {}
  <2>1. reply[d].upto \in Nat \cup {NoCursor}
    BY DEF TypeOK, CycleType
  <2>2. \A c \in newer : c.sequence \in Nat
    BY <1>1 DEF Change
  <2>3. QED
    BY <1>1, <2>1, <2>2 DEF NoCursor
<1>3. CASE newer = {}
  BY <1>3 DEF Updated
<1>4. CASE newer # {}
  <2>1. \E c \in newer : \A x \in newer : x.sequence <= c.sequence
    BY <1>1, <1>2, <1>4, NewestExists
  <2>. DEFINE newest == CHOOSE c \in newer : \A x \in newer : x.sequence <= c.sequence
  <2>2. newest \in newer /\ \A x \in newer : x.sequence <= newest.sequence
    BY <2>1
  <2>3. Updated(d, reply[d].items)[e] =
          [version |-> IF newest.live THEN newest.version ELSE 0,
           live |-> newest.live, sequence |-> newest.sequence]
    BY <1>4 DEF Updated
  <2>4. QED
    BY <2>2, <2>3
<1>5. QED
  BY <1>3, <1>4

LEMMA LocalTypeStep ==
  ASSUME TypeOK, PullInv, [Next]_vars
  PROVE  LocalType'
<1>. USE DEF LocalType
<1>1. CASE UNCHANGED <<local, faults>>
  BY <1>1 DEF TypeOK, local
<1>2. ASSUME NEW d \in Device, CycleNext(d) PROVE LocalType'
  <2>1. CASE StartCycle(d) \/ NothingOwed(d) \/ Complete(d) \/ RequestBootstrap(d)
             \/ PageCheck(d) \/ PageRead(d) \/ Pull(d)
    BY <1>1, <2>1 DEF StartCycle, NothingOwed, Complete, RequestBootstrap, PageCheck, PageRead, Pull
  <2>2. CASE ReceiveConfirmation(d)
    BY <2>2 DEF ReceiveConfirmation, TypeOK
  <2>3. CASE BeginSession(d)
    <3>1. creation[d]["current"] \in Creation
      BY DEF TypeOK, StagingType, Slot
    <3>2. QED
      BY <2>3, <3>1 DEF BeginSession, TypeOK, NoStage, Creation
  <2>4. CASE PersistPage(d)
    <3>1. /\ reply[d].items \subseteq Item /\ reply[d].upto \in Nat
          /\ reply[d].more \in BOOLEAN
      BY <2>4 DEF PersistPage, TypeOK, CycleType
    <3>. DEFINE next == [staged[d] EXCEPT !.items = @ \cup reply[d].items,
                                          !.after = reply[d].upto, !.ready = ~reply[d].more]
    <3>2. next \in [session : Nat, watermark : Nat, items : SUBSET Item,
                    after : Nat, ready : BOOLEAN]
      BY <3>1 DEF TypeOK
    <3>3. staged' = [staged EXCEPT ![d] = next]
      BY <2>4 DEF PersistPage
    <3>. HIDE DEF next
    <3>4. staged' \in [Device -> [session : Nat, watermark : Nat, items : SUBSET Item,
                                  after : Nat, ready : BOOLEAN]]
      BY <3>2, <3>3 DEF TypeOK
    <3>5. QED
      BY <2>4, <3>4 DEF PersistPage, TypeOK
  <2>5. CASE SessionExpired(d)
    <3>1. NoStage \in [session : Nat, watermark : Nat, items : SUBSET Item,
                       after : Nat, ready : BOOLEAN]
      BY DEF NoStage
    <3>2. UNCHANGED staged \/ staged' = [staged EXCEPT ![d] = NoStage]
      BY <2>5 DEF SessionExpired
    <3>3. QED
      BY ZenonT(60), <2>5, <3>1, <3>2 DEF SessionExpired, TypeOK
  <2>6. CASE FinalizeBootstrap(d)
    <3>1. \A e \in Entity : (\E i \in staged[d].items : i.entity = e) =>
            (CHOOSE i \in staged[d].items : i.entity = e).version \in Nat
      BY DEF TypeOK, Item
    <3>2. Bootstrapped(d) \in [Entity -> [version : Nat, live : BOOLEAN, sequence : Nat]]
      BY <3>1 DEF TypeOK, Bootstrapped
    <3>3. QED
      BY <2>6, <3>2 DEF FinalizeBootstrap, TypeOK, NoStage
  <2>7. CASE ApplyPullPage(d)
    <3>1. \A e \in Entity : Updated(d, reply[d].items)[e]
            \in [version : Nat, live : BOOLEAN, sequence : Nat]
      <4>1. TAKE e \in Entity
      <4>. DEFINE newer == {c \in reply[d].items : c.entity = e /\ c.sequence > mirror[d][e].sequence}
      <4>2. newer \subseteq Change
        BY <2>7 DEF ApplyPullPage, TypeOK, CycleType
      <4>3. mirror[d][e] \in [version : Nat, live : BOOLEAN, sequence : Nat]
        BY DEF TypeOK
      <4>4. QED
        <5>1. reply[d].kind = "changes"
          BY <2>7 DEF ApplyPullPage
        <5>2. \/ Updated(d, reply[d].items)[e] = mirror[d][e]
              \/ \E c \in newer : Updated(d, reply[d].items)[e] =
                   [version |-> IF c.live THEN c.version ELSE 0,
                    live |-> c.live, sequence |-> c.sequence]
          BY <5>1, UpdatedRow
        <5>3. \A c \in newer :
                [version |-> IF c.live THEN c.version ELSE 0,
                 live |-> c.live, sequence |-> c.sequence]
                  \in [version : Nat, live : BOOLEAN, sequence : Nat]
          BY <4>2 DEF Change
        <5>. HIDE DEF newer
        <5>4. QED
          BY <4>3, <5>2, <5>3
    <3>2. Updated(d, reply[d].items) \in [Entity -> [version : Nat, live : BOOLEAN, sequence : Nat]]
      BY <3>1 DEF Updated
    <3>3. reply[d].upto \in Nat \cup {NoCursor}
      BY DEF TypeOK, CycleType
    <3>4. QED
      BY <2>7, <3>2, <3>3 DEF ApplyPullPage, TypeOK
  <2>8. QED
    BY <1>2, <2>1, <2>2, <2>3, <2>4, <2>5, <2>6, <2>7 DEF CycleNext
<1>3. ASSUME NEW d \in Device, FaultNext(d) PROVE LocalType'
  <2>1. UNCHANGED local /\ faults' = [faults EXCEPT ![d] = @ + 1]
    BY <1>3 DEF FaultNext, CycleFails, ConfirmationLost
  <2>2. QED
    BY <2>1 DEF TypeOK, local
<1>4. ASSUME NEW d \in Device, NEW s \in Slot, CreateNext(d, s) PROVE LocalType'
  BY <1>1, <1>4 DEF CreateNext, Snapshot, Materialize, CreateFails
<1>5. ASSUME Lapse PROVE LocalType'
  <2>1. PICK id \in DOMAIN sessions : SessionLapses(id)
    BY <1>5 DEF Lapse
  <2>2. sessions[id].device \in Device
    BY DEF TypeOK, StagingType, Session
  <2>3. QED
    BY <2>1, <2>2 DEF SessionLapses, TypeOK, local
<1>6. CASE UNCHANGED vars
  BY <1>1, <1>6 DEF vars
<1>7. QED
  BY <1>1, <1>2, <1>3, <1>4, <1>5, <1>6, DevicesStill DEF Next, Lapse

LEMMA TypeStep ==
  ASSUME TypeOK, PullInv, [Next]_vars
  PROVE  TypeOK'
BY ServerTypeStep, StagingTypeStep, CycleTypeStep, LocalTypeStep DEF TypeOK

-----------------------------------------------------------------------------
(* The feed: what a writer adds lies above everything committed.           *)

LEMMA LockStep ==
  ASSUME TypeOK, LockInv, [Next]_vars
  PROVE  LockInv'
<1>1. CASE UNCHANGED server
  BY <1>1 DEF server, LockInv
<1>2. ASSUME NEW t \in Transaction, WriterNext(t) PROVE LockInv'
  <2>1. ASSUME NEW e \in Entity, Write(t, e) PROVE LockInv'
    BY <2>1 DEF Write, LockInv
  <2>2. ASSUME NEW r \in wrote[t], Record(t, r) PROVE LockInv'
    BY <2>2, ConstantsAssumption DEF Record, LockInv, TypeOK, ServerType
  <2>3. ASSUME EndTransaction(t) PROVE LockInv'
    BY <2>3 DEF EndTransaction, LockInv, TypeOK, ServerType
  <2>4. QED
    BY <1>2, <2>1, <2>2, <2>3 DEF WriterNext, Commit, Rollback
<1>3. QED
  BY <1>1, <1>2, ServerStill

LEMMA FreshStep ==
  ASSUME TypeOK, LockInv, FreshInv, [Next]_vars
  PROVE  FreshInv'
<1>1. CASE UNCHANGED server
  BY <1>1 DEF server, FreshInv
<1>2. ASSUME NEW t \in Transaction, WriterNext(t) PROVE FreshInv'
  <2>. \A c \in changes : c.sequence \in Nat
    BY DEF TypeOK, ServerType, Change
  <2>. \A u \in Transaction : \A c \in recorded[u] : c.sequence \in Nat
    BY DEF TypeOK, ServerType, Change
  <2>1. ASSUME NEW e \in Entity, Write(t, e) PROVE FreshInv'
    BY <2>1 DEF Write, FreshInv
  <2>2. ASSUME NEW r \in wrote[t], Record(t, r) PROVE FreshInv'
    <3>1. \A u \in Transaction : \A c \in recorded'[u] :
            c \in recorded[u] \/ c.sequence = nextSequence
      BY <2>2 DEF Record, TypeOK, ServerType
    <3>2. QED
      BY <2>2, <3>1 DEF Record, FreshInv, TypeOK, ServerType
  <2>3. ASSUME Commit(t) PROVE FreshInv'
    <3>1. \A u \in Transaction \ {t} : recorded[u] = {} \/ recorded[t] = {}
      BY DEF LockInv
    <3>2. recorded'[t] = {} /\ \A u \in Transaction \ {t} : recorded'[u] = recorded[u]
      BY <2>3 DEF Commit, EndTransaction, TypeOK, ServerType
    <3>3. QED
      BY <2>3, <3>1, <3>2 DEF Commit, EndTransaction, FreshInv
  <2>4. ASSUME Rollback(t) PROVE FreshInv'
    <3>1. recorded'[t] = {} /\ \A u \in Transaction \ {t} : recorded'[u] = recorded[u]
      BY <2>4 DEF Rollback, EndTransaction, TypeOK, ServerType
    <3>2. QED
      BY <2>4, <3>1 DEF Rollback, EndTransaction, FreshInv
  <2>5. QED
    BY <1>2, <2>1, <2>2, <2>3, <2>4 DEF WriterNext
<1>3. QED
  BY <1>1, <1>2, ServerStill

LEMMA WriteStep ==
  ASSUME TypeOK, WriteInv, [Next]_vars
  PROVE  WriteInv'
<1>1. CASE UNCHANGED server
  BY <1>1 DEF server, WriteInv
<1>2. ASSUME NEW t \in Transaction, WriterNext(t) PROVE WriteInv'
  <2>1. ASSUME NEW e \in Entity, Write(t, e) PROVE WriteInv'
    BY <2>1 DEF Write, WriteInv, TypeOK, ServerType
  <2>2. ASSUME NEW r \in wrote[t], Record(t, r) PROVE WriteInv'
    <3>1. r = [entity |-> r.entity, version |-> r.version, live |-> r.live]
      BY <2>2 DEF TypeOK, ServerType
    <3> DEFINE new == [sequence |-> nextSequence, entity |-> r.entity,
                       version |-> r.version, live |-> r.live]
    <3>2. /\ recorded'[t] = recorded[t] \cup {new}
          /\ \A u \in Transaction \ {t} : recorded'[u] = recorded[u]
          /\ wrote' = wrote
          /\ \A c \in recorded[t] : c.entity # r.entity
      BY <2>2 DEF Record, TypeOK, ServerType
    <3>3. new.entity = r.entity /\ new.version = r.version /\ new.live = r.live
      OBVIOUS
    <3> HIDE DEF new
    <3>4. \A u \in Transaction : \A c \in recorded'[u] :
            \E q \in wrote'[u] : q = [entity |-> c.entity, version |-> c.version, live |-> c.live]
      <4> TAKE u \in Transaction
      <4>1. TAKE c \in recorded'[u]
      <4>2. CASE u = t /\ c = new
        BY <2>2, <3>1, <3>2, <3>3, <4>2
      <4>3. CASE c \in recorded[u]
        BY <3>2, <4>3 DEF WriteInv
      <4>4. QED
        BY <3>2, <4>1, <4>2, <4>3
    <3>5. \A u \in Transaction : \A c, x \in recorded'[u] : c.entity = x.entity => c = x
      BY <3>2, <3>3 DEF WriteInv
    <3>6. QED
      BY <3>2, <3>4, <3>5 DEF WriteInv
  <2>3. ASSUME EndTransaction(t) PROVE WriteInv'
    BY <2>3 DEF EndTransaction, WriteInv, TypeOK, ServerType
  <2>4. QED
    BY <1>2, <2>1, <2>2, <2>3 DEF WriterNext, Commit, Rollback
<1>3. QED
  BY <1>1, <1>2, ServerStill

\* A settled position stays settled, and what lies up to it stays as it is.
LEMMA SettledStays ==
  ASSUME TypeOK, LockInv, FreshInv, [Next]_vars, NEW p \in Nat \cup {NoCursor}, Settled(p)
  PROVE  /\ Settled(p)'
         /\ \A c \in changes' : c.sequence <= p => c \in changes
         /\ changes \subseteq changes'
<1>1. CASE UNCHANGED server
  BY <1>1 DEF server, Settled
<1>2. ASSUME NEW t \in Transaction, WriterNext(t)
      PROVE  /\ Settled(p)'
             /\ \A c \in changes' : c.sequence <= p => c \in changes
             /\ changes \subseteq changes'
  <2>. \A c \in changes : c.sequence \in Nat
    BY DEF TypeOK, ServerType, Change
  <2>. \A u \in Transaction : \A c \in recorded[u] : c.sequence \in Nat
    BY DEF TypeOK, ServerType, Change
  <2>1. ASSUME NEW e \in Entity, Write(t, e) PROVE UNCHANGED <<changes, recorded, nextSequence>>
    BY <2>1 DEF Write
  <2>2. ASSUME NEW r \in wrote[t], Record(t, r)
        PROVE  /\ UNCHANGED changes /\ nextSequence' = nextSequence + 1
               /\ \A u \in Transaction : \A c \in recorded'[u] :
                    c \in recorded[u] \/ c.sequence = nextSequence
    BY <2>2 DEF Record, TypeOK, ServerType
  <2>3. ASSUME Commit(t) \/ Rollback(t)
        PROVE  /\ UNCHANGED nextSequence /\ changes \subseteq changes'
               /\ changes' \subseteq changes \cup recorded[t]
               /\ \A u \in Transaction : recorded'[u] \subseteq recorded[u]
    BY <2>3 DEF Commit, Rollback, EndTransaction, TypeOK, ServerType
  <2>4. nextSequence \in Nat /\ p \in Int
    BY DEF TypeOK, ServerType, NoCursor
  <2>5. CASE \E e \in Entity : Write(t, e)
    BY <2>1, <2>5 DEF Settled
  <2>6. CASE \E r \in wrote[t] : Record(t, r)
    BY <2>2, <2>4, <2>6 DEF Settled
  <2>7. CASE Commit(t) \/ Rollback(t)
    BY <2>3, <2>4, <2>7 DEF Settled
  <2>8. QED
    BY <1>2, <2>5, <2>6, <2>7 DEF WriterNext
<1>3. QED
  BY <1>1, <1>2, ServerStill

\* What a row shows at a settled position never changes again.
LEMMA ShowsStays ==
  ASSUME TypeOK, LockInv, FreshInv, [Next]_vars, NEW p \in Nat \cup {NoCursor}, Settled(p),
         NEW e \in Entity, NEW v, Shows(e, p, v)
  PROVE  Shows(e, p, v)'
<1>1. {c \in changes' : c.entity = e /\ c.sequence <= p}
        = {c \in changes : c.entity = e /\ c.sequence <= p}
  BY SettledStays
<1>2. QED
  BY <1>1 DEF Shows

LEMMA RepresentsStays ==
  ASSUME TypeOK, LockInv, FreshInv, [Next]_vars, NEW p \in Nat \cup {NoCursor}, Settled(p),
         NEW items, Represents(items, p)
  PROVE  Represents(items, p)'
BY ShowsStays DEF Represents

LEMMA FeedIsCompleteStep ==
  ASSUME TypeOK, FeedInv, [Next]_vars
  PROVE  FeedIsComplete'
<1>1. CASE UNCHANGED server
  BY <1>1 DEF server, FeedInv, FeedIsComplete, Shows
<1>2. ASSUME NEW t \in Transaction, WriterNext(t) PROVE FeedIsComplete'
  <2>1. CASE (\E e \in Entity : Write(t, e)) \/ Rollback(t)
    <3>1. UNCHANGED <<rows, changes, nextSequence>>
      BY <2>1 DEF Write, Rollback, EndTransaction
    <3>2. QED
      BY <3>1 DEF FeedInv, FeedIsComplete, Shows
  <2>2. ASSUME NEW r \in wrote[t], Record(t, r) PROVE FeedIsComplete'
    <3>1. UNCHANGED <<rows, changes>> /\ nextSequence' = nextSequence + 1
      BY <2>2 DEF Record
    <3>2. \A c \in changes : c.sequence \in Nat /\ c.sequence < nextSequence
      BY DEF TypeOK, ServerType, Change, FeedInv, FreshInv
    <3>3. \A e \in Entity : {c \in changes' : c.entity = e /\ c.sequence <= nextSequence'}
                               = {c \in changes : c.entity = e /\ c.sequence <= nextSequence}
      BY <3>1, <3>2 DEF TypeOK, ServerType
    <3>4. QED
      BY <3>1, <3>3 DEF FeedInv, FeedIsComplete, Shows
  <2>3. ASSUME Commit(t) PROVE FeedIsComplete'
    <3>. SUFFICES ASSUME NEW e \in Entity
                  PROVE  Shows(e, nextSequence, IF rows[e].live THEN rows[e].version ELSE 0)'
      BY DEF FeedIsComplete
    <3>1. nextSequence' = nextSequence /\ changes' = changes \cup recorded[t]
      BY <2>3 DEF Commit, EndTransaction
    <3>2. Shows(e, nextSequence, IF rows[e].live THEN rows[e].version ELSE 0)
      BY DEF FeedInv, FeedIsComplete
    <3>3. CASE \A r \in wrote[t] : r.entity # e
      <4>1. rows'[e] = rows[e]
        BY <2>3, <3>3 DEF Commit
      <4>2. \A c \in recorded[t] : c.entity # e
        BY <3>3 DEF FeedInv, WriteInv
      <4>3. {c \in changes' : c.entity = e /\ c.sequence <= nextSequence'}
              = {c \in changes : c.entity = e /\ c.sequence <= nextSequence}
        BY <3>1, <4>2
      <4>4. QED
        BY <3>2, <4>1, <4>3 DEF Shows
    <3>4. ASSUME NEW r \in wrote[t], r.entity = e
          PROVE  Shows(e, nextSequence, IF rows[e].live THEN rows[e].version ELSE 0)'
      <4>1. \A q \in wrote[t] : q.entity = e => q = r
        BY <3>4 DEF FeedInv, WriteInv
      <4>2. rows'[e] = [version |-> r.version, live |-> r.live]
        BY <2>3, <3>4, <4>1 DEF Commit
      <4>3. PICK c \in recorded[t] : c.entity = e
        BY <2>3, <3>4 DEF Commit
      <4>4. c.version = r.version /\ c.live = r.live
        <5>1. PICK q \in wrote[t] : q = [entity |-> c.entity, version |-> c.version, live |-> c.live]
          BY <4>3 DEF FeedInv, WriteInv
        <5>2. QED
          BY <4>1, <4>3, <5>1
      <4>5. \A x \in recorded[t] : x.entity = e => x = c
        BY <4>3 DEF FeedInv, WriteInv
      <4>6. /\ c.sequence \in Nat /\ c.sequence < nextSequence /\ nextSequence \in Nat
            /\ \A x \in changes : x.sequence \in Nat /\ x.sequence < c.sequence
        BY <4>3 DEF FeedInv, FreshInv, TypeOK, ServerType, Change
      <4>. DEFINE past == {x \in changes' : x.entity = e /\ x.sequence <= nextSequence'}
      <4>7. c \in past
        BY <3>1, <4>3, <4>6
      <4>8. \A x \in past : x.sequence <= c.sequence
        BY <3>1, <4>5, <4>6
      <4>9. QED
        BY <4>2, <4>4, <4>7, <4>8 DEF Shows
    <3>5. QED
      BY <3>3, <3>4
  <2>4. QED
    BY <1>2, <2>1, <2>2, <2>3 DEF WriterNext
<1>3. QED
  BY <1>1, <1>2, ServerStill

-----------------------------------------------------------------------------
(* Sessions only fade, except where a creation ends.                       *)

InForce == {"ACTIVE", "LAPSED"}

Fade ==
  /\ nextSession' = nextSession
  /\ DOMAIN sessions' \subseteq DOMAIN sessions
  /\ \A id \in DOMAIN sessions' :
       /\ sessions'[id].device = sessions[id].device
       /\ sessions'[id].watermark = sessions[id].watermark
       /\ sessions'[id].items = sessions[id].items
       /\ sessions'[id].status \in InForce => sessions[id].status \in InForce

LEMMA SessionsFade ==
  ASSUME TypeOK, [Next]_vars
  PROVE  Fade \/ \E d \in Device, s \in Slot : Materialize(d, s)
<1>. USE DEF Fade, InForce
<1>. DOMAIN sessions \subseteq Nat /\ sessions \in [DOMAIN sessions -> Session]
  BY DEF TypeOK, StagingType
<1>1. CASE UNCHANGED <<sessions, nextSession>>
  BY <1>1
<1>2. ASSUME NEW d \in Device, CycleNext(d) PROVE Fade
  <2>1. CASE Complete(d)
    BY <2>1 DEF Complete, Session
  <2>2. CASE PageCheck(d)
    BY <2>2 DEF PageCheck, Session
  <2>3. CASE StartCycle(d) \/ NothingOwed(d) \/ ReceiveConfirmation(d) \/ PageRead(d)
             \/ PersistPage(d) \/ SessionExpired(d) \/ FinalizeBootstrap(d)
             \/ Pull(d) \/ ApplyPullPage(d) \/ RequestBootstrap(d) \/ BeginSession(d)
    BY <1>1, <2>3 DEF StartCycle, NothingOwed, ReceiveConfirmation, PageRead, PersistPage,
      SessionExpired, FinalizeBootstrap, Pull, ApplyPullPage, RequestBootstrap, BeginSession, staging
  <2>4. QED
    BY <1>2, <2>1, <2>2, <2>3 DEF CycleNext
<1>3. ASSUME NEW d \in Device, FaultNext(d) PROVE Fade
  BY <1>1, <1>3 DEF FaultNext, CycleFails, ConfirmationLost, staging
<1>4. ASSUME NEW d \in Device, NEW s \in Slot, Snapshot(d, s) PROVE Fade
  <2>1. PICK gone \in SUBSET Disposable, ended \in SUBSET Lapsed : sessions' = CleanedUp(gone, ended)
    BY <1>4 DEF Snapshot
  <2>2. QED
    BY <1>4, <2>1 DEF Snapshot, CleanedUp, Session
<1>5. ASSUME NEW d \in Device, NEW s \in Slot, CreateFails(d, s) PROVE Fade
  BY <1>1, <1>5 DEF CreateFails
<1>6. ASSUME Lapse PROVE Fade
  BY <1>6 DEF Lapse, SessionLapses, Session
<1>7. ASSUME NEW t \in Transaction, WriterNext(t) PROVE Fade
  BY <1>1, <1>7, DevicesStill DEF staging
<1>8. CASE UNCHANGED vars
  BY <1>1, <1>8 DEF vars, staging
<1>9. QED
  BY <1>2, <1>3, <1>4, <1>5, <1>6, <1>7, <1>8 DEF Next, CreateNext, Lapse

\* What Materialize does, session by session.
LEMMA Materialized ==
  ASSUME TypeOK, NEW d \in Device, NEW s \in Slot, Materialize(d, s)
  PROVE  /\ nextSession' = nextSession + 1 /\ nextSession \notin DOMAIN sessions
         /\ DOMAIN sessions' = (DOMAIN sessions \ creation[d][s].active) \cup {nextSession}
         /\ \A id \in DOMAIN sessions' : id # nextSession => sessions'[id] = sessions[id]
         /\ sessions'[nextSession] = [device |-> d, watermark |-> creation[d][s].watermark,
                                      items |-> creation[d][s].items, status |-> "ACTIVE"]
<1>1. nextSession \in Nat /\ DOMAIN sessions \subseteq 1 .. (nextSession - 1)
  BY DEF TypeOK, StagingType
<1>2. nextSession \notin DOMAIN sessions
  BY <1>1
<1>3. QED
  BY <1>2 DEF Materialize, NewSession

LEMMA OneActiveStep ==
  ASSUME TypeOK, ReplaceInv, OneActiveSession, [Next]_vars
  PROVE  OneActiveSession'
<1>1. CASE Fade
  BY <1>1 DEF Fade, InForce, OneActiveSession
<1>2. ASSUME NEW d \in Device, NEW s \in Slot, Materialize(d, s) PROVE OneActiveSession'
  <2>1. \A id \in DOMAIN sessions : sessions[id].device = d /\ sessions[id].status \in InForce
          => id \in creation[d][s].active
    BY <1>2 DEF Materialize, ReplaceInv, InForce
  <2>2. /\ DOMAIN sessions' = (DOMAIN sessions \ creation[d][s].active) \cup {nextSession}
        /\ \A id \in DOMAIN sessions' : id # nextSession => sessions'[id] = sessions[id]
        /\ sessions'[nextSession].device = d
    <3>1. sessions'[nextSession] = [device |-> d, watermark |-> creation[d][s].watermark,
                                    items |-> creation[d][s].items, status |-> "ACTIVE"]
      BY <1>2, Materialized
    <3>2. sessions'[nextSession].device = d
      BY <3>1
    <3>3. QED
      BY <1>2, <3>2, Materialized
  <2>3. ASSUME NEW id \in DOMAIN sessions', id # nextSession,
               sessions'[id].status \in InForce
        PROVE  id \in DOMAIN sessions /\ sessions'[id] = sessions[id] /\ sessions[id].device # d
    BY <2>1, <2>2, <2>3
  <2>4. QED
    BY <2>2, <2>3 DEF OneActiveSession, InForce
<1>3. QED
  BY <1>1, <1>2, SessionsFade

\* Where a creation comes from in a step.
LEMMA CreationMoves ==
  ASSUME TypeOK, [Next]_vars, NEW d \in Device, NEW s \in Slot
  PROVE  \/ UNCHANGED creation[d][s]
         \/ Snapshot(d, s)
         \/ s = "current" /\ creation[d][s] = NoCreate
            /\ creation'[d][s] = [NoCreate EXCEPT !.stage = "sent"]
         \/ s = "current" /\ creation'[d][s] = [NoCreate EXCEPT !.stage = "done",
              !.session = nextSession, !.watermark = creation[d][s].watermark]
            /\ Materialize(d, s)
         \/ s = "late" /\ creation[d]["late"] = NoCreate
            /\ creation'[d]["late"] = creation[d]["current"]
            /\ creation'[d]["current"] = NoCreate
            /\ creation[d]["current"].stage \in {"sent", "frozen"}
         \/ creation'[d][s] = NoCreate
<1>. "current" \in Slot /\ "late" \in Slot /\ Slot = {"current", "late"}
  BY DEF Slot
<1>. creation \in [Device -> [Slot -> Creation]]
  BY DEF TypeOK, StagingType
<1>1. CASE UNCHANGED creation
  BY <1>1
<1>2. ASSUME NEW c \in Device, CycleNext(c) PROVE
         \/ UNCHANGED creation[d][s]
         \/ s = "current" /\ creation[d][s] = NoCreate
            /\ creation'[d][s] = [NoCreate EXCEPT !.stage = "sent"]
         \/ creation'[d][s] = NoCreate
  <2>1. CASE RequestBootstrap(c)
    <3>1. creation'[c]["current"] = [NoCreate EXCEPT !.stage = "sent"]
      BY <2>1 DEF RequestBootstrap, NoCreate
    <3>2. \A e \in Device, u \in Slot : e # c \/ u # "current" => creation'[e][u] = creation[e][u]
      BY <2>1 DEF RequestBootstrap
    <3>3. creation[c]["current"] = NoCreate
      BY <2>1 DEF RequestBootstrap
    <3>4. QED
      BY <3>1, <3>2, <3>3
  <2>2. CASE BeginSession(c)
    BY <2>2 DEF BeginSession
  <2>3. CASE StartCycle(c) \/ NothingOwed(c) \/ ReceiveConfirmation(c) \/ PageRead(c)
             \/ PersistPage(c) \/ SessionExpired(c) \/ FinalizeBootstrap(c)
             \/ Pull(c) \/ ApplyPullPage(c) \/ Complete(c) \/ PageCheck(c)
    BY <1>1, <2>3 DEF StartCycle, NothingOwed, ReceiveConfirmation, PageRead, PersistPage,
      SessionExpired, FinalizeBootstrap, Pull, ApplyPullPage, Complete, PageCheck, staging
  <2>4. QED
    BY <1>2, <2>1, <2>2, <2>3 DEF CycleNext
<1>3. ASSUME NEW c \in Device, FaultNext(c) PROVE
         \/ UNCHANGED creation[d][s]
         \/ s = "late" /\ creation[d]["late"] = NoCreate
            /\ creation'[d]["late"] = creation[d]["current"]
            /\ creation'[d]["current"] = NoCreate
            /\ creation[d]["current"].stage \in {"sent", "frozen"}
         \/ creation'[d][s] = NoCreate
  BY <1>3 DEF FaultNext, CycleFails, ConfirmationLost, staging
<1>4. ASSUME NEW c \in Device, NEW u \in Slot, Snapshot(c, u)
      PROVE  UNCHANGED creation[d][s] \/ Snapshot(d, s)
  <2>1. CASE c = d /\ u = s
    BY <1>4, <2>1
  <2>2. CASE ~(c = d /\ u = s)
    BY <1>4, <2>2 DEF Snapshot
  <2>3. QED
    BY <2>1, <2>2
<1>5. ASSUME NEW c \in Device, NEW u \in Slot, Materialize(c, u)
      PROVE  \/ UNCHANGED creation[d][s]
             \/ s = "current" /\ creation'[d][s] = [NoCreate EXCEPT !.stage = "done",
                  !.session = nextSession, !.watermark = creation[d][s].watermark]
                /\ Materialize(d, s)
             \/ creation'[d][s] = NoCreate
  <2>1. CASE c = d /\ u = s
    BY <1>5, <2>1 DEF Materialize, EndCreate
  <2>2. CASE ~(c = d /\ u = s)
    BY <1>5, <2>2 DEF Materialize, EndCreate
  <2>3. QED
    BY <2>1, <2>2
<1>6. ASSUME NEW c \in Device, NEW u \in Slot, CreateFails(c, u)
      PROVE  UNCHANGED creation[d][s] \/ creation'[d][s] = NoCreate
  BY <1>6 DEF CreateFails
<1>7. ASSUME Lapse PROVE UNCHANGED creation
  BY <1>7 DEF Lapse, SessionLapses
<1>8. ASSUME NEW t \in Transaction, WriterNext(t) PROVE UNCHANGED creation
  BY <1>8, DevicesStill DEF staging
<1>9. CASE UNCHANGED vars
  BY <1>1, <1>9 DEF vars, staging
<1>10. QED
  BY <1>1, <1>2, <1>3, <1>4, <1>5, <1>6, <1>7, <1>8, <1>9 DEF Next, CreateNext, Lapse

\* Where a local position comes from.
LEMMA LocalMoves ==
  ASSUME TypeOK, [Next]_vars, NEW d \in Device
  PROVE  \/ UNCHANGED <<cursor[d], staged[d], mirror[d]>>
         \/ BeginSession(d) \/ PersistPage(d) \/ SessionExpired(d)
         \/ FinalizeBootstrap(d) \/ ApplyPullPage(d)
<1>. DEFINE Moves(c) == \/ BeginSession(c) \/ PersistPage(c) \/ SessionExpired(c)
                        \/ FinalizeBootstrap(c) \/ ApplyPullPage(c)
<1>1. CASE UNCHANGED local
  BY <1>1 DEF local
<1>2. ASSUME NEW c \in Device, CycleNext(c)
      PROVE  UNCHANGED <<cursor[d], staged[d], mirror[d]>> \/ Moves(d)
  <2>1. CASE StartCycle(c) \/ NothingOwed(c) \/ Complete(c) \/ RequestBootstrap(c)
             \/ PageCheck(c) \/ PageRead(c) \/ Pull(c)
    BY <1>1, <2>1 DEF StartCycle, NothingOwed, Complete, RequestBootstrap, PageCheck, PageRead, Pull
  <2>2. CASE ReceiveConfirmation(c)
    BY <2>2 DEF ReceiveConfirmation
  <2>3. CASE Moves(c) /\ c # d
    BY <2>3 DEF BeginSession, PersistPage, SessionExpired, FinalizeBootstrap, ApplyPullPage,
      TypeOK, LocalType
  <2>4. QED
    BY <1>2, <2>1, <2>2, <2>3 DEF CycleNext
<1>3. ASSUME NEW c \in Device, FaultNext(c) PROVE UNCHANGED local
  BY <1>3 DEF FaultNext, CycleFails, ConfirmationLost
<1>4. ASSUME NEW c \in Device, NEW s \in Slot, CreateNext(c, s) PROVE UNCHANGED local
  BY <1>4 DEF CreateNext, Snapshot, Materialize, CreateFails
<1>5. CASE UNCHANGED vars \/ Lapse
  BY <1>1, <1>5 DEF vars, Lapse, SessionLapses
<1>6. QED
  BY <1>1, <1>2, <1>3, <1>4, <1>5, DevicesStill DEF Next, Lapse

LEMMA ReplyMoves ==
  ASSUME TypeOK, [Next]_vars, NEW d \in Device
  PROVE  \/ UNCHANGED <<reply[d], phase[d]>>
         \/ reply'[d] = NoReply
         \/ Complete(d) \/ PageCheck(d) \/ PageRead(d) \/ Pull(d)
         \/ UNCHANGED reply[d] /\ (StartCycle(d) \/ NothingOwed(d) \/ FinalizeBootstrap(d)
                                   \/ CreateFails(d, "current"))
<1>. DEFINE Still == UNCHANGED <<reply[d], phase[d]>>
<1>. reply \in [Device -> [kind : {"none", "confirmed", "expired", "checked", "page", "changes"},
        items : SUBSET (Item \cup Change), upto : Nat \cup {NoCursor}, more : BOOLEAN]]
  BY DEF TypeOK, CycleType
<1>. phase \in [Device -> Phases]
  BY DEF TypeOK, CycleType
<1>1. CASE UNCHANGED cycle
  BY <1>1 DEF cycle
<1>2. ASSUME NEW c \in Device, CycleNext(c), c # d PROVE Still
  BY <1>2 DEF CycleNext, StartCycle, NothingOwed, Complete, ReceiveConfirmation,
    RequestBootstrap, BeginSession, PageCheck, PageRead, PersistPage, SessionExpired,
    FinalizeBootstrap, Pull, ApplyPullPage, Proceed, cycle
<1>3. ASSUME CycleNext(d)
      PROVE  \/ Still
             \/ reply'[d] = NoReply
             \/ Complete(d) \/ PageCheck(d) \/ PageRead(d) \/ Pull(d)
             \/ UNCHANGED reply[d] /\ (StartCycle(d) \/ NothingOwed(d) \/ FinalizeBootstrap(d))
  <2>1. CASE StartCycle(d) \/ NothingOwed(d) \/ FinalizeBootstrap(d)
    BY <2>1 DEF StartCycle, NothingOwed, FinalizeBootstrap
  <2>2. CASE ReceiveConfirmation(d) \/ PersistPage(d) \/ SessionExpired(d) \/ ApplyPullPage(d)
    BY <2>2 DEF ReceiveConfirmation, PersistPage, SessionExpired, ApplyPullPage
  <2>3. CASE RequestBootstrap(d) \/ BeginSession(d)
    BY <2>3 DEF RequestBootstrap, BeginSession, cycle
  <2>4. QED
    BY <1>3, <2>1, <2>2, <2>3 DEF CycleNext
<1>4. ASSUME NEW c \in Device, FaultNext(c) PROVE Still \/ reply'[d] = NoReply
  BY <1>4 DEF FaultNext, CycleFails, ConfirmationLost, Proceed
<1>5. ASSUME NEW c \in Device, NEW s \in Slot, Snapshot(c, s) \/ Materialize(c, s) PROVE Still
  BY <1>5 DEF Snapshot, Materialize, cycle
<1>6. ASSUME NEW c \in Device, NEW s \in Slot, CreateFails(c, s)
      PROVE  Still \/ (UNCHANGED reply[d] /\ CreateFails(d, "current"))
  <2>1. CASE c = d /\ s = "current"
    BY <1>6, <2>1 DEF CreateFails
  <2>2. CASE s # "current" \/ c # d
    <3>1. reply' = reply
      BY <1>6 DEF CreateFails
    <3>2. phase' = IF s = "current" THEN [phase EXCEPT ![c] = "idle"] ELSE phase
      BY <1>6 DEF CreateFails
    <3>3. phase'[d] = phase[d] /\ reply'[d] = reply[d]
      BY <2>2, <3>1, <3>2
    <3>4. Still
      BY <3>3
    <3>5. QED
      BY <3>4
  <2>3. QED
    BY <2>1, <2>2
<1>7. CASE UNCHANGED vars \/ Lapse
  BY <1>1, <1>7 DEF vars, Lapse, SessionLapses
<1>8. QED
  BY <1>1, <1>2, <1>3, <1>4, <1>5, <1>6, <1>7, DevicesStill DEF Next, CreateNext, Lapse

-----------------------------------------------------------------------------
(* Positions.                                                              *)

LEMMA SettledStart ==
  ASSUME TypeOK
  PROVE  Settled(0) /\ Settled(NoCursor)
BY DEF TypeOK, ServerType, Change, Settled, NoCursor

\* What has committed is settled, and when nobody holds the lock the newest
\* committed change is the end of what anybody has drawn.
LEMMA SettledNewest ==
  ASSUME TypeOK, LockInv, FreshInv
  PROVE  /\ \A c \in changes : Settled(c.sequence)
         /\ changeLock = Nobody => \A t \in Transaction : recorded[t] = {}
BY ConstantsAssumption DEF LockInv, FreshInv, Settled

LEMMA SettledStep ==
  ASSUME TypeOK, LockInv, FreshInv, SettledInv, PullInv, [Next]_vars
  PROVE  SettledInv'
<1>1. \A p \in Nat \cup {NoCursor} : Settled(p) =>
        p < nextSequence' /\ \A t \in Transaction : \A c \in recorded'[t] : p < c.sequence
  <2>1. TAKE p \in Nat \cup {NoCursor}
  <2>2. HAVE Settled(p)
  <2>3. Settled(p)'
    BY <2>2, SettledStays
  <2>4. QED
    BY <2>3 DEF Settled
<1>2. ASSUME NEW d \in Device, NEW s \in Slot
      PROVE  /\ creation[d][s].watermark \in Nat /\ Settled(creation[d][s].watermark)
             /\ staged[d].watermark \in Nat /\ Settled(staged[d].watermark)
             /\ cursor[d] \in Nat \cup {NoCursor} /\ Settled(cursor[d])
  BY DEF TypeOK, StagingType, Creation, LocalType, SettledInv
<1>3. ASSUME NEW id \in DOMAIN sessions' PROVE Settled(sessions'[id].watermark)
  <2>1. CASE Fade
    BY <1>3, <2>1 DEF Fade, SettledInv
  <2>2. ASSUME NEW d \in Device, NEW s \in Slot, Materialize(d, s)
        PROVE  Settled(sessions'[id].watermark)
    <3>1. CASE id = nextSession
      <4>1. sessions'[id] = [device |-> d, watermark |-> creation[d][s].watermark,
                             items |-> creation[d][s].items, status |-> "ACTIVE"]
        BY <2>2, <3>1, Materialized
      <4>2. sessions'[id].watermark = creation[d][s].watermark
        BY <4>1
      <4>3. QED
        BY <1>2, <4>2
    <3>2. CASE id # nextSession
      <4>1. /\ DOMAIN sessions' = (DOMAIN sessions \ creation[d][s].active) \cup {nextSession}
            /\ \A i \in DOMAIN sessions' : i # nextSession => sessions'[i] = sessions[i]
        BY <2>2, Materialized
      <4>2. id \in DOMAIN sessions /\ sessions'[id] = sessions[id]
        BY <1>3, <3>2, <4>1
      <4>3. QED
        BY <4>2 DEF SettledInv
    <3>3. QED
      BY <3>1, <3>2
  <2>3. QED
    BY <2>1, <2>2, SessionsFade
<1>4. ASSUME NEW d \in Device, NEW s \in Slot PROVE Settled(creation'[d][s].watermark)
  <2>1. CASE UNCHANGED creation[d][s]
    BY <1>2, <2>1
  <2>2. CASE Snapshot(d, s)
    <3>1. PICK watermark \in {0} \cup {c.sequence : c \in changes} :
            creation'[d][s].watermark = watermark
      BY <2>2 DEF Snapshot, TypeOK, StagingType
    <3>2. QED
      BY <3>1, SettledStart, SettledNewest
  <2>3. CASE creation'[d][s].watermark = 0
    BY <2>3, SettledStart
  <2>4. CASE creation'[d][s].watermark = creation[d][s].watermark
    BY <1>2, <2>4
  <2>5. CASE creation'[d][s].watermark = creation[d]["current"].watermark
    BY <1>2, <2>5 DEF Slot
  <2>6. NoCreate.watermark = 0 /\ [NoCreate EXCEPT !.stage = "sent"].watermark = 0
        /\ [NoCreate EXCEPT !.stage = "done", !.session = nextSession,
                            !.watermark = creation[d][s].watermark].watermark
             = creation[d][s].watermark
    BY DEF NoCreate
  <2>7. QED
    BY <2>1, <2>2, <2>3, <2>4, <2>5, <2>6, CreationMoves
<1>5. ASSUME NEW d \in Device
      PROVE  Settled(cursor'[d]) /\ Settled(staged'[d].watermark)
  <2>1. CASE UNCHANGED <<cursor[d], staged[d], mirror[d]>>
    BY <1>2, <2>1 DEF Slot
  <2>2. CASE BeginSession(d)
    BY <1>2, <2>2 DEF BeginSession, TypeOK, LocalType, Slot, NoStage
  <2>3. CASE PersistPage(d)
    BY <1>2, <2>3 DEF PersistPage, TypeOK, LocalType, Slot
  <2>4. CASE SessionExpired(d)
    BY <1>2, <2>4, SettledStart DEF SessionExpired, TypeOK, LocalType, Slot, NoStage
  <2>5. CASE FinalizeBootstrap(d)
    BY <1>2, <2>5, SettledStart DEF FinalizeBootstrap, TypeOK, LocalType, Slot, NoStage
  <2>6. CASE ApplyPullPage(d)
    BY <1>2, <2>6 DEF ApplyPullPage, TypeOK, LocalType, Slot, SettledInv
  <2>7. QED
    BY <2>1, <2>2, <2>3, <2>4, <2>5, <2>6, LocalMoves
<1>6. ASSUME NEW d \in Device, reply'[d].kind = "changes" PROVE Settled(reply'[d].upto)
  <2>1. CASE UNCHANGED reply[d]
    BY <1>6, <2>1 DEF SettledInv
  <2>2. CASE reply'[d] = NoReply
    BY <1>6, <2>2 DEF NoReply
  <2>3. CASE Complete(d) \/ PageCheck(d) \/ PageRead(d)
    BY <1>6, <2>3 DEF Complete, PageCheck, PageRead, TypeOK, CycleType
  <2>4. CASE Pull(d)
    <3>1. reply'[d].upto = cursor[d] \/ \E c \in changes : reply'[d].upto = c.sequence
      BY <2>4 DEF Pull, TypeOK, CycleType
    <3>2. QED
      BY <1>2, <3>1, SettledNewest DEF Slot
  <2>5. QED
    BY <2>1, <2>2, <2>3, <2>4, ReplyMoves
<1>7. TypeOK'
  BY TypeStep
<1>8. \A id \in DOMAIN sessions' : Settled(sessions[id].watermark)'
  BY <1>1, <1>3, <1>7 DEF TypeOK, StagingType, Session, Settled
<1>9. \A d \in Device, s \in Slot : Settled(creation[d][s].watermark)'
  BY SMTT(30), <1>1, <1>4, <1>7 DEF TypeOK, StagingType, Creation, Settled
<1>10. ASSUME NEW d \in Device
       PROVE  /\ Settled(cursor[d])' /\ Settled(staged[d].watermark)'
              /\ reply'[d].kind = "changes" => Settled(reply[d].upto)'
  <2>1. /\ cursor'[d] \in Nat \cup {NoCursor} /\ staged'[d].watermark \in Nat
        /\ reply'[d].upto \in Nat \cup {NoCursor}
    BY <1>7 DEF TypeOK, LocalType, CycleType
  <2>2. QED
    BY <1>1, <1>5, <1>6, <2>1 DEF Settled
<1>11. QED
  BY <1>8, <1>9, <1>10 DEF SettledInv

LEMMA PullStep ==
  ASSUME TypeOK, LockInv, FreshInv, SettledInv, PullInv, [Next]_vars
  PROVE  PullInv'
<1>. SUFFICES ASSUME NEW d \in Device, reply'[d].kind = "changes"
              PROVE  /\ cursor'[d] <= reply'[d].upto
                     /\ reply'[d].items = {c \in changes' :
                          cursor'[d] < c.sequence /\ c.sequence <= reply'[d].upto}
  BY DEF PullInv
<1>1. cursor[d] \in Nat \cup {NoCursor} /\ reply[d].upto \in Nat \cup {NoCursor}
  BY DEF TypeOK, LocalType, CycleType
<1>2. CASE Pull(d)
  <2>. DEFINE unread == {c \in changes : c.sequence > cursor[d]}
  <2>1. PICK upto \in IF unread = {} THEN {cursor[d]} ELSE {c.sequence : c \in unread} :
          reply' = [reply EXCEPT ![d] =
            [kind |-> "changes", items |-> {c \in unread : c.sequence <= upto},
             upto |-> upto, more |-> \E c \in unread : c.sequence > upto]]
    BY <1>2 DEF Pull
  <2>2. \A c \in changes : c.sequence \in Nat
    BY DEF TypeOK, ServerType, Change
  <2>3. reply'[d].upto = upto /\ reply'[d].items = {c \in unread : c.sequence <= upto}
    BY <2>1 DEF TypeOK, CycleType
  <2>4. UNCHANGED <<cursor, changes>>
    BY <1>2 DEF Pull, server, local
  <2>5. cursor[d] <= upto
    BY <1>1, <2>2 DEF NoCursor
  <2>6. {c \in unread : c.sequence <= upto}
          = {c \in changes : cursor[d] < c.sequence /\ c.sequence <= upto}
    BY <1>1, <2>2 DEF NoCursor
  <2>7. QED
    BY <2>3, <2>4, <2>5, <2>6
<1>3. CASE reply'[d] = NoReply
  BY <1>3 DEF NoReply
<1>4. CASE Complete(d) \/ PageCheck(d) \/ PageRead(d)
  BY <1>4 DEF Complete, PageCheck, PageRead, TypeOK, CycleType
<1>5. CASE UNCHANGED reply[d]
  <2>1. cursor'[d] = cursor[d]
    <3>1. CASE FinalizeBootstrap(d)
      BY <1>5, <3>1 DEF FinalizeBootstrap, NoReply
    <3>2. CASE ApplyPullPage(d) \/ PersistPage(d) \/ SessionExpired(d)
      BY <1>5, <3>2 DEF ApplyPullPage, PersistPage, SessionExpired, NoReply, TypeOK, CycleType
    <3>3. CASE BeginSession(d)
      BY <3>3 DEF BeginSession
    <3>4. QED
      BY <3>1, <3>2, <3>3, LocalMoves
  <2>2. Settled(reply[d].upto)
    BY <1>5 DEF SettledInv
  <2>3. {c \in changes' : cursor[d] < c.sequence /\ c.sequence <= reply[d].upto}
          = {c \in changes : cursor[d] < c.sequence /\ c.sequence <= reply[d].upto}
    BY <1>1, <2>2, SettledStays
  <2>4. QED
    BY <1>5, <2>1, <2>3 DEF PullInv
<1>6. QED
  BY <1>2, <1>3, <1>4, <1>5, ReplyMoves

-----------------------------------------------------------------------------
(* A creation in progress knows every session it will replace.             *)

Replaces(d, s) ==
  creation[d][s].stage = "frozen" =>
    /\ creation[d][s].active \subseteq 1 .. (nextSession - 1)
    /\ \A id \in DOMAIN sessions :
         /\ id \in creation[d][s].active => sessions[id].device = d
         /\ sessions[id].device = d /\ sessions[id].status \in InForce
            => id \in creation[d][s].active
    /\ \A other \in Slot \ {s} : creation[d][other].stage # "frozen"

LEMMA ReplaceStep ==
  ASSUME TypeOK, ReplaceInv, [Next]_vars
  PROVE  ReplaceInv'
<1>. SUFFICES ASSUME NEW d \in Device, NEW s \in Slot, creation'[d][s].stage = "frozen"
              PROVE  Replaces(d, s)'
  BY DEF ReplaceInv, Replaces, InForce
<1>. Slot = {"current", "late"} /\ creation \in [Device -> [Slot -> Creation]]
  BY DEF TypeOK, StagingType, Slot
<1>. nextSession \in Nat /\ DOMAIN sessions \subseteq 1 .. (nextSession - 1)
  BY DEF TypeOK, StagingType
<1>1. \A u \in Slot : Replaces(d, u)
  BY DEF ReplaceInv, Replaces, InForce
<1>2. CASE Snapshot(d, s)
  <2>1. PICK gone \in SUBSET Disposable, ended \in SUBSET Lapsed,
               watermark \in {0} \cup {c.sequence : c \in changes} :
          /\ sessions' = CleanedUp(gone, ended)
          /\ creation' = [creation EXCEPT ![d][s] =
               [stage |-> "frozen", session |-> 0, watermark |-> watermark, items |-> LiveRows,
                active |-> {id \in DOMAIN sessions \ (gone \cup ended) :
                             /\ sessions[id].device = d
                             /\ sessions[id].status \in {"ACTIVE", "LAPSED"}}]]
    BY <1>2 DEF Snapshot
  <2>2. creation'[d][s].active = {id \in DOMAIN sessions \ (gone \cup ended) :
                             sessions[id].device = d /\ sessions[id].status \in InForce}
    BY <2>1 DEF InForce
  <2>3. /\ DOMAIN sessions' = DOMAIN sessions \ gone
        /\ \A id \in DOMAIN sessions' :
             /\ sessions'[id].device = sessions[id].device
             /\ sessions'[id].status \in InForce =>
                  id \notin ended /\ sessions[id].status \in InForce
             /\ id \notin ended => sessions'[id] = sessions[id]
    BY <2>1 DEF CleanedUp, TypeOK, StagingType, Session, InForce
  <2>4. \A other \in Slot \ {s} : creation'[d][other].stage # "frozen"
    BY <1>2, <2>1 DEF Snapshot
  <2>5. nextSession' = nextSession
    BY <1>2 DEF Snapshot
  <2>6. QED
    BY <2>2, <2>3, <2>4, <2>5 DEF Replaces
<1>3. ASSUME NEW u \in Slot, creation'[d][s] = creation[d][u],
             \A other \in Slot \ {s} : creation'[d][other].stage # "frozen"
      PROVE  Replaces(d, s)'
  <2>1. creation[d][u].stage = "frozen"
    BY <1>3
  <2>2. CASE Fade
    BY <1>1, <1>3, <2>1, <2>2 DEF Fade, Replaces
  <2>3. ASSUME NEW c \in Device, NEW v \in Slot, Materialize(c, v) PROVE Replaces(d, s)'
    <3>1. /\ nextSession' = nextSession + 1
          /\ DOMAIN sessions' = (DOMAIN sessions \ creation[c][v].active) \cup {nextSession}
          /\ \A id \in DOMAIN sessions' : id # nextSession => sessions'[id] = sessions[id]
      BY <2>3, Materialized
    <3>2. sessions'[nextSession].device = c
      <4>1. sessions'[nextSession] = [device |-> c, watermark |-> creation[c][v].watermark,
                                      items |-> creation[c][v].items, status |-> "ACTIVE"]
        BY <2>3, Materialized
      <4>2. QED
        BY <4>1
    <3>3. c # d
      <4>1. CASE c = d
        <5>1. creation[d][v].stage = "frozen"
          BY <2>3, <4>1 DEF Materialize
        <5>2. u = v
          BY <1>1, <2>1, <5>1 DEF Replaces
        <5>3. creation'[d][v].stage # "frozen" /\ \A o \in Slot \ {v} : creation'[d][o] = creation[d][o]
          BY <2>3, <4>1 DEF Materialize, EndCreate, NoCreate
        <5>4. QED
          BY <1>1, <1>3, <2>1, <5>2, <5>3 DEF Replaces
      <4>2. QED
        BY <4>1
    <3>4. nextSession \notin creation[d][u].active
      BY <1>1, <2>1 DEF Replaces
    <3>5. \A id \in DOMAIN sessions' : id # nextSession =>
             id \in DOMAIN sessions /\ sessions'[id] = sessions[id]
      BY <3>1
    <3>6. creation[d][u].active \subseteq 1 .. (nextSession' - 1)
      BY <1>1, <2>1, <3>1 DEF Replaces
    <3>7. QED
      BY <1>1, <1>3, <2>1, <3>2, <3>3, <3>4, <3>5, <3>6 DEF Replaces
  <2>4. QED
    BY <2>2, <2>3, SessionsFade
<1>4. CASE UNCHANGED creation[d][s]
  <2>1. ASSUME NEW other \in Slot \ {s} PROVE creation'[d][other].stage # "frozen"
    <3>1. creation[d][other].stage # "frozen"
      BY <1>1, <1>4 DEF Replaces
    <3>2. ~Snapshot(d, other)
      BY <1>4 DEF Snapshot
    <3>3. ~(creation'[d]["late"] = creation[d]["current"] /\ creation'[d]["current"] = NoCreate
            /\ creation[d]["late"] = NoCreate)
      BY <1>4 DEF NoCreate
    <3>4. [NoCreate EXCEPT !.stage = "sent"].stage # "frozen" /\ NoCreate.stage # "frozen"
          /\ [NoCreate EXCEPT !.stage = "done", !.session = nextSession,
                              !.watermark = creation[d][other].watermark].stage # "frozen"
      BY DEF NoCreate
    <3>5. QED
      BY <3>1, <3>2, <3>3, <3>4, CreationMoves
  <2>2. QED
    BY <1>3, <1>4, <2>1
<1>5. CASE s = "late" /\ creation'[d]["late"] = creation[d]["current"]
           /\ creation'[d]["current"] = NoCreate
  <2>1. \A other \in Slot \ {s} : creation'[d][other].stage # "frozen"
    BY <1>5 DEF NoCreate
  <2>2. QED
    BY <1>3, <1>5, <2>1
<1>6. [NoCreate EXCEPT !.stage = "sent"].stage # "frozen" /\ NoCreate.stage # "frozen"
      /\ [NoCreate EXCEPT !.stage = "done", !.session = nextSession,
                          !.watermark = creation[d][s].watermark].stage # "frozen"
  BY DEF NoCreate
<1>7. QED
  BY <1>2, <1>4, <1>5, <1>6, CreationMoves

-----------------------------------------------------------------------------

LEMMA BaseInit ==
  ASSUME Init
  PROVE  BaseInv
<1>. USE DEF Init
<1>1. ServerType /\ CycleType /\ LocalType
  BY ConstantsAssumption DEF ServerType, CycleType, LocalType, NoReply, NoStage, NoCursor,
    NeverSeen, Phases
<1>2. StagingType
  <2>1. NoCreate \in Creation
    BY DEF NoCreate, Creation
  <2>2. DOMAIN sessions = {}
    OBVIOUS
  <2>3. sessions \in [DOMAIN sessions -> Session]
    BY <2>2
  <2>4. QED
    BY <2>1, <2>2, <2>3 DEF StagingType
<1>3. FeedInv
  BY DEF FeedInv, LockInv, FreshInv, WriteInv, FeedIsComplete, Shows
<1>4. SettledInv
  <2>1. \A p \in {0, NoCursor} : Settled(p)
    BY <1>1, <1>2, SettledStart DEF TypeOK
  <2>2. QED
    BY <2>1 DEF SettledInv, NoCreate, NoStage, NoReply
<1>5. PullInv
  BY DEF PullInv, NoReply
<1>6. ReplaceInv
  BY DEF ReplaceInv, NoCreate
<1>7. OneActiveSession
  BY DEF OneActiveSession
<1>8. QED
  BY <1>1, <1>2, <1>3, <1>4, <1>5, <1>6, <1>7 DEF BaseInv, TypeOK

LEMMA BaseStep ==
  ASSUME BaseInv, [Next]_vars
  PROVE  BaseInv'
BY TypeStep, LockStep, FreshStep, WriteStep, FeedIsCompleteStep, SettledStep, PullStep,
  ReplaceStep, OneActiveStep DEF BaseInv, FeedInv

THEOREM BaseInvariant == Spec => []BaseInv
<1>1. Init => BaseInv
  BY BaseInit
<1>2. BaseInv /\ [Next]_vars => BaseInv'
  BY BaseStep
<1>3. QED
  BY <1>1, <1>2, PTL DEF Spec

\* Every variable of the feed, of the sessions and of the devices keeps its
\* type.
THEOREM FeedTypeCorrect == Spec => []TypeOK
<1>1. BaseInv => TypeOK
  BY DEF BaseInv
<1>2. QED
  BY <1>1, BaseInvariant, PTL

\* However many writers there are, the feed holds the committed changes and
\* nothing else (every service records what it changed).
THEOREM FeedComplete == Spec => []FeedIsComplete
<1>1. BaseInv => FeedIsComplete
  BY DEF BaseInv, FeedInv
<1>2. QED
  BY <1>1, BaseInvariant, PTL

\* A device never has two active bootstrap sessions, in whatever order its
\* create requests run.
THEOREM OneActive == Spec => []OneActiveSession
<1>1. BaseInv => OneActiveSession
  BY DEF BaseInv
<1>2. QED
  BY <1>1, BaseInvariant, PTL

\* Changes commit in the order of their sequence numbers: the lock that
\* SyncChangeRecorder keeps to the commit orders the writers.
THEOREM ChangesCommitInOrder == Spec => CommitOrder
<1>1. BaseInv /\ [Next]_vars =>
        \A c \in changes' \ changes : \A x \in changes : x.sequence < c.sequence
  <2>. SUFFICES ASSUME BaseInv, [Next]_vars
                PROVE  \A c \in changes' \ changes : \A x \in changes : x.sequence < c.sequence
    OBVIOUS
  <2>1. CASE UNCHANGED server
    BY <2>1 DEF server
  <2>2. ASSUME NEW t \in Transaction, WriterNext(t)
        PROVE  \A c \in changes' \ changes : c \in recorded[t]
    BY <2>2 DEF WriterNext, Write, Record, Commit, Rollback
  <2>3. QED
    BY <2>1, <2>2, ServerStill DEF BaseInv, FeedInv, FreshInv
<1>2. QED
  BY <1>1, BaseInvariant, PTL DEF Spec, CommitOrder

\* No device goes back in the feed.
THEOREM CursorNeverBack == Spec => CursorForward
<1>1. BaseInv /\ [Next]_vars => \A d \in Device : cursor[d] <= cursor'[d]
  <2>. SUFFICES ASSUME BaseInv, [Next]_vars, NEW d \in Device PROVE cursor[d] <= cursor'[d]
    OBVIOUS
  <2>1. TypeOK /\ cursor \in [Device -> Nat \cup {NoCursor}]
    BY DEF BaseInv, TypeOK, LocalType
  <2>2. CASE FinalizeBootstrap(d)
    BY <2>1, <2>2 DEF FinalizeBootstrap
  <2>3. CASE ApplyPullPage(d)
    BY <2>1, <2>3 DEF ApplyPullPage, BaseInv, PullInv
  <2>4. CASE cursor'[d] = cursor[d]
    BY <2>1, <2>4 DEF NoCursor
  <2>5. CASE BeginSession(d) \/ PersistPage(d) \/ SessionExpired(d)
    BY <2>4, <2>5 DEF BeginSession, PersistPage, SessionExpired
  <2>6. QED
    BY <2>1, <2>2, <2>3, <2>4, <2>5, LocalMoves
<1>2. QED
  BY <1>1, BaseInvariant, PTL DEF Spec, CursorForward

-----------------------------------------------------------------------------
(* From here on requests of one device run in the order they were sent.    *)

ShowsNext(e, p, v) ==
  LET past == {c \in changes' : c.entity = e /\ c.sequence <= p}
  IN \/ past = {} /\ v = 0
     \/ \E c \in past : /\ \A x \in past : x.sequence <= c.sequence
                        /\ v = IF c.live THEN c.version ELSE 0

RepresentsNext(items, p) ==
  /\ \A i, j \in items : i.entity = j.entity => i = j
  /\ \A e \in Entity : \/ \E i \in items : i.entity = e /\ ShowsNext(e, p, i.version)
                       \/ (\A i \in items : i.entity # e) /\ ShowsNext(e, p, 0)

LEMMA NextShows ==
  ASSUME TypeOK, LockInv, FreshInv, [Next]_vars
  PROVE  \A p \in Nat \cup {NoCursor} : Settled(p) =>
           /\ \A e \in Entity : \A v : Shows(e, p, v) => ShowsNext(e, p, v)
           /\ \A items : Represents(items, p) => RepresentsNext(items, p)
<1>1. TAKE p \in Nat \cup {NoCursor}
<1>2. HAVE Settled(p)
<1>3. ASSUME NEW e \in Entity, NEW v, Shows(e, p, v) PROVE ShowsNext(e, p, v)
  <2>1. Shows(e, p, v)'
    BY <1>2, <1>3, ShowsStays
  <2>2. QED
    BY <2>1 DEF Shows, ShowsNext
<1>4. ASSUME NEW items, Represents(items, p) PROVE RepresentsNext(items, p)
  BY <1>3, <1>4 DEF Represents, RepresentsNext
<1>5. QED
  BY <1>3, <1>4

\* A snapshot taken while nothing is recorded is the whole of the feed.
LEMMA SnapshotRepresents ==
  ASSUME TypeOK, FeedInv, NEW p \in Nat, \A c \in changes : c.sequence <= p
  PROVE  Represents(LiveRows, p)
<1>1. ASSUME NEW e \in Entity
      PROVE  Shows(e, p, IF rows[e].live THEN rows[e].version ELSE 0)
  <2>1. Shows(e, nextSequence, IF rows[e].live THEN rows[e].version ELSE 0)
    BY DEF FeedInv, FeedIsComplete
  <2>2. \A c \in changes : c.sequence \in Nat /\ c.sequence < nextSequence /\ nextSequence \in Nat
    BY DEF FeedInv, FreshInv, TypeOK, ServerType, Change
  <2>3. {c \in changes : c.entity = e /\ c.sequence <= nextSequence}
          = {c \in changes : c.entity = e /\ c.sequence <= p}
    BY <2>2
  <2>4. QED
    BY <2>1, <2>3 DEF Shows
<1>2. \A i, j \in LiveRows : i.entity = j.entity => i = j
  BY DEF LiveRows
<1>3. ASSUME NEW e \in Entity
      PROVE  \/ \E i \in LiveRows : i.entity = e /\ Shows(e, p, i.version)
             \/ (\A i \in LiveRows : i.entity # e) /\ Shows(e, p, 0)
  <2>1. CASE rows[e].live
    <3>. DEFINE item == [entity |-> e, version |-> rows[e].version]
    <3>1. item \in LiveRows
      BY <2>1 DEF LiveRows
    <3>2. item.entity = e /\ Shows(e, p, item.version)
      BY <1>1, <2>1
    <3>3. QED
      BY <3>1, <3>2
  <2>2. CASE ~rows[e].live
    BY <1>1, <2>2 DEF LiveRows
  <2>3. QED
    BY <2>1, <2>2
<1>4. QED
  BY <1>2, <1>3 DEF Represents

LEMMA WholeStep ==
  ASSUME BaseInv, WholeInv, [Next]_vars
  PROVE  WholeInv'
<1>. TypeOK /\ FeedInv /\ LockInv /\ FreshInv /\ SettledInv
  BY DEF BaseInv, FeedInv
<1>1. \A p \in Nat : Settled(p) => \A items : Represents(items, p) => RepresentsNext(items, p)
  BY NextShows
<1>2. ASSUME NEW d \in Device, NEW s \in Slot
      PROVE  creation[d][s].watermark \in Nat /\ Settled(creation[d][s].watermark)
  BY DEF TypeOK, StagingType, Creation, SettledInv
<1>3. ASSUME NEW id \in DOMAIN sessions
      PROVE  /\ sessions[id].watermark \in Nat /\ Settled(sessions[id].watermark)
             /\ Represents(sessions[id].items, sessions[id].watermark)
  BY DEF TypeOK, StagingType, Session, SettledInv, WholeInv
<1>4. ASSUME NEW id \in DOMAIN sessions'
      PROVE  RepresentsNext(sessions'[id].items, sessions'[id].watermark)
  <2>1. CASE Fade
    <3>1. /\ id \in DOMAIN sessions /\ sessions'[id].watermark = sessions[id].watermark
          /\ sessions'[id].items = sessions[id].items
      BY <2>1 DEF Fade
    <3>2. QED
      BY <1>1, <1>3, <3>1
  <2>2. ASSUME NEW d \in Device, NEW s \in Slot, Materialize(d, s)
        PROVE  RepresentsNext(sessions'[id].items, sessions'[id].watermark)
    <3>1. CASE id = nextSession
      <4>1. sessions'[id] = [device |-> d, watermark |-> creation[d][s].watermark,
                             items |-> creation[d][s].items, status |-> "ACTIVE"]
        BY <2>2, <3>1, Materialized
      <4>2. /\ sessions'[id].watermark = creation[d][s].watermark
            /\ sessions'[id].items = creation[d][s].items
        BY <4>1
      <4>3. Represents(creation[d][s].items, creation[d][s].watermark)
        BY <2>2 DEF Materialize, WholeInv
      <4>4. QED
        BY <1>1, <1>2, <4>2, <4>3
    <3>2. CASE id # nextSession
      <4>1. /\ DOMAIN sessions' = (DOMAIN sessions \ creation[d][s].active) \cup {nextSession}
            /\ \A i \in DOMAIN sessions' : i # nextSession => sessions'[i] = sessions[i]
        BY <2>2, Materialized
      <4>2. id \in DOMAIN sessions /\ sessions'[id] = sessions[id]
        BY <1>4, <3>2, <4>1
      <4>3. QED
        BY <1>1, <1>3, <4>2
    <3>3. QED
      BY <3>1, <3>2
  <2>3. QED
    BY <2>1, <2>2, SessionsFade
<1>5. ASSUME NEW d \in Device, NEW s \in Slot, creation'[d][s].stage = "frozen"
      PROVE  RepresentsNext(creation'[d][s].items, creation'[d][s].watermark)
  <2>1. ASSUME NEW u \in Slot, creation'[d][s] = creation[d][u]
        PROVE  RepresentsNext(creation'[d][s].items, creation'[d][s].watermark)
    <3>1. Represents(creation[d][u].items, creation[d][u].watermark)
      BY <1>5, <2>1 DEF WholeInv
    <3>2. QED
      BY <1>1, <1>2, <2>1, <3>1
  <2>2. CASE Snapshot(d, s)
    <3>1. PICK gone \in SUBSET Disposable, ended \in SUBSET Lapsed,
               watermark \in {0} \cup {c.sequence : c \in changes} :
            /\ \A c \in changes : c.sequence <= watermark
            /\ creation' = [creation EXCEPT ![d][s] =
                 [stage |-> "frozen", session |-> 0, watermark |-> watermark, items |-> LiveRows,
                  active |-> {id \in DOMAIN sessions \ (gone \cup ended) :
                               /\ sessions[id].device = d
                               /\ sessions[id].status \in {"ACTIVE", "LAPSED"}}]]
      BY <2>2 DEF Snapshot
    <3>2. watermark \in Nat
      BY DEF TypeOK, ServerType, Change
    <3>3. Settled(watermark)
      BY SettledStart, SettledNewest
    <3>4. Represents(LiveRows, watermark)
      BY <3>1, <3>2, SnapshotRepresents
    <3>5. RepresentsNext(LiveRows, watermark)
      BY <1>1, <3>2, <3>3, <3>4
    <3>6. creation'[d][s].watermark = watermark /\ creation'[d][s].items = LiveRows
      BY <3>1 DEF TypeOK, StagingType
    <3>7. QED
      BY <3>5, <3>6
  <2>3. NoCreate.stage # "frozen" /\ [NoCreate EXCEPT !.stage = "sent"].stage # "frozen"
        /\ [NoCreate EXCEPT !.stage = "done", !.session = nextSession,
                            !.watermark = creation[d][s].watermark].stage # "frozen"
    BY DEF NoCreate
  <2>4. "current" \in Slot
    BY DEF Slot
  <2>5. QED
    BY <1>5, <2>1, <2>2, <2>3, <2>4, CreationMoves
<1>6. QED
  BY <1>4, <1>5 DEF WholeInv, Represents, RepresentsNext, Shows, ShowsNext

\* What concerns a device changes by its own steps, faults and requests only.
LEMMA OwnSteps ==
  ASSUME TypeOK, [Next]_vars, NEW d \in Device
  PROVE  \/ CycleNext(d)
         \/ FaultNext(d)
         \/ \E s \in Slot : CreateNext(d, s)
         \/ UNCHANGED <<phase[d], reply[d], cursor[d], mirror[d], staged[d], creation[d]>>
<1>. DEFINE Still == UNCHANGED <<phase[d], reply[d], cursor[d], mirror[d], staged[d], creation[d]>>
<1>. /\ DOMAIN phase = Device /\ DOMAIN reply = Device /\ DOMAIN cursor = Device
     /\ DOMAIN mirror = Device /\ DOMAIN staged = Device /\ DOMAIN creation = Device
  BY DEF TypeOK, CycleType, LocalType, StagingType
<1>1. CASE UNCHANGED <<cycle, local, creation>>
  BY <1>1 DEF cycle, local
<1>2. ASSUME NEW c \in Device, c # d, CycleNext(c) PROVE Still
  <2>1. CASE StartCycle(c) \/ NothingOwed(c)
    BY <1>2, <2>1 DEF StartCycle, NothingOwed, Proceed, local, staging
  <2>6. CASE Complete(c) \/ PageCheck(c)
    BY <1>2, <2>6 DEF Complete, PageCheck, local
  <2>7. CASE PageRead(c) \/ Pull(c)
    <3>1. UNCHANGED <<phase, creation, cursor, mirror, staged>>
      BY <2>7 DEF PageRead, Pull, local, staging
    <3>2. reply'[d] = reply[d]
      BY <1>2, <2>7 DEF PageRead, Pull
    <3>3. QED
      BY <3>1, <3>2
  <2>2. CASE ReceiveConfirmation(c) \/ PersistPage(c)
    BY <1>2, <2>2 DEF ReceiveConfirmation, PersistPage, Proceed, staging
  <2>8. CASE SessionExpired(c)
    BY <1>2, <2>8 DEF SessionExpired, staging
  <2>9. CASE FinalizeBootstrap(c) \/ ApplyPullPage(c)
    BY <1>2, <2>9 DEF FinalizeBootstrap, ApplyPullPage, staging
  <2>3. CASE RequestBootstrap(c)
    BY <1>2, <2>3 DEF RequestBootstrap, cycle, local
  <2>4. CASE BeginSession(c)
    BY <1>2, <2>4 DEF BeginSession, cycle
  <2>5. QED
    BY <1>2, <2>1, <2>2, <2>3, <2>4, <2>6, <2>7, <2>8, <2>9 DEF CycleNext
<1>3. ASSUME NEW c \in Device, c # d, FaultNext(c) PROVE Still
  <2>1. CASE CycleFails(c)
    BY <1>3, <2>1 DEF CycleFails, local
  <2>2. CASE ConfirmationLost(c)
    BY <1>3, <2>2 DEF ConfirmationLost, Proceed, local, staging
  <2>3. QED
    BY <1>3, <2>1, <2>2 DEF FaultNext
<1>4. ASSUME NEW c \in Device, c # d, NEW s \in Slot, CreateNext(c, s) PROVE Still
  <2>1. CASE Snapshot(c, s)
    BY <1>4, <2>1 DEF Snapshot, cycle, local
  <2>2. CASE Materialize(c, s)
    BY <1>4, <2>2 DEF Materialize, EndCreate, cycle, local
  <2>3. CASE CreateFails(c, s)
    BY <1>4, <2>3 DEF CreateFails, local
  <2>4. QED
    BY <1>4, <2>1, <2>2, <2>3 DEF CreateNext
<1>5. CASE UNCHANGED vars \/ Lapse
  BY <1>1, <1>5 DEF vars, Lapse, SessionLapses, staging
<1>6. ASSUME NEW t \in Transaction, WriterNext(t) PROVE Still
  <2>1. UNCHANGED <<staging, cycle, local, faults>>
    BY <1>6, DevicesStill
  <2>2. QED
    BY <2>1 DEF staging, cycle, local
<1>7. QED
  BY <1>2, <1>3, <1>4, <1>5, <1>6 DEF Next, Lapse

PhaseOf(d) ==
  /\ phase[d] = "bootstrapping" => cursor[d] = NoCursor
  /\ phase[d] \in {"finishing", "pulling", "closing"} => cursor[d] # NoCursor
  /\ reply[d].kind = "none" => reply[d] = NoReply
  /\ phase[d] = "idle" => reply[d] = NoReply
  /\ phase[d] \in Acknowledging => reply[d].kind \in {"none", "confirmed", "expired"}
  /\ phase[d] = "bootstrapping" =>
       /\ reply[d].kind \in {"none", "expired", "checked", "page"}
       /\ reply[d] # NoReply => staged[d] # NoStage /\ ~staged[d].ready
  /\ phase[d] = "pulling" => reply[d].kind \in {"none", "changes"}

LEMMA PhaseStep ==
  ASSUME TypeOK, PullInv, StageInv, CreateInv, PhaseInv, [Next]_vars
  PROVE  PhaseInv'
<1>. SUFFICES ASSUME NEW d \in Device PROVE PhaseOf(d)'
  BY DEF PhaseInv, PhaseOf
<1>1. PhaseOf(d)
  BY DEF PhaseInv, PhaseOf
<1>2. /\ phase \in [Device -> Phases] /\ cursor \in [Device -> Nat \cup {NoCursor}]
      /\ staged[d] # NoStage => cursor[d] = NoCursor
      /\ creation[d]["current"].stage # "none" =>
           phase[d] = "bootstrapping" /\ staged[d] = NoStage /\ reply[d] = NoReply
      /\ DOMAIN staged = Device /\ DOMAIN reply = Device
  BY DEF TypeOK, CycleType, LocalType, StageInv, CreateInv
<1>3. NoReply.kind = "none" /\ reply[d] = [kind |-> reply[d].kind, items |-> reply[d].items,
                                           upto |-> reply[d].upto, more |-> reply[d].more]
  BY DEF NoReply, TypeOK, CycleType
<1>. USE DEF Acknowledging
<1>4. ASSUME CycleNext(d) PROVE PhaseOf(d)'
  <2>1. CASE StartCycle(d)
    BY <1>1, <1>2, <1>3, <2>1 DEF StartCycle, PhaseOf, local
  <2>2. CASE NothingOwed(d)
    BY <1>1, <1>2, <1>3, <2>2 DEF NothingOwed, Proceed, After, NeedsBootstrap, PhaseOf, local
  <2>3. CASE Complete(d)
    <3>1. reply'[d].kind \in {"confirmed", "expired"}
      BY <1>2, <1>3, <2>3 DEF Complete, NoReply, TypeOK, CycleType
    <3>2. QED
      BY <1>1, <1>2, <2>3, <3>1 DEF Complete, PhaseOf, local, Phases
  <2>4. CASE ReceiveConfirmation(d)
    BY <1>1, <1>2, <1>3, <2>4 DEF ReceiveConfirmation, Proceed, After, NeedsBootstrap, PhaseOf
  <2>5. CASE RequestBootstrap(d) \/ BeginSession(d)
    BY <1>1, <1>2, <1>3, <2>5 DEF RequestBootstrap, BeginSession, PhaseOf, cycle, local
  <2>6. CASE PageCheck(d)
    BY <1>1, <1>2, <1>3, <2>6 DEF PageCheck, PhaseOf, local
  <2>7. CASE PageRead(d)
    BY <1>1, <1>2, <1>3, <2>7 DEF PageRead, PhaseOf, local
  <2>8. CASE PersistPage(d)
    BY <1>1, <1>2, <1>3, <2>8 DEF PersistPage, PhaseOf
  <2>9. CASE SessionExpired(d)
    BY <1>1, <1>2, <1>3, <2>9 DEF SessionExpired, PhaseOf
  <2>10. CASE FinalizeBootstrap(d)
    <3>1. staged[d].watermark \in Nat
      BY DEF TypeOK, LocalType
    <3>2. QED
      BY <1>1, <1>2, <1>3, <2>10, <3>1 DEF FinalizeBootstrap, PhaseOf, NoCursor
  <2>11. CASE Pull(d)
    BY <1>1, <1>2, <1>3, <2>11 DEF Pull, PhaseOf, local
  <2>12. CASE ApplyPullPage(d)
    <3>1. cursor[d] \in Nat /\ cursor[d] <= reply[d].upto /\ reply[d].upto \in Nat \cup {NoCursor}
      BY <1>1, <1>2, <2>12 DEF ApplyPullPage, PhaseOf, PullInv, TypeOK, CycleType
    <3>2. QED
      BY <1>1, <1>2, <1>3, <2>12, <3>1 DEF ApplyPullPage, PhaseOf, NoCursor
  <2>13. QED
    BY <1>4, <2>1, <2>2, <2>3, <2>4, <2>5, <2>6, <2>7, <2>8, <2>9, <2>10, <2>11, <2>12 DEF CycleNext
<1>5. ASSUME FaultNext(d) PROVE PhaseOf(d)'
  <2>1. CASE CycleFails(d)
    BY <1>1, <1>2, <1>3, <2>1 DEF CycleFails, PhaseOf, local
  <2>2. CASE ConfirmationLost(d)
    BY <1>1, <1>2, <1>3, <2>2 DEF ConfirmationLost, Proceed, After, NeedsBootstrap, PhaseOf, local
  <2>3. QED
    BY <1>5, <2>1, <2>2 DEF FaultNext
<1>6. ASSUME NEW s \in Slot, CreateNext(d, s) PROVE PhaseOf(d)'
  <2>1. CASE CreateFails(d, s)
    <3>1. s = "current" => creation[d]["current"].stage # "none"
      BY <2>1 DEF CreateFails
    <3>2. QED
      BY <1>1, <1>2, <1>3, <2>1, <3>1 DEF CreateFails, PhaseOf, local
  <2>2. CASE Snapshot(d, s) \/ Materialize(d, s)
    BY <1>1, <2>2 DEF Snapshot, Materialize, PhaseOf, cycle, local
  <2>3. QED
    BY <1>6, <2>1, <2>2 DEF CreateNext
<1>7. CASE UNCHANGED <<phase[d], reply[d], cursor[d], mirror[d], staged[d], creation[d]>>
  BY <1>1, <1>7 DEF PhaseOf
<1>8. QED
  BY <1>4, <1>5, <1>6, <1>7, OwnSteps

\* While a device waits for a session, or has one on its way, nothing is
\* staged and nothing pulled.
LEMMA WaitingStays ==
  ASSUME TypeOK, PhaseInv, StageInv, [Next]_vars, NEW d \in Device,
         staged[d] = NoStage, cursor[d] = NoCursor, creation[d]["current"].stage # "done"
  PROVE  staged'[d] = NoStage /\ cursor'[d] = NoCursor
<1>1. DOMAIN staged = Device /\ NoStage.ready = FALSE
  BY DEF TypeOK, LocalType, NoStage
<1>2. CASE BeginSession(d)
  BY <1>2 DEF BeginSession
<1>3. CASE PersistPage(d)
  BY <1>3 DEF PersistPage, PhaseInv, NoReply
<1>4. CASE SessionExpired(d)
  BY <1>1, <1>4 DEF SessionExpired
<1>5. CASE FinalizeBootstrap(d)
  BY <1>1, <1>5 DEF FinalizeBootstrap
<1>6. CASE ApplyPullPage(d)
  BY <1>6 DEF ApplyPullPage, PhaseInv
<1>7. QED
  BY <1>2, <1>3, <1>4, <1>5, <1>6, LocalMoves

LEMMA CreateInvStep ==
  ASSUME ~Overtakes, TypeOK, ReplaceInv, PhaseInv, StageInv, CreateInv, [Next]_vars
  PROVE  CreateInv'
<1>. SUFFICES ASSUME NEW d \in Device
              PROVE  /\ creation'[d]["late"].stage # "done"
                     /\ creation'[d]["late"].stage # "none" =>
                          staged'[d] = NoStage /\ cursor'[d] = NoCursor
                     /\ creation'[d]["current"].stage # "none" =>
                          phase'[d] = "bootstrapping" /\ staged'[d] = NoStage /\ reply'[d] = NoReply
                     /\ creation'[d]["current"].stage \in {"frozen", "done"} =>
                          creation'[d]["late"].stage = "none"
                     /\ creation'[d]["current"].stage = "done" =>
                          LET id == creation'[d]["current"].session
                          IN /\ id \in 1 .. (nextSession' - 1)
                             /\ id \in DOMAIN sessions' =>
                                  /\ sessions'[id].device = d
                                  /\ sessions'[id].watermark = creation'[d]["current"].watermark
  BY DEF CreateInv
<1>. "current" \in Slot /\ "late" \in Slot /\ Slot = {"current", "late"}
  BY DEF Slot
<1>. /\ nextSession \in Nat \ {0}
     /\ creation \in [Device -> [Slot -> Creation]]
  BY DEF TypeOK, StagingType
<1>. /\ DOMAIN phase = Device /\ DOMAIN reply = Device
     /\ DOMAIN staged = Device /\ NoStage.ready = FALSE
  BY DEF TypeOK, CycleType, LocalType, NoStage
<1>1. /\ creation[d]["late"].stage # "done"
      /\ creation[d]["late"].stage # "none" => staged[d] = NoStage /\ cursor[d] = NoCursor
      /\ creation[d]["current"].stage # "none" =>
           phase[d] = "bootstrapping" /\ staged[d] = NoStage /\ reply[d] = NoReply
      /\ creation[d]["current"].stage \in {"frozen", "done"} => creation[d]["late"].stage = "none"
  BY DEF CreateInv
<1>2. phase[d] = "bootstrapping" => cursor[d] = NoCursor
  BY DEF PhaseInv
<1>3. /\ NoCreate.stage = "none" /\ NoReply.kind = "none"
      /\ [NoCreate EXCEPT !.stage = "sent"].stage = "sent"
  BY DEF NoCreate, NoReply
<1>4. ASSUME NEW w PROVE
        LET done == [NoCreate EXCEPT !.stage = "done", !.session = nextSession, !.watermark = w]
        IN done.stage = "done" /\ done.session = nextSession /\ done.watermark = w
  BY DEF NoCreate
<1>5. creation'[d]["late"].stage # "done"
  <2>1. ~Snapshot(d, "late") \/ creation'[d]["late"].stage = "frozen"
    BY DEF Snapshot
  <2>2. QED
    BY <1>1, <1>3, <2>1, CreationMoves
<1>6. ASSUME creation'[d]["late"].stage # "none"
      PROVE  staged'[d] = NoStage /\ cursor'[d] = NoCursor
  <2>1. \/ creation[d]["late"].stage # "none"
        \/ creation[d]["current"].stage \in {"sent", "frozen"}
    <3>1. Snapshot(d, "late") => creation[d]["late"].stage = "sent"
      BY DEF Snapshot
    <3>2. QED
      BY <1>3, <1>6, <3>1, CreationMoves
  <2>2. staged[d] = NoStage /\ cursor[d] = NoCursor /\ creation[d]["current"].stage # "done"
    BY <1>1, <1>2, <2>1
  <2>3. QED
    BY <2>2, WaitingStays
<1>7. ASSUME creation'[d]["current"].stage # "none"
      PROVE  phase'[d] = "bootstrapping" /\ staged'[d] = NoStage /\ reply'[d] = NoReply
  <2>1. CASE RequestBootstrap(d)
    <3>1. reply[d] = NoReply
      BY <2>1 DEF RequestBootstrap, PhaseInv
    <3>2. QED
      BY <2>1, <3>1 DEF RequestBootstrap, cycle, local
  <2>2. CASE creation[d]["current"].stage # "none"
    <3>1. /\ phase[d] = "bootstrapping" /\ staged[d] = NoStage /\ reply[d] = NoReply
          /\ cursor[d] = NoCursor
      BY <1>1, <1>2, <2>2
    <3>2. ~BeginSession(d) /\ ~CycleFails(d)
      BY <1>3, <1>7 DEF BeginSession, CycleFails
    <3>3. ~CreateFails(d, "current")
      BY <1>3, <1>7 DEF CreateFails
    <3>4. CASE CycleNext(d)
      BY <2>1, <3>1, <3>2, <3>4, <1>3 DEF CycleNext, StartCycle, NothingOwed, Complete,
        ReceiveConfirmation, PageCheck, PageRead, PersistPage, SessionExpired, FinalizeBootstrap,
        Pull, ApplyPullPage, Acknowledging
    <3>5. CASE FaultNext(d)
      BY <3>1, <3>2, <3>5 DEF FaultNext, ConfirmationLost, Acknowledging
    <3>6. ASSUME NEW s \in Slot, CreateNext(d, s)
          PROVE  UNCHANGED <<phase[d], staged[d], reply[d]>>
      <4>1. CASE Snapshot(d, s) \/ Materialize(d, s)
        BY <4>1 DEF Snapshot, Materialize, cycle, local
      <4>2. CASE CreateFails(d, s)
        BY <3>3, <4>2 DEF CreateFails, local
      <4>3. QED
        BY <3>6, <4>1, <4>2 DEF CreateNext
    <3>7. QED
      BY <3>1, <3>4, <3>5, <3>6, OwnSteps
  <2>3. CASE creation[d]["current"].stage = "none" /\ ~RequestBootstrap(d)
    <3>1. \A s \in Slot : CreateNext(d, s) => creation'[d]["current"] = creation[d]["current"]
      BY <2>3 DEF CreateNext, Snapshot, Materialize, CreateFails, EndCreate
    <3>2. FaultNext(d) => creation'[d]["current"] \in {creation[d]["current"], NoCreate}
      BY DEF FaultNext, CycleFails, ConfirmationLost, staging
    <3>3. CycleNext(d) => creation'[d]["current"] \in {creation[d]["current"], NoCreate}
      BY <2>3 DEF CycleNext, StartCycle, NothingOwed, Complete,
        ReceiveConfirmation, BeginSession, PageCheck, PageRead, PersistPage, SessionExpired,
        FinalizeBootstrap, Pull, ApplyPullPage, staging
    <3>4. QED
      BY <1>3, <1>7, <2>3, <3>1, <3>2, <3>3, OwnSteps
  <2>4. QED
    BY <2>1, <2>2, <2>3
<1>8. ASSUME creation'[d]["current"].stage \in {"frozen", "done"}
      PROVE  creation'[d]["late"].stage = "none"
  <2>1. CASE Snapshot(d, "current")
    <3>1. creation[d]["late"].stage = "none" /\ creation'[d]["late"] = creation[d]["late"]
      BY <2>1 DEF Snapshot
    <3>2. QED
      BY <3>1
  <2>2. CASE creation[d]["current"].stage \in {"frozen", "done"}
    <3>1. creation[d]["late"].stage = "none"
      BY <1>1, <2>2
    <3>2. ~Snapshot(d, "late")
      BY <3>1 DEF Snapshot
    <3>3. creation'[d]["current"] # NoCreate
      BY <1>3, <1>8
    <3>4. QED
      BY <1>3, <3>1, <3>2, <3>3, CreationMoves
  <2>3. Materialize(d, "current") => creation[d]["current"].stage = "frozen"
    BY DEF Materialize
  <2>4. QED
    BY <1>3, <1>8, <2>1, <2>2, <2>3, CreationMoves
<1>9. ASSUME creation'[d]["current"].stage = "done"
      PROVE  LET id == creation'[d]["current"].session
             IN /\ id \in 1 .. (nextSession' - 1)
                /\ id \in DOMAIN sessions' =>
                     /\ sessions'[id].device = d
                     /\ sessions'[id].watermark = creation'[d]["current"].watermark
  <2>1. CASE Materialize(d, "current")
    <3>1. creation'[d]["current"] = [NoCreate EXCEPT !.stage = "done", !.session = nextSession,
                                       !.watermark = creation[d]["current"].watermark]
      BY <2>1 DEF Materialize, EndCreate
    <3>2. /\ creation'[d]["current"].session = nextSession
          /\ creation'[d]["current"].watermark = creation[d]["current"].watermark
      BY <1>4, <3>1
    <3>3. sessions'[nextSession] = [device |-> d, watermark |-> creation[d]["current"].watermark,
                                    items |-> creation[d]["current"].items, status |-> "ACTIVE"]
      BY <2>1, Materialized
    <3>4. /\ sessions'[nextSession].device = d
          /\ sessions'[nextSession].watermark = creation[d]["current"].watermark
      BY <3>3
    <3>5. nextSession' = nextSession + 1
      BY <2>1 DEF Materialize
    <3>6. QED
      BY <3>2, <3>4, <3>5
  <2>2. CASE UNCHANGED creation[d]["current"]
    <3>. DEFINE id == creation[d]["current"].session
    <3>1. /\ id \in 1 .. (nextSession - 1)
          /\ id \in DOMAIN sessions => /\ sessions[id].device = d
                                       /\ sessions[id].watermark = creation[d]["current"].watermark
      BY <1>9, <2>2 DEF CreateInv
    <3>2. CASE Fade
      BY <2>2, <3>1, <3>2 DEF Fade
    <3>3. ASSUME NEW c \in Device, NEW s \in Slot, Materialize(c, s)
          PROVE  /\ nextSession' = nextSession + 1
                 /\ id \in DOMAIN sessions' => id \in DOMAIN sessions /\ sessions'[id] = sessions[id]
      <4>1. /\ nextSession' = nextSession + 1
            /\ DOMAIN sessions' = (DOMAIN sessions \ creation[c][s].active) \cup {nextSession}
            /\ \A i \in DOMAIN sessions' : i # nextSession => sessions'[i] = sessions[i]
        BY <3>3, Materialized
      <4>2. id # nextSession
        BY <3>1
      <4>3. QED
        BY <4>1, <4>2
    <3>4. QED
      BY <2>2, <3>1, <3>2, <3>3, SessionsFade
  <2>3. Snapshot(d, "current") => creation'[d]["current"].stage = "frozen"
    BY DEF Snapshot
  <2>4. QED
    BY <1>3, <1>9, <2>1, <2>2, <2>3, CreationMoves
<1>10. QED
  BY <1>5, <1>6, <1>7, <1>8, <1>9

\* Only a creation removes sessions.
LEMMA SessionsStay ==
  ASSUME TypeOK, [Next]_vars
  PROVE  \/ DOMAIN sessions \subseteq DOMAIN sessions'
         \/ \E c \in Device, s \in Slot : Materialize(c, s) \/ Snapshot(c, s)
<1>1. CASE UNCHANGED sessions
  BY <1>1
<1>2. ASSUME NEW d \in Device, CycleNext(d) PROVE DOMAIN sessions \subseteq DOMAIN sessions'
  <2>1. CASE Complete(d) \/ PageCheck(d)
    BY <2>1 DEF Complete, PageCheck
  <2>2. CASE ~Complete(d) /\ ~PageCheck(d)
    BY <1>2, <2>2 DEF CycleNext, StartCycle, NothingOwed, ReceiveConfirmation,
      RequestBootstrap, BeginSession, PageRead, PersistPage, SessionExpired,
      FinalizeBootstrap, Pull, ApplyPullPage, staging
  <2>3. QED
    BY <2>1, <2>2
<1>3. ASSUME NEW d \in Device, FaultNext(d) PROVE UNCHANGED sessions
  BY <1>3 DEF FaultNext, CycleFails, ConfirmationLost, staging
<1>4. ASSUME Lapse PROVE DOMAIN sessions \subseteq DOMAIN sessions'
  BY <1>4 DEF Lapse, SessionLapses
<1>5. ASSUME NEW t \in Transaction, WriterNext(t) PROVE UNCHANGED sessions
  BY <1>5, DevicesStill DEF staging
<1>6. ASSUME NEW d \in Device, NEW s \in Slot, CreateFails(d, s) PROVE UNCHANGED sessions
  BY <1>6 DEF CreateFails
<1>7. CASE UNCHANGED vars
  BY <1>7 DEF vars, staging
<1>8. QED
  BY <1>1, <1>2, <1>3, <1>4, <1>5, <1>6, <1>7 DEF Next, CreateNext, Lapse

\* The session that d is fetching stays as it is, or goes, in any step that
\* leaves what d has staged alone.
LEMMA FetchedStays ==
  ASSUME TypeOK, [Next]_vars, NEW id \in 1 .. (nextSession - 1)
  PROVE  /\ id \in 1 .. (nextSession' - 1)
         /\ id \in DOMAIN sessions' =>
              /\ id \in DOMAIN sessions
              /\ sessions'[id].device = sessions[id].device
              /\ sessions'[id].watermark = sessions[id].watermark
              /\ sessions'[id].items = sessions[id].items
<1>. nextSession \in Nat
  BY DEF TypeOK, StagingType
<1>1. CASE Fade
  BY <1>1 DEF Fade
<1>2. ASSUME NEW c \in Device, NEW s \in Slot, Materialize(c, s)
      PROVE  /\ nextSession' = nextSession + 1
             /\ id \in DOMAIN sessions' => id \in DOMAIN sessions /\ sessions'[id] = sessions[id]
  <2>1. /\ nextSession' = nextSession + 1
        /\ DOMAIN sessions' = (DOMAIN sessions \ creation[c][s].active) \cup {nextSession}
        /\ \A i \in DOMAIN sessions' : i # nextSession => sessions'[i] = sessions[i]
    BY <1>2, Materialized
  <2>2. id # nextSession
    OBVIOUS
  <2>3. QED
    BY <2>1, <2>2
<1>3. QED
  BY <1>1, <1>2, SessionsFade

StageOf(d) ==
  staged[d] # NoStage =>
    /\ staged[d].session \in 1 .. (nextSession - 1)
    /\ cursor[d] = NoCursor
    /\ staged[d].ready => Represents(staged[d].items, staged[d].watermark)
    /\ ~staged[d].ready /\ staged[d].session \in DOMAIN sessions =>
         LET session == sessions[staged[d].session]
         IN /\ session.device = d /\ session.watermark = staged[d].watermark
            /\ staged[d].items = {i \in session.items : Rank[i.entity] <= staged[d].after}

LEMMA StageStep ==
  ASSUME BaseInv, CreateInv, PhaseInv, StageInv, PageInv, [Next]_vars
  PROVE  StageInv'
<1>. TypeOK /\ FeedInv /\ LockInv /\ FreshInv /\ SettledInv
  BY DEF BaseInv, FeedInv
<1>. SUFFICES ASSUME NEW d \in Device PROVE StageOf(d)'
  BY DEF StageInv, StageOf
<1>1. StageOf(d)
  BY DEF StageInv, StageOf
<1>2. staged[d].watermark \in Nat /\ Settled(staged[d].watermark)
  BY DEF TypeOK, LocalType, SettledInv
<1>3. \A items : Represents(items, staged[d].watermark) => RepresentsNext(items, staged[d].watermark)
  BY <1>2, NextShows
<1>4. StageOf(d)' = (staged'[d] # NoStage =>
        /\ staged'[d].session \in 1 .. (nextSession' - 1)
        /\ cursor'[d] = NoCursor
        /\ staged'[d].ready => RepresentsNext(staged'[d].items, staged'[d].watermark)
        /\ ~staged'[d].ready /\ staged'[d].session \in DOMAIN sessions' =>
             LET session == sessions'[staged'[d].session]
             IN /\ session.device = d /\ session.watermark = staged'[d].watermark
                /\ staged'[d].items = {i \in session.items : Rank[i.entity] <= staged'[d].after})
  BY DEF StageOf, Represents, RepresentsNext, Shows, ShowsNext
<1>5. CASE UNCHANGED <<cursor[d], staged[d], mirror[d]>>
  <2>. SUFFICES ASSUME staged[d] # NoStage PROVE StageOf(d)'
    BY <1>4, <1>5
  <2>1. staged[d].session \in 1 .. (nextSession - 1)
    BY <1>1 DEF StageOf
  <2>. DEFINE id == staged[d].session
  <2>2. /\ id \in 1 .. (nextSession' - 1)
        /\ id \in DOMAIN sessions' =>
              /\ id \in DOMAIN sessions
              /\ sessions'[id].device = sessions[id].device
              /\ sessions'[id].watermark = sessions[id].watermark
              /\ sessions'[id].items = sessions[id].items
    BY <2>1, FetchedStays
  <2>3. QED
    BY <1>1, <1>3, <1>4, <1>5, <2>2 DEF StageOf
<1>6. CASE BeginSession(d)
  <2>. DEFINE new == creation[d]["current"]
              id == new.session
  <2>1. new.stage = "done" /\ UNCHANGED <<sessions, nextSession, cursor>>
    BY <1>6 DEF BeginSession
  <2>2. staged' = [staged EXCEPT ![d] = [NoStage EXCEPT !.session = id, !.watermark = new.watermark]]
    BY <1>6 DEF BeginSession
  <2>3. /\ staged'[d].session = id /\ staged'[d].watermark = new.watermark
        /\ staged'[d].items = {} /\ staged'[d].after = 0 /\ staged'[d].ready = FALSE
    BY <2>2 DEF NoStage, TypeOK, LocalType
  <2>4. cursor[d] = NoCursor
    BY <2>1 DEF CreateInv, PhaseInv
  <2>5. /\ id \in 1 .. (nextSession - 1)
        /\ id \in DOMAIN sessions => sessions[id].device = d /\ sessions[id].watermark = new.watermark
    BY <2>1 DEF CreateInv
  <2>6. id \in DOMAIN sessions => {i \in sessions[id].items : Rank[i.entity] <= 0} = {}
    <3>1. id \in DOMAIN sessions => \A i \in sessions[id].items : i.entity \in Entity
      BY DEF TypeOK, StagingType, Session, Item
    <3>2. QED
      BY <3>1, ConstantsAssumption
  <2>. HIDE DEF new, id
  <2>7. QED
    BY <1>4, <2>1, <2>3, <2>4, <2>5, <2>6
<1>7. CASE PersistPage(d)
  <2>. DEFINE items == staged[d].items \cup reply[d].items
  <2>1. reply[d].kind = "page" /\ UNCHANGED <<sessions, nextSession, cursor, changes>>
    BY <1>7 DEF PersistPage, staging, server
  <2>2. /\ staged[d] # NoStage /\ ~staged[d].ready
    BY <1>7, <2>1 DEF PersistPage, PhaseInv, NoReply
  <2>3. staged' = [staged EXCEPT ![d] = [staged[d] EXCEPT !.items = @ \cup reply[d].items,
                      !.after = reply[d].upto, !.ready = ~reply[d].more]]
    BY <1>7 DEF PersistPage
  <2>4. /\ staged'[d].session = staged[d].session /\ staged'[d].watermark = staged[d].watermark
        /\ staged'[d].items = items /\ staged'[d].after = reply[d].upto
        /\ staged'[d].ready = ~reply[d].more
    BY <2>3 DEF TypeOK, LocalType
  <2>5. /\ ~reply[d].more => Represents(items, staged[d].watermark)
        /\ staged[d].session \in DOMAIN sessions =>
             items = {i \in sessions[staged[d].session].items : Rank[i.entity] <= reply[d].upto}
    BY <2>1 DEF PageInv
  <2>6. ~reply[d].more => RepresentsNext(items, staged[d].watermark)
    BY <1>3, <2>5
  <2>. HIDE DEF items
  <2>7. QED
    BY <1>1, <1>4, <2>1, <2>2, <2>4, <2>5, <2>6 DEF StageOf
<1>8. CASE SessionExpired(d)
  <2>1. CASE UNCHANGED staged
    <3>1. UNCHANGED <<cursor[d], staged[d], mirror[d]>>
      BY <1>8, <2>1 DEF SessionExpired
    <3>2. QED
      BY <1>5, <3>1
  <2>2. CASE staged' = [staged EXCEPT ![d] = NoStage]
    BY <1>4, <2>2 DEF TypeOK, LocalType
  <2>3. QED
    BY <1>8, <2>1, <2>2 DEF SessionExpired
<1>9. CASE FinalizeBootstrap(d)
  BY <1>4, <1>9 DEF FinalizeBootstrap, TypeOK, LocalType
<1>10. CASE ApplyPullPage(d)
  <2>1. cursor[d] # NoCursor
    BY <1>10 DEF ApplyPullPage, PhaseInv
  <2>2. staged[d] = NoStage
    BY <1>1, <2>1 DEF StageOf
  <2>3. QED
    BY <1>4, <1>10, <2>2 DEF ApplyPullPage
<1>11. QED
  BY <1>5, <1>6, <1>7, <1>8, <1>9, <1>10, LocalMoves

PageOf(d) ==
  /\ reply[d].kind = "checked" => staged[d].session \in DOMAIN sessions
  /\ reply[d].kind = "page" =>
       LET items == staged[d].items \cup reply[d].items
       IN /\ ~reply[d].more => Represents(items, staged[d].watermark)
          /\ staged[d].session \in DOMAIN sessions =>
               items = {i \in sessions[staged[d].session].items : Rank[i.entity] <= reply[d].upto}

LEMMA PageStep ==
  ASSUME BaseInv, WholeInv, CreateInv, PhaseInv, StageInv, PageInv, [Next]_vars
  PROVE  PageInv'
<1>. TypeOK /\ FeedInv /\ LockInv /\ FreshInv /\ SettledInv
  BY DEF BaseInv, FeedInv
<1>. SUFFICES ASSUME NEW d \in Device PROVE PageOf(d)'
  BY DEF PageInv, PageOf
<1>1. PageOf(d) /\ StageOf(d)
  BY DEF PageInv, PageOf, StageInv, StageOf
<1>2. staged[d].watermark \in Nat /\ Settled(staged[d].watermark)
  BY DEF TypeOK, LocalType, SettledInv
<1>3. \A items : Represents(items, staged[d].watermark) => RepresentsNext(items, staged[d].watermark)
  BY <1>2, NextShows
<1>4. PageOf(d)' = (
        /\ reply'[d].kind = "checked" => staged'[d].session \in DOMAIN sessions'
        /\ reply'[d].kind = "page" =>
             LET items == staged'[d].items \cup reply'[d].items
             IN /\ ~reply'[d].more => RepresentsNext(items, staged'[d].watermark)
                /\ staged'[d].session \in DOMAIN sessions' =>
                     items = {i \in sessions'[staged'[d].session].items :
                                Rank[i.entity] <= reply'[d].upto})
  BY DEF PageOf, Represents, RepresentsNext, Shows, ShowsNext
<1>. DEFINE id == staged[d].session
<1>5. CASE reply'[d] = NoReply
  BY <1>4, <1>5 DEF NoReply
<1>6. CASE Complete(d)
  <2>1. reply'[d].kind \in {"confirmed", "expired"}
    BY <1>6 DEF Complete, TypeOK, CycleType
  <2>2. QED
    BY <1>4, <2>1
<1>7. CASE PageCheck(d)
  <2>1. /\ staged' = staged
        /\ reply'[d].kind \in {"checked", "expired"}
        /\ reply'[d].kind = "checked" => id \in DOMAIN sessions /\ DOMAIN sessions' = DOMAIN sessions
    BY <1>7 DEF PageCheck, TypeOK, CycleType, local
  <2>2. QED
    BY <1>4, <2>1
<1>8. CASE PageRead(d)
  <2>1. /\ reply[d].kind = "checked" /\ UNCHANGED <<staged, sessions, changes>>
        /\ phase[d] = "bootstrapping"
    BY <1>8 DEF PageRead, local, staging, server
  <2>2. id \in DOMAIN sessions /\ staged[d] # NoStage /\ ~staged[d].ready
    BY <1>1, <2>1 DEF PageOf, PhaseInv, NoReply
  <2>3. /\ sessions[id].watermark = staged[d].watermark
        /\ staged[d].items = {i \in sessions[id].items : Rank[i.entity] <= staged[d].after}
    BY <1>1, <2>2 DEF StageOf
  <2>. DEFINE rest == {i \in sessions[id].items : Rank[i.entity] > staged[d].after}
  <2>4. PICK upto \in IF rest = {} THEN {staged[d].after} ELSE {Rank[i.entity] : i \in rest} :
            reply' = [reply EXCEPT ![d] =
              [kind |-> "page", items |-> {i \in rest : Rank[i.entity] <= upto},
               upto |-> upto, more |-> \E i \in rest : Rank[i.entity] > upto]]
    BY <1>8, <2>2 DEF PageRead
  <2>5. /\ reply'[d].kind = "page" /\ reply'[d].items = {i \in rest : Rank[i.entity] <= upto}
        /\ reply'[d].upto = upto /\ reply'[d].more = \E i \in rest : Rank[i.entity] > upto
    BY <2>4 DEF TypeOK, CycleType
  <2>6. \A i \in sessions[id].items : Rank[i.entity] \in Nat
    BY <2>2, ConstantsAssumption DEF TypeOK, StagingType, Session, Item
  <2>7. staged[d].after \in Nat
    BY DEF TypeOK, LocalType
  <2>8. upto \in Nat /\ staged[d].after <= upto
    BY <2>6, <2>7
  <2>. DEFINE items == staged[d].items \cup {i \in rest : Rank[i.entity] <= upto}
  <2>9. items = {i \in sessions[id].items : Rank[i.entity] <= upto}
    BY <2>3, <2>6, <2>7, <2>8
  <2>10. ~reply'[d].more => RepresentsNext(items, staged[d].watermark)
    <3>1. HAVE ~reply'[d].more
    <3>2. items = sessions[id].items
      BY <2>5, <2>6, <2>7, <2>8, <2>9, <3>1
    <3>3. Represents(sessions[id].items, staged[d].watermark)
      BY <2>2, <2>3 DEF WholeInv
    <3>4. QED
      BY <1>3, <3>2, <3>3
  <2>. HIDE DEF rest
  <2>11. QED
    BY <1>4, <2>1, <2>5, <2>9, <2>10
<1>9. CASE Pull(d)
  <2>1. reply'[d].kind = "changes"
    BY <1>9 DEF Pull, TypeOK, CycleType
  <2>2. QED
    BY <1>4, <2>1
<1>10. CASE UNCHANGED reply[d]
  <2>. SUFFICES ASSUME reply[d].kind \in {"checked", "page"} PROVE PageOf(d)'
    BY <1>4, <1>10
  <2>1. staged[d] # NoStage /\ ~staged[d].ready /\ phase[d] = "bootstrapping"
    <3>1. reply[d] # NoReply
      BY DEF NoReply
    <3>2. phase[d] = "bootstrapping"
      BY <3>1 DEF PhaseInv, Acknowledging, TypeOK, CycleType, Phases
    <3>3. QED
      BY <3>1, <3>2 DEF PhaseInv
  <2>2. staged'[d] = staged[d]
    <3>1. ~BeginSession(d)
      BY <2>1 DEF BeginSession, CreateInv
    <3>2. ~PersistPage(d) /\ ~SessionExpired(d) /\ ~ApplyPullPage(d) /\ ~FinalizeBootstrap(d)
      BY <1>10, <2>1 DEF PersistPage, SessionExpired, ApplyPullPage, FinalizeBootstrap, NoReply,
        TypeOK, CycleType
    <3>3. QED
      BY <3>1, <3>2, LocalMoves
  <2>3. id \in 1 .. (nextSession - 1)
    BY <1>1, <2>1 DEF StageOf
  <2>4. id \in DOMAIN sessions' => id \in DOMAIN sessions /\ sessions'[id].items = sessions[id].items
    BY <2>3, FetchedStays
  <2>5. reply[d].kind = "checked" => id \in DOMAIN sessions'
    <3>1. HAVE reply[d].kind = "checked"
    <3>2. id \in DOMAIN sessions
      BY <1>1, <3>1 DEF PageOf
    <3>3. ASSUME NEW c \in Device, NEW s \in Slot, Materialize(c, s) PROVE id \in DOMAIN sessions'
      <4>1. sessions[id].device = d
        BY <1>1, <2>1, <3>2 DEF StageOf
      <4>2. creation[c][s].stage = "frozen"
        BY <3>3 DEF Materialize
      <4>3. c # d
        BY <2>1, <4>2 DEF CreateInv, Slot
      <4>4. id \notin creation[c][s].active
        BY <3>2, <4>1, <4>2, <4>3 DEF BaseInv, ReplaceInv
      <4>5. DOMAIN sessions' = (DOMAIN sessions \ creation[c][s].active) \cup {nextSession}
        BY <3>3, Materialized
      <4>6. QED
        BY <3>2, <4>4, <4>5
    <3>4. ASSUME NEW c \in Device, NEW s \in Slot, Snapshot(c, s) PROVE id \in DOMAIN sessions'
      <4>1. PICK gone \in SUBSET Disposable, ended \in SUBSET Lapsed : sessions' = CleanedUp(gone, ended)
        BY <3>4 DEF Snapshot
      <4>2. id \notin gone
        BY <3>1, <4>1 DEF Disposable
      <4>3. QED
        BY <3>2, <4>1, <4>2 DEF CleanedUp
    <3>5. \/ DOMAIN sessions \subseteq DOMAIN sessions'
          \/ \E c \in Device, s \in Slot : Materialize(c, s) \/ Snapshot(c, s)
      BY SessionsStay
    <3>6. QED
      BY <3>2, <3>3, <3>4, <3>5
  <2>6. QED
    BY <1>1, <1>3, <1>4, <1>10, <2>2, <2>4, <2>5 DEF PageOf
<1>11. QED
  BY <1>5, <1>6, <1>7, <1>8, <1>9, <1>10, ReplyMoves

-----------------------------------------------------------------------------
(* What the mirror shows.                                                  *)

\* What a mirrored row shows.
Shown(row) == IF row.live THEN row.version ELSE 0

\* Applying a bootstrap brings each row to what it shows at the watermark.
LEMMA BootstrapShows ==
  ASSUME TypeOK, NEW d \in Device, NEW e \in Entity,
         Represents(staged[d].items, staged[d].watermark),
         cursor[d] = NoCursor, MirrorInv
  PROVE  /\ Shows(e, staged[d].watermark, Shown(Bootstrapped(d)[e]))
         /\ Bootstrapped(d)[e].sequence <= staged[d].watermark
<1>. DEFINE items == staged[d].items
<1>1. /\ staged[d].watermark \in Nat /\ mirror[d][e].sequence \in Nat
      /\ mirror[d][e].sequence <= 0
  BY DEF TypeOK, LocalType, MirrorInv
<1>2. CASE \E i \in items : i.entity = e /\ Shows(e, staged[d].watermark, i.version)
  <2>1. PICK i \in items : i.entity = e /\ Shows(e, staged[d].watermark, i.version)
    BY <1>2
  <2>2. (CHOOSE j \in items : j.entity = e) = i
    BY <2>1 DEF Represents
  <2>3. Bootstrapped(d)[e] = [version |-> i.version, live |-> TRUE, sequence |-> staged[d].watermark]
    BY <2>1, <2>2 DEF Bootstrapped
  <2>4. QED
    BY <1>1, <2>1, <2>3 DEF Shown
<1>3. CASE (\A i \in items : i.entity # e) /\ Shows(e, staged[d].watermark, 0)
  <2>1. ~Bootstrapped(d)[e].live /\ Bootstrapped(d)[e].sequence <= staged[d].watermark
    <3>1. CASE mirror[d][e].live
      BY <1>1, <1>3, <3>1 DEF Bootstrapped
    <3>2. CASE ~mirror[d][e].live
      BY <1>1, <1>3, <3>2 DEF Bootstrapped
    <3>3. QED
      BY <3>1, <3>2
  <2>2. QED
    BY <1>3, <2>1 DEF Shown
<1>4. QED
  BY <1>2, <1>3 DEF Represents

\* Applying a page of changes brings each row to what it shows at its end.
LEMMA PullShows ==
  ASSUME TypeOK, PullInv, MirrorInv, NEW d \in Device, NEW e \in Entity,
         reply[d].kind = "changes", cursor[d] # NoCursor,
         Shows(e, cursor[d], Shown(mirror[d][e]))
  PROVE  /\ Shows(e, reply[d].upto, Shown(Updated(d, reply[d].items)[e]))
         /\ Updated(d, reply[d].items)[e].sequence <= reply[d].upto
<1>. DEFINE upto == reply[d].upto
            newer == {c \in reply[d].items : c.entity = e /\ c.sequence > mirror[d][e].sequence}
<1>1. /\ cursor[d] \in Nat /\ upto \in Nat /\ cursor[d] <= upto
      /\ mirror[d][e].sequence \in Nat /\ mirror[d][e].sequence <= cursor[d]
  <2>1. cursor[d] \in Nat /\ upto \in Nat \cup {NoCursor} /\ cursor[d] <= upto
    BY DEF TypeOK, LocalType, CycleType, PullInv
  <2>2. mirror[d][e].sequence \in Nat /\ mirror[d][e].sequence <= cursor[d]
    BY DEF TypeOK, LocalType, MirrorInv
  <2>3. QED
    BY <2>1, <2>2 DEF NoCursor
<1>2. \A c \in changes : c.sequence \in Nat
  BY DEF TypeOK, ServerType, Change
<1>3. newer = {c \in changes : c.entity = e /\ cursor[d] < c.sequence /\ c.sequence <= upto}
  <2>1. reply[d].items = {c \in changes : cursor[d] < c.sequence /\ c.sequence <= upto}
    BY DEF PullInv
  <2>2. QED
    BY <1>1, <1>2, <2>1
<1>4. \/ newer = {} /\ Updated(d, reply[d].items)[e] = mirror[d][e]
      \/ \E c \in newer :
           /\ \A x \in newer : x.sequence <= c.sequence
           /\ Updated(d, reply[d].items)[e] =
                [version |-> IF c.live THEN c.version ELSE 0,
                 live |-> c.live, sequence |-> c.sequence]
  BY UpdatedRow
<1>. HIDE DEF newer
<1>5. CASE newer = {} /\ Updated(d, reply[d].items)[e] = mirror[d][e]
  <2>1. {c \in changes : c.entity = e /\ c.sequence <= upto}
          = {c \in changes : c.entity = e /\ c.sequence <= cursor[d]}
    BY <1>1, <1>2, <1>3, <1>5
  <2>2. QED
    BY <1>1, <1>5, <2>1 DEF Shows
<1>6. ASSUME NEW c \in newer, \A x \in newer : x.sequence <= c.sequence,
             Updated(d, reply[d].items)[e] =
                [version |-> IF c.live THEN c.version ELSE 0,
                 live |-> c.live, sequence |-> c.sequence]
      PROVE  /\ Shows(e, upto, Shown(Updated(d, reply[d].items)[e]))
             /\ Updated(d, reply[d].items)[e].sequence <= upto
  <2>. DEFINE past == {x \in changes : x.entity = e /\ x.sequence <= upto}
  <2>1. c \in past /\ cursor[d] < c.sequence
    BY <1>3
  <2>2. \A x \in past : x.sequence <= c.sequence
    BY <1>1, <1>2, <1>3, <1>6, <2>1
  <2>3. /\ Shown(Updated(d, reply[d].items)[e]) = IF c.live THEN c.version ELSE 0
        /\ Updated(d, reply[d].items)[e].sequence = c.sequence
    BY <1>6 DEF Shown
  <2>4. QED
    BY <2>1, <2>2, <2>3 DEF Shows
<1>7. QED
  BY <1>4, <1>5, <1>6

LEMMA MirrorStep ==
  ASSUME BaseInv, StageInv, PhaseInv, MirrorInv, MirrorMatchesFeed, [Next]_vars
  PROVE  MirrorInv' /\ MirrorMatchesFeed'
<1>. TypeOK /\ FeedInv /\ LockInv /\ FreshInv /\ SettledInv /\ PullInv
  BY DEF BaseInv, FeedInv
<1>. SUFFICES ASSUME NEW d \in Device, NEW e \in Entity
              PROVE  /\ mirror'[d][e].sequence <= IF cursor'[d] = NoCursor THEN 0 ELSE cursor'[d]
                     /\ IF cursor'[d] = NoCursor THEN ~mirror'[d][e].live
                        ELSE ShowsNext(e, cursor'[d], Shown(mirror'[d][e]))
  BY DEF MirrorInv, MirrorMatchesFeed, Shows, ShowsNext, Shown
<1>1. \A p \in Nat \cup {NoCursor} : Settled(p) => \A v : Shows(e, p, v) => ShowsNext(e, p, v)
  BY NextShows
<1>2. /\ cursor[d] \in Nat \cup {NoCursor} /\ Settled(cursor[d])
      /\ staged[d].watermark \in Nat /\ Settled(staged[d].watermark)
      /\ mirror[d][e].sequence <= IF cursor[d] = NoCursor THEN 0 ELSE cursor[d]
      /\ IF cursor[d] = NoCursor THEN ~mirror[d][e].live
         ELSE Shows(e, cursor[d], Shown(mirror[d][e]))
  BY DEF TypeOK, LocalType, SettledInv, MirrorInv, MirrorMatchesFeed, Shown
<1>3. CASE UNCHANGED <<cursor[d], mirror[d]>>
  BY <1>1, <1>2, <1>3
<1>4. CASE FinalizeBootstrap(d)
  <2>1. /\ staged[d] # NoStage /\ Represents(staged[d].items, staged[d].watermark)
        /\ cursor[d] = NoCursor
    BY <1>4 DEF FinalizeBootstrap, StageInv, PhaseInv, NoStage
  <2>2. /\ Shows(e, staged[d].watermark, Shown(Bootstrapped(d)[e]))
        /\ Bootstrapped(d)[e].sequence <= staged[d].watermark
    BY <2>1, BootstrapShows
  <2>3. cursor'[d] = staged[d].watermark /\ mirror'[d][e] = Bootstrapped(d)[e]
    BY <1>4 DEF FinalizeBootstrap, TypeOK, LocalType
  <2>4. QED
    BY <1>1, <1>2, <2>2, <2>3 DEF NoCursor
<1>5. CASE ApplyPullPage(d)
  <2>1. cursor[d] # NoCursor /\ reply[d].kind = "changes"
    BY <1>5 DEF ApplyPullPage, PhaseInv
  <2>2. /\ Shows(e, reply[d].upto, Shown(Updated(d, reply[d].items)[e]))
        /\ Updated(d, reply[d].items)[e].sequence <= reply[d].upto
    BY <1>2, <2>1, PullShows DEF BaseInv
  <2>3. cursor'[d] = reply[d].upto /\ mirror'[d][e] = Updated(d, reply[d].items)[e]
    BY <1>5 DEF ApplyPullPage, TypeOK, LocalType
  <2>4. reply[d].upto \in Nat /\ Settled(reply[d].upto)
    BY <1>2, <2>1 DEF PullInv, SettledInv, TypeOK, CycleType, NoCursor
  <2>5. QED
    BY <1>1, <2>2, <2>3, <2>4 DEF NoCursor
<1>6. CASE BeginSession(d) \/ PersistPage(d) \/ SessionExpired(d)
  BY <1>3, <1>6 DEF BeginSession, PersistPage, SessionExpired
<1>7. QED
  BY <1>3, <1>4, <1>5, <1>6, LocalMoves

LEMMA IInvInit ==
  ASSUME Init
  PROVE  IInv
<1>1. BaseInv
  BY BaseInit
<1>2. WholeInv /\ CreateInv /\ StageInv /\ PhaseInv /\ PageInv
  BY DEF Init, WholeInv, CreateInv, StageInv, PhaseInv, PageInv, NoCreate, NoReply, NoStage, Slot
<1>3. MirrorInv /\ MirrorMatchesFeed
  BY DEF Init, MirrorInv, MirrorMatchesFeed, NeverSeen
<1>4. QED
  BY <1>1, <1>2, <1>3 DEF IInv

LEMMA IInvStep ==
  ASSUME ~Overtakes, IInv, [Next]_vars
  PROVE  IInv'
<1>1. TypeOK /\ ReplaceInv /\ PullInv
  BY DEF IInv, BaseInv
<1>2. BaseInv'
  BY BaseStep DEF IInv
<1>3. WholeInv'
  BY WholeStep DEF IInv
<1>4. CreateInv'
  BY <1>1, CreateInvStep DEF IInv
<1>5. StageInv'
  BY StageStep DEF IInv
<1>6. PhaseInv'
  BY <1>1, PhaseStep DEF IInv
<1>7. PageInv'
  BY PageStep DEF IInv
<1>8. MirrorInv' /\ MirrorMatchesFeed'
  BY MirrorStep DEF IInv
<1>9. QED
  BY <1>2, <1>3, <1>4, <1>5, <1>6, <1>7, <1>8 DEF IInv

\* When the requests of one device run on the server in the order they were
\* sent, the inductive invariant holds,
THEOREM FeedInvariant ==
  ASSUME ~Overtakes
  PROVE  Spec => []IInv
<1>1. Init => IInv
  BY IInvInit
<1>2. IInv /\ [Next]_vars => IInv'
  BY IInvStep
<1>3. QED
  BY <1>1, <1>2, PTL DEF Spec

\* and whatever is lost, retried, expired or replaced, a device's mirror is
\* the server's tables at its cursor.
THEOREM MirrorCorrect ==
  ASSUME ~Overtakes
  PROVE  Spec => []MirrorMatchesFeed
<1>1. IInv => MirrorMatchesFeed
  BY DEF IInv
<1>2. QED
  BY <1>1, FeedInvariant, PTL

=============================================================================
