----------------------------- MODULE ChangeFeed -----------------------------
(***************************************************************************)
(* How a device's mirror of the server's tables is filled and kept up.     *)
(*                                                                         *)
(* Every transaction that changes a row a device may see records the row's *)
(* new projection in server_change_log, under an advisory lock that it     *)
(* keeps to its commit.  A device starts from a bootstrap: a snapshot      *)
(* frozen in the server's staging tables together with the feed position   *)
(* it stands for, fetched page by page into the device's staging tables,   *)
(* and applied to its mirror in one SQLite transaction.  From then on it   *)
(* pulls the changes after its cursor.                                     *)
(*                                                                         *)
(* Requests time out after 15 seconds on the device while the server works *)
(* on, the device may crash anywhere, sessions expire, and transactions    *)
(* roll back after they have drawn sequence numbers.                       *)
(*                                                                         *)
(* The rows are those a device never edits itself (workers, models, prices *)
(* and so on).  A row's content is its version.                            *)
(***************************************************************************)
EXTENDS Integers, FiniteSets

CONSTANTS
  Entity,       \* rows of the server's sync-visible tables
  Rank,         \* Rank[e]: where e stands in the order of materialization
  Transaction,  \* connections that change rows
  Device,       \* workstations
  Nobody,       \* holder of a lock that is free
  Overtakes,    \* may a newer create request run before an abandoned one?
  MaxSequence,  \* bound: sequence numbers drawn
  MaxSessions,  \* bound: bootstrap sessions created
  MaxFaults     \* bound: faults of one device

ASSUME ConstantsAssumption ==
  /\ Rank \in [Entity -> Nat \ {0}]
  /\ \A e, f \in Entity : Rank[e] = Rank[f] => e = f
  /\ Nobody \notin Transaction
  /\ Overtakes \in BOOLEAN
  /\ MaxSequence \in Nat
  /\ MaxSessions \in Nat
  /\ MaxFaults \in Nat

VARIABLES
  rows,          \* the committed row of each entity
  changes,       \* the committed records of server_change_log
  nextSequence,  \* the BIGSERIAL behind sequence_id; never rolled back
  changeLock,    \* holder of pg_advisory_xact_lock(SYNC_CHANGE_LOCK_KEY)
  wrote,         \* wrote[t]: the rows transaction t has changed
  recorded,      \* recorded[t]: the changes t has recorded
  sessions,      \* the server's bootstrap_sessions and bootstrap_items
  nextSession,   \* randomUUID for sessions
  creation,      \* creation[d][s]: POST /sync/bootstrap, current or late
  phase,         \* phase[d]: where d's sync cycle stands
  retried,       \* retried[d]: establishBootstrap is at its second attempt
  reply,         \* reply[d]: how far d's request has come, or its answer
  cursor,        \* cursor[d]: last_server_cursor
  mirror,        \* mirror[d]: the rows in d's SQLite database
  staged,        \* staged[d]: bootstrap_local_state and bootstrap_items
  completed,     \* completed[d]: last_completed_bootstrap_session_id
  acknowledged,  \* acknowledged[d]: the last one the server has confirmed
  faults         \* faults[d]: faults of d so far

server  == <<rows, changes, nextSequence, changeLock, wrote, recorded>>
staging == <<sessions, nextSession, creation>>
cycle   == <<phase, retried, reply>>
local   == <<cursor, mirror, staged, completed, acknowledged>>
vars    == <<server, staging, cycle, local, faults>>

NoCursor == -1
NoStage  == [session |-> 0, watermark |-> 0, items |-> {}, after |-> 0, ready |-> FALSE]
NoReply  == [kind |-> "none", items |-> {}, upto |-> 0, more |-> FALSE]
NoCreate == [stage |-> "none", session |-> 0, watermark |-> 0, items |-> {}, active |-> {}]

NeverSeen == [version |-> 0, live |-> FALSE, sequence |-> 0]

-----------------------------------------------------------------------------
(* Writers.                                                                *)

\* A service locks the row, checks it and writes its next version.  A deleted
\* row stays deleted: identifiers are not used again.
Write(t, e) ==
  /\ \A u \in Transaction : \A r \in wrote[u] : r.entity # e
  /\ rows[e].live \/ rows[e].version = 0
  /\ \E live \in BOOLEAN :
       /\ live \/ rows[e].live
       /\ wrote' = [wrote EXCEPT ![t] =
            @ \cup {[entity |-> e, version |-> rows[e].version + 1, live |-> live]}]
  /\ UNCHANGED <<rows, changes, nextSequence, changeLock, recorded,
                 staging, cycle, local, faults>>

\* Mutant: the sequence is drawn without the lock.
RecordWithoutLock(t, r) ==
  /\ r \in wrote[t] /\ \A c \in recorded[t] : c.entity # r.entity
  /\ nextSequence <= MaxSequence
  /\ recorded' = [recorded EXCEPT ![t] = @ \cup
       {[sequence |-> nextSequence, entity |-> r.entity, version |-> r.version, live |-> r.live]}]
  /\ nextSequence' = nextSequence + 1
  /\ UNCHANGED <<rows, changes, changeLock, wrote, staging, cycle, local, faults>>

Record(t, r) ==
  /\ r \in wrote[t] /\ \A c \in recorded[t] : c.entity # r.entity
  /\ changeLock \in {Nobody, t}
  /\ nextSequence <= MaxSequence
  /\ changeLock' = t
  /\ recorded' = [recorded EXCEPT ![t] = @ \cup
       {[sequence |-> nextSequence, entity |-> r.entity, version |-> r.version, live |-> r.live]}]
  /\ nextSequence' = nextSequence + 1
  /\ UNCHANGED <<rows, changes, wrote, staging, cycle, local, faults>>

\* The end of a transaction gives up its locks.
EndTransaction(t) ==
  /\ wrote' = [wrote EXCEPT ![t] = {}]
  /\ recorded' = [recorded EXCEPT ![t] = {}]
  /\ changeLock' = IF changeLock = t THEN Nobody ELSE changeLock
  /\ UNCHANGED <<nextSequence, staging, cycle, local, faults>>

\* Every service records each row it has changed before it commits.
Commit(t) ==
  /\ wrote[t] # {}
  /\ \A r \in wrote[t] : \E c \in recorded[t] : c.entity = r.entity
  /\ rows' = [e \in Entity |->
       IF \E r \in wrote[t] : r.entity = e
       THEN LET r == CHOOSE r \in wrote[t] : r.entity = e
            IN [version |-> r.version, live |-> r.live]
       ELSE rows[e]]
  /\ changes' = changes \cup recorded[t]
  /\ EndTransaction(t)

\* Any error, a deadlock on the row locks included.
Rollback(t) ==
  /\ wrote[t] # {}
  /\ EndTransaction(t)
  /\ UNCHANGED <<rows, changes>>

-----------------------------------------------------------------------------
(* Bootstrap sessions on the server.                                       *)

Slot == {"current", "late"}

LiveRows == {[entity |-> e, version |-> rows[e].version] : e \in {f \in Entity : rows[f].live}}

\* Sessions that cleanupStaging may delete.  The retention (hours) outlasts
\* the two statements of a page request.
Disposable ==
  {id \in DOMAIN sessions :
     /\ sessions[id].status \in {"COMPLETED", "EXPIRED"}
     /\ \A d \in Device : ~(staged[d].session = id /\ reply[d].kind = "checked")}

Lapsed == {id \in DOMAIN sessions : sessions[id].status = "LAPSED"}

CleanedUp(gone, ended) ==
  [id \in DOMAIN sessions \ gone |->
     IF id \in ended THEN [sessions[id] EXCEPT !.status = "EXPIRED"] ELSE sessions[id]]

\* A create request gets the device's advisory lock (a request sent earlier
\* had asked for it earlier), cleans up what it can, waits for the change lock,
\* and fixes its REPEATABLE READ snapshot and the watermark.  Nothing can be
\* recorded or committed while it holds the change lock, so that part is one
\* step.
Snapshot(d, s) ==
  /\ creation[d][s].stage = "sent"
  /\ \A other \in Slot : creation[d][other].stage # "frozen"
  /\ s = "late" \/ Overtakes \/ creation[d]["late"].stage = "none"
  /\ changeLock = Nobody
  /\ \E gone \in SUBSET Disposable, ended \in SUBSET Lapsed,
        watermark \in {0} \cup {c.sequence : c \in changes} :
       /\ \A c \in changes : c.sequence <= watermark
       /\ sessions' = CleanedUp(gone, ended)
       /\ creation' = [creation EXCEPT ![d][s] =
            [stage |-> "frozen", session |-> 0, watermark |-> watermark, items |-> LiveRows,
             active |-> {id \in DOMAIN sessions \ (gone \cup ended) :
                          /\ sessions[id].device = d
                          /\ sessions[id].status \in {"ACTIVE", "LAPSED"}}]]
  /\ UNCHANGED <<server, nextSession, cycle, local, faults>>

\* Under REPEATABLE READ a session that has changed since the snapshot cannot
\* be locked.
Unchanged(d, s) ==
  \A id \in creation[d][s].active :
    id \in DOMAIN sessions /\ sessions[id].status \in {"ACTIVE", "LAPSED"}

NewSession(d, s, items) ==
  [device |-> d, watermark |-> creation[d][s].watermark, items |-> items, status |-> "ACTIVE"]

\* The reply of a late request reaches nobody.
EndCreate(d, s) ==
  creation' = [creation EXCEPT ![d][s] =
    IF s = "late" THEN NoCreate
    ELSE [NoCreate EXCEPT !.stage = "done", !.session = nextSession,
                          !.watermark = creation[d][s].watermark]]

\* Mutant: the rows are materialized outside the snapshot.
MaterializeCurrent(d, s) ==
  /\ creation[d][s].stage = "frozen" /\ Unchanged(d, s) /\ nextSession <= MaxSessions
  /\ sessions' = [id \in (DOMAIN sessions \ creation[d][s].active) \cup {nextSession} |->
       IF id = nextSession THEN NewSession(d, s, LiveRows) ELSE sessions[id]]
  /\ nextSession' = nextSession + 1
  /\ EndCreate(d, s)
  /\ UNCHANGED <<server, cycle, local, faults>>

\* The device's active sessions are replaced by one holding the rows of the
\* snapshot, and the device's lock is given up.
Materialize(d, s) ==
  /\ creation[d][s].stage = "frozen" /\ Unchanged(d, s) /\ nextSession <= MaxSessions
  /\ sessions' = [id \in (DOMAIN sessions \ creation[d][s].active) \cup {nextSession} |->
       IF id = nextSession THEN NewSession(d, s, creation[d][s].items) ELSE sessions[id]]
  /\ nextSession' = nextSession + 1
  /\ EndCreate(d, s)
  /\ UNCHANGED <<server, cycle, local, faults>>

\* A serialization failure ends the request, and the cycle if it still waits.
CreateFails(d, s) ==
  /\ creation[d][s].stage = "frozen" /\ ~Unchanged(d, s)
  /\ creation' = [creation EXCEPT ![d][s] = NoCreate]
  /\ phase' = IF s = "current" THEN [phase EXCEPT ![d] = "idle"] ELSE phase
  /\ UNCHANGED <<server, sessions, nextSession, retried, reply, local, faults>>

\* The time to live of a session ends.
SessionLapses(id) ==
  /\ id \in DOMAIN sessions /\ sessions[id].status = "ACTIVE"
  /\ faults[sessions[id].device] < MaxFaults
  /\ faults' = [faults EXCEPT ![sessions[id].device] = @ + 1]
  /\ sessions' = [sessions EXCEPT ![id].status = "LAPSED"]
  /\ UNCHANGED <<server, nextSession, creation, cycle, local>>

-----------------------------------------------------------------------------
(* The device's sync cycle: acknowledge the last bootstrap if that is still *)
(* owed, bootstrap if it must, acknowledge, pull, acknowledge.              *)

Acknowledging  == {"recovering", "finishing", "closing"}
NeedsBootstrap(d) == cursor[d] = NoCursor \/ staged[d] # NoStage

After(d, p) ==
  IF p = "closing" THEN "idle"
  ELSE IF p = "recovering" /\ NeedsBootstrap(d) THEN "bootstrapping"
  ELSE "pulling"

Proceed(d) == phase' = [phase EXCEPT ![d] = After(d, phase[d])]

\* runOnce, from the poll timer, the retry timer or the user.
StartCycle(d) ==
  /\ phase[d] = "idle"
  /\ phase' = [phase EXCEPT ![d] = "recovering"]
  /\ retried' = [retried EXCEPT ![d] = FALSE]
  /\ UNCHANGED <<server, staging, reply, local, faults>>

\* retryBootstrapCompletion has nothing to send.
NothingOwed(d) ==
  /\ phase[d] \in Acknowledging /\ completed[d] = acknowledged[d]
  /\ reply[d] = NoReply
  /\ Proceed(d)
  /\ UNCHANGED <<server, staging, retried, reply, local, faults>>

\* complete() on the server.
Complete(d) ==
  /\ phase[d] \in Acknowledging /\ completed[d] # acknowledged[d]
  /\ reply[d] = NoReply
  /\ LET id == completed[d]
         known == id \in DOMAIN sessions /\ sessions[id].status \in {"ACTIVE", "COMPLETED"}
     IN /\ reply' = [reply EXCEPT ![d].kind = IF known THEN "confirmed" ELSE "expired"]
        /\ sessions' = IF known THEN [sessions EXCEPT ![id].status = "COMPLETED"] ELSE sessions
  /\ UNCHANGED <<server, nextSession, creation, phase, retried, local, faults>>

\* A failure to acknowledge does not fail the cycle.
ReceiveConfirmation(d) ==
  /\ phase[d] \in Acknowledging /\ reply[d] # NoReply
  /\ acknowledged' = IF reply[d].kind = "confirmed"
                     THEN [acknowledged EXCEPT ![d] = completed[d]] ELSE acknowledged
  /\ reply' = [reply EXCEPT ![d] = NoReply]
  /\ Proceed(d)
  /\ UNCHANGED <<server, staging, retried, cursor, mirror, staged, completed, faults>>

-----------------------------------------------------------------------------
(* establishBootstrap.                                                     *)

RequestBootstrap(d) ==
  /\ phase[d] = "bootstrapping" /\ staged[d] = NoStage
  /\ creation[d]["current"] = NoCreate
  /\ creation' = [creation EXCEPT ![d]["current"].stage = "sent"]
  /\ UNCHANGED <<server, sessions, nextSession, cycle, local, faults>>

BeginSession(d) ==
  /\ creation[d]["current"].stage = "done"
  /\ staged' = [staged EXCEPT ![d] =
       [NoStage EXCEPT !.session = creation[d]["current"].session,
                       !.watermark = creation[d]["current"].watermark]]
  /\ creation' = [creation EXCEPT ![d]["current"] = NoCreate]
  /\ UNCHANGED <<server, sessions, nextSession, cycle,
                 cursor, mirror, completed, acknowledged, faults>>

\* page(): the first statement reads the session and may mark it expired,
PageCheck(d) ==
  /\ phase[d] = "bootstrapping" /\ staged[d] # NoStage /\ ~staged[d].ready
  /\ reply[d] = NoReply
  /\ LET id == staged[d].session
         active == id \in DOMAIN sessions /\ sessions[id].status = "ACTIVE"
     IN /\ reply' = [reply EXCEPT ![d].kind = IF active THEN "checked" ELSE "expired"]
        /\ sessions' = IF id \in DOMAIN sessions /\ sessions[id].status = "LAPSED"
                       THEN [sessions EXCEPT ![id].status = "EXPIRED"] ELSE sessions
  /\ UNCHANGED <<server, nextSession, creation, phase, retried, local, faults>>

\* the second one reads its items after the key: any positive page size.
PageRead(d) ==
  /\ phase[d] = "bootstrapping" /\ reply[d].kind = "checked"
  /\ LET id == staged[d].session
         rest == IF id \in DOMAIN sessions
                 THEN {i \in sessions[id].items : Rank[i.entity] > staged[d].after} ELSE {}
     IN \E upto \in IF rest = {} THEN {staged[d].after} ELSE {Rank[i.entity] : i \in rest} :
          reply' = [reply EXCEPT ![d] =
            [kind |-> "page", items |-> {i \in rest : Rank[i.entity] <= upto},
             upto |-> upto, more |-> \E i \in rest : Rank[i.entity] > upto]]
  /\ UNCHANGED <<server, staging, phase, retried, local, faults>>

PersistPage(d) ==
  /\ phase[d] = "bootstrapping" /\ reply[d].kind = "page"
  /\ staged' = [staged EXCEPT ![d] =
       [staged[d] EXCEPT !.items = @ \cup reply[d].items,
                         !.after = reply[d].upto,
                         !.ready = ~reply[d].more]]
  /\ reply' = [reply EXCEPT ![d] = NoReply]
  /\ UNCHANGED <<server, staging, phase, retried,
                 cursor, mirror, completed, acknowledged, faults>>

\* Mutant: the expired session stays staged.
KeepExpired(d) ==
  /\ phase[d] = "bootstrapping" /\ reply[d].kind = "expired"
  /\ phase' = [phase EXCEPT ![d] = "idle"]
  /\ reply' = [reply EXCEPT ![d] = NoReply]
  /\ UNCHANGED <<server, staging, retried, local, faults>>

\* The first SYNC_BOOTSTRAP_EXPIRED discards what is staged, the second one
\* ends the cycle.
SessionExpired(d) ==
  /\ phase[d] = "bootstrapping" /\ reply[d].kind = "expired"
  /\ IF retried[d]
     THEN phase' = [phase EXCEPT ![d] = "idle"] /\ UNCHANGED <<retried, staged>>
     ELSE /\ staged' = [staged EXCEPT ![d] = NoStage]
          /\ retried' = [retried EXCEPT ![d] = TRUE]
          /\ UNCHANGED phase
  /\ reply' = [reply EXCEPT ![d] = NoReply]
  /\ UNCHANGED <<server, staging, cursor, mirror, completed, acknowledged, faults>>

\* The mirror after the staged items: rows that are not among them go.
Bootstrapped(d) ==
  [e \in Entity |->
     IF \E i \in staged[d].items : i.entity = e
     THEN [version |-> (CHOOSE i \in staged[d].items : i.entity = e).version,
           live |-> TRUE, sequence |-> staged[d].watermark]
     ELSE IF mirror[d][e].live
     THEN [version |-> 0, live |-> FALSE, sequence |-> staged[d].watermark]
     ELSE mirror[d][e]]

\* Mutant: the bootstrap is applied before all its pages are staged.
FinalizeEarly(d) ==
  /\ phase[d] = "bootstrapping" /\ staged[d] # NoStage /\ reply[d] = NoReply
  /\ cursor[d] <= staged[d].watermark
  /\ mirror' = [mirror EXCEPT ![d] = Bootstrapped(d)]
  /\ cursor' = [cursor EXCEPT ![d] = staged[d].watermark]
  /\ completed' = [completed EXCEPT ![d] = staged[d].session]
  /\ staged' = [staged EXCEPT ![d] = NoStage]
  /\ phase' = [phase EXCEPT ![d] = "finishing"]
  /\ UNCHANGED <<server, staging, retried, reply, acknowledged, faults>>

FinalizeBootstrap(d) ==
  /\ phase[d] = "bootstrapping" /\ staged[d].ready /\ reply[d] = NoReply
  /\ cursor[d] <= staged[d].watermark
  /\ mirror' = [mirror EXCEPT ![d] = Bootstrapped(d)]
  /\ cursor' = [cursor EXCEPT ![d] = staged[d].watermark]
  /\ completed' = [completed EXCEPT ![d] = staged[d].session]
  /\ staged' = [staged EXCEPT ![d] = NoStage]
  /\ phase' = [phase EXCEPT ![d] = "finishing"]
  /\ UNCHANGED <<server, staging, retried, reply, acknowledged, faults>>

-----------------------------------------------------------------------------
(* Pulling.                                                                *)

\* pull(): any positive page size.
Pull(d) ==
  /\ phase[d] = "pulling" /\ reply[d] = NoReply
  /\ LET unread == {c \in changes : c.sequence > cursor[d]}
     IN \E upto \in IF unread = {} THEN {cursor[d]} ELSE {c.sequence : c \in unread} :
          reply' = [reply EXCEPT ![d] =
            [kind |-> "changes", items |-> {c \in unread : c.sequence <= upto},
             upto |-> upto, more |-> \E c \in unread : c.sequence > upto]]
  /\ UNCHANGED <<server, staging, phase, retried, local, faults>>

\* The mirror after the changes in page, in their order: of the newer changes
\* of a row the last one stays.
Updated(d, page) ==
  [e \in Entity |->
     LET newer == {c \in page : c.entity = e /\ c.sequence > mirror[d][e].sequence}
     IN IF newer = {} THEN mirror[d][e]
        ELSE LET c == CHOOSE c \in newer : \A x \in newer : x.sequence <= c.sequence
             IN [version |-> IF c.live THEN c.version ELSE 0,
                 live |-> c.live, sequence |-> c.sequence]]

ApplyPullPage(d) ==
  /\ phase[d] = "pulling" /\ reply[d].kind = "changes"
  /\ mirror' = [mirror EXCEPT ![d] = Updated(d, reply[d].items)]
  /\ cursor' = [cursor EXCEPT ![d] = reply[d].upto]
  /\ phase' = IF reply[d].more THEN phase ELSE [phase EXCEPT ![d] = "closing"]
  /\ reply' = [reply EXCEPT ![d] = NoReply]
  /\ UNCHANGED <<server, staging, retried, staged, completed, acknowledged, faults>>

-----------------------------------------------------------------------------
(* Faults.                                                                 *)

\* The request or its answer is lost or times out, the server is down, or the
\* device crashes; what its database holds stays.  A create request that has
\* reached the server may go on there.
CycleFails(d) ==
  /\ phase[d] # "idle"
  /\ faults[d] < MaxFaults
  /\ faults' = [faults EXCEPT ![d] = @ + 1]
  /\ phase' = [phase EXCEPT ![d] = "idle"]
  /\ reply' = [reply EXCEPT ![d] = NoReply]
  /\ \/ creation' = [creation EXCEPT ![d]["current"] = NoCreate]
     \/ /\ creation[d]["current"].stage \in {"sent", "frozen"}
        /\ creation[d]["late"] = NoCreate
        /\ creation' = [creation EXCEPT ![d]["late"] = creation[d]["current"],
                                        ![d]["current"] = NoCreate]
  /\ UNCHANGED <<server, sessions, nextSession, retried, local>>

\* A lost acknowledgement is not a failure of the cycle.
ConfirmationLost(d) ==
  /\ phase[d] \in Acknowledging /\ reply[d] # NoReply
  /\ faults[d] < MaxFaults
  /\ faults' = [faults EXCEPT ![d] = @ + 1]
  /\ reply' = [reply EXCEPT ![d] = NoReply]
  /\ Proceed(d)
  /\ UNCHANGED <<server, staging, retried, local>>

-----------------------------------------------------------------------------

Init ==
  /\ rows = [e \in Entity |-> [version |-> 0, live |-> FALSE]]
  /\ changes = {}
  /\ nextSequence = 1
  /\ changeLock = Nobody
  /\ wrote = [t \in Transaction |-> {}]
  /\ recorded = [t \in Transaction |-> {}]
  /\ sessions = [id \in {} |-> {}]
  /\ nextSession = 1
  /\ creation = [d \in Device |-> [s \in Slot |-> NoCreate]]
  /\ phase = [d \in Device |-> "idle"]
  /\ retried = [d \in Device |-> FALSE]
  /\ reply = [d \in Device |-> NoReply]
  /\ cursor = [d \in Device |-> NoCursor]
  /\ mirror = [d \in Device |-> [e \in Entity |-> NeverSeen]]
  /\ staged = [d \in Device |-> NoStage]
  /\ completed = [d \in Device |-> 0]
  /\ acknowledged = [d \in Device |-> 0]
  /\ faults = [d \in Device |-> 0]

WriterNext(t) ==
  \/ \E e \in Entity : Write(t, e)
  \/ \E r \in wrote[t] : Record(t, r)
  \/ Commit(t)
  \/ Rollback(t)

\* PostgreSQL locks the sessions of the snapshot for the request, or refuses.
CreateNext(d, s) ==
  \/ Snapshot(d, s)
  \/ IF Unchanged(d, s) THEN Materialize(d, s) ELSE CreateFails(d, s)

CycleNext(d) ==
  \/ StartCycle(d) \/ NothingOwed(d) \/ Complete(d) \/ ReceiveConfirmation(d)
  \/ RequestBootstrap(d) \/ BeginSession(d)
  \/ PageCheck(d) \/ PageRead(d) \/ PersistPage(d) \/ SessionExpired(d)
  \/ FinalizeBootstrap(d)
  \/ Pull(d) \/ ApplyPullPage(d)

FaultNext(d) == CycleFails(d) \/ ConfirmationLost(d)

Next ==
  \/ \E t \in Transaction : WriterNext(t)
  \/ \E d \in Device, s \in Slot : CreateNext(d, s)
  \/ \E d \in Device : CycleNext(d) \/ FaultNext(d)
  \/ \E id \in DOMAIN sessions : SessionLapses(id)

Spec == Init /\ [][Next]_vars

\* Transactions end (the pool's statement timeout), the server works on the
\* requests it has, and the poll timer runs a cycle again and again.
Fairness ==
  /\ \A t \in Transaction : WF_vars(Commit(t) \/ Rollback(t))
  /\ \A d \in Device, s \in Slot : WF_vars(CreateNext(d, s))
  /\ \A d \in Device : WF_vars(CycleNext(d))

FairSpec == Spec /\ Fairness

-----------------------------------------------------------------------------
(* Properties.                                                             *)

Change == [sequence : Nat \ {0}, entity : Entity, version : Nat \ {0}, live : BOOLEAN]
Item   == [entity : Entity, version : Nat \ {0}]
Phases == {"idle", "recovering", "bootstrapping", "finishing", "pulling", "closing"}

ServerType ==
  /\ rows \in [Entity -> [version : Nat, live : BOOLEAN]]
  /\ \A e \in Entity : rows[e].live => rows[e].version # 0
  /\ changes \subseteq Change
  /\ nextSequence \in Nat \ {0}
  /\ changeLock \in Transaction \cup {Nobody}
  /\ wrote \in [Transaction -> SUBSET [entity : Entity, version : Nat \ {0}, live : BOOLEAN]]
  /\ recorded \in [Transaction -> SUBSET Change]

Session == [device : Device, watermark : Nat, items : SUBSET Item,
            status : {"ACTIVE", "LAPSED", "EXPIRED", "COMPLETED"}]

Creation == [stage : {"none", "sent", "frozen", "done"}, session : Nat, watermark : Nat,
             items : SUBSET Item, active : SUBSET (Nat \ {0})]

StagingType ==
  /\ nextSession \in Nat \ {0}
  /\ DOMAIN sessions \subseteq 1 .. (nextSession - 1)
  /\ sessions \in [DOMAIN sessions -> Session]
  /\ creation \in [Device -> [Slot -> Creation]]

CycleType ==
  /\ phase \in [Device -> Phases]
  /\ retried \in [Device -> BOOLEAN]
  /\ reply \in [Device ->
       [kind : {"none", "confirmed", "expired", "checked", "page", "changes"},
        items : SUBSET (Item \cup Change), upto : Nat \cup {NoCursor}, more : BOOLEAN]]
  /\ \A d \in Device :
       /\ reply[d].kind = "page" => reply[d].items \subseteq Item /\ reply[d].upto \in Nat
       /\ reply[d].kind = "changes" => reply[d].items \subseteq Change

LocalType ==
  /\ cursor \in [Device -> Nat \cup {NoCursor}]
  /\ mirror \in [Device -> [Entity -> [version : Nat, live : BOOLEAN, sequence : Nat]]]
  /\ staged \in [Device -> [session : Nat, watermark : Nat, items : SUBSET Item,
                            after : Nat, ready : BOOLEAN]]
  /\ completed \in [Device -> Nat]
  /\ acknowledged \in [Device -> Nat]
  /\ faults \in [Device -> Nat]

\* Every variable keeps its type.
TypeOK == ServerType /\ StagingType /\ CycleType /\ LocalType

\* The row of e shows version v at feed position p, 0 if it shows nothing:
\* that is what the last change of e up to p left.
Shows(e, p, v) ==
  LET past == {c \in changes : c.entity = e /\ c.sequence <= p}
  IN \/ past = {} /\ v = 0
     \/ \E c \in past : /\ \A x \in past : x.sequence <= c.sequence
                        /\ v = IF c.live THEN c.version ELSE 0

\* A change commits after every change with a smaller sequence number that
\* ever commits: a reader that has seen a number never misses a smaller one
\* (SyncChangeRecorder holds its lock to the commit).
CommitOrder ==
  [][\A c \in changes' \ changes : \A x \in changes : x.sequence < c.sequence]_vars

\* Replaying the feed gives the server's tables: no committed row change is
\* missing from the feed and none is in it that did not commit.
FeedIsComplete ==
  \A e \in Entity : Shows(e, nextSequence, IF rows[e].live THEN rows[e].version ELSE 0)

\* The mirror of a device with a cursor is the server's tables at exactly
\* that position of the feed, whatever was lost, retried, expired or replaced
\* before; a device without a cursor shows nothing, however much is staged.
MirrorMatchesFeed ==
  \A d \in Device, e \in Entity :
    IF cursor[d] = NoCursor THEN ~mirror[d][e].live
    ELSE Shows(e, cursor[d], IF mirror[d][e].live THEN mirror[d][e].version ELSE 0)

\* A device never goes back in the feed.
CursorForward == [][\A d \in Device : cursor[d] <= cursor'[d]]_vars

\* A device has at most one active session
\* (uq_bootstrap_sessions_active_device never has to refuse one).
OneActiveSession ==
  \A id, other \in DOMAIN sessions :
    /\ sessions[id].device = sessions[other].device
    /\ sessions[id].status \in {"ACTIVE", "LAPSED"}
    /\ sessions[other].status \in {"ACTIVE", "LAPSED"}
    => id = other

\* When the writers have come to rest every device gets to the end of the
\* feed, however its cycles were disturbed.
CatchesUp ==
  \A d \in Device :
    <>[](cursor[d] # NoCursor /\ \A c \in changes : c.sequence <= cursor[d])

-----------------------------------------------------------------------------
(* The inductive invariant behind the safety properties.                   *)

\* A position is settled when every change up to it has committed or never
\* will: what comes later has a larger sequence number.
Settled(p) ==
  p < nextSequence /\ \A t \in Transaction : \A c \in recorded[t] : p < c.sequence

\* The items are the live rows at feed position p.
Represents(items, p) ==
  /\ \A i, j \in items : i.entity = j.entity => i = j
  /\ \A e \in Entity : \/ \E i \in items : i.entity = e /\ Shows(e, p, i.version)
                       \/ (\A i \in items : i.entity # e) /\ Shows(e, p, 0)

LockInv  == \A t \in Transaction : recorded[t] # {} => changeLock = t
FreshInv ==
  /\ \A c \in changes : c.sequence < nextSequence
  /\ \A t \in Transaction : \A c \in recorded[t] :
       c.sequence < nextSequence /\ \A x \in changes : x.sequence < c.sequence
\* A row is changed by one transaction, once, and recorded as it was written.
WriteInv ==
  /\ \A t, u \in Transaction : \A r \in wrote[t], q \in wrote[u] :
       r.entity = q.entity => t = u /\ r = q
  /\ \A t \in Transaction : \A c \in recorded[t] :
       \E r \in wrote[t] : r = [entity |-> c.entity, version |-> c.version, live |-> c.live]
  /\ \A t \in Transaction : \A c, x \in recorded[t] : c.entity = x.entity => c = x

FeedInv == LockInv /\ FreshInv /\ WriteInv /\ FeedIsComplete

\* Every position a device has or may come to have is settled.
SettledInv ==
  /\ \A id \in DOMAIN sessions : Settled(sessions[id].watermark)
  /\ \A d \in Device, s \in Slot : Settled(creation[d][s].watermark)
  /\ \A d \in Device :
       /\ Settled(cursor[d]) /\ Settled(staged[d].watermark)
       /\ reply[d].kind = "changes" => Settled(reply[d].upto)

PullInv ==
  \A d \in Device : reply[d].kind = "changes" =>
    /\ cursor[d] <= reply[d].upto
    /\ reply[d].items =
         {c \in changes : cursor[d] < c.sequence /\ c.sequence <= reply[d].upto}

\* A create request knows all the sessions it will replace.
ReplaceInv ==
  \A d \in Device, s \in Slot : creation[d][s].stage = "frozen" =>
    /\ creation[d][s].active \subseteq 1 .. (nextSession - 1)
    /\ \A id \in DOMAIN sessions :
         /\ id \in creation[d][s].active => sessions[id].device = d
         /\ sessions[id].device = d /\ sessions[id].status \in {"ACTIVE", "LAPSED"}
            => id \in creation[d][s].active
    /\ \A other \in Slot \ {s} : creation[d][other].stage # "frozen"

\* What holds in whatever order requests arrive.
BaseInv == TypeOK /\ FeedInv /\ SettledInv /\ PullInv /\ ReplaceInv /\ OneActiveSession

\* Sessions, and creations on their way to one, hold whole snapshots.
WholeInv ==
  /\ \A id \in DOMAIN sessions : Represents(sessions[id].items, sessions[id].watermark)
  /\ \A d \in Device, s \in Slot : creation[d][s].stage = "frozen" =>
       Represents(creation[d][s].items, creation[d][s].watermark)

\* The device that waits for a create request has nothing staged, and no
\* abandoned request can interfere with what comes of it.
CreateInv ==
  \A d \in Device :
    /\ creation[d]["late"].stage # "done"
    /\ creation[d]["late"].stage # "none" => staged[d] = NoStage /\ cursor[d] = NoCursor
    /\ creation[d]["current"].stage # "none" =>
         phase[d] = "bootstrapping" /\ staged[d] = NoStage /\ reply[d] = NoReply
    /\ creation[d]["current"].stage \in {"frozen", "done"} => creation[d]["late"].stage = "none"
    /\ creation[d]["current"].stage = "done" =>
         LET id == creation[d]["current"].session
         IN /\ id \in 1 .. (nextSession - 1)
            /\ id \in DOMAIN sessions =>
                 /\ sessions[id].device = d
                 /\ sessions[id].watermark = creation[d]["current"].watermark

\* What is staged is the beginning of its session's items.
StageInv ==
  \A d \in Device : staged[d] # NoStage =>
    /\ staged[d].session \in 1 .. (nextSession - 1)
    /\ cursor[d] = NoCursor
    /\ staged[d].ready => Represents(staged[d].items, staged[d].watermark)
    /\ ~staged[d].ready /\ staged[d].session \in DOMAIN sessions =>
         LET session == sessions[staged[d].session]
         IN /\ session.device = d /\ session.watermark = staged[d].watermark
            /\ staged[d].items = {i \in session.items : Rank[i.entity] <= staged[d].after}

PhaseInv ==
  \A d \in Device :
    /\ phase[d] = "bootstrapping" => cursor[d] = NoCursor
    /\ phase[d] \in {"finishing", "pulling", "closing"} => cursor[d] # NoCursor
    /\ reply[d].kind = "none" => reply[d] = NoReply
    /\ phase[d] = "idle" => reply[d] = NoReply
    /\ phase[d] \in Acknowledging => reply[d].kind \in {"none", "confirmed", "expired"}
    /\ phase[d] = "bootstrapping" =>
         /\ reply[d].kind \in {"none", "expired", "checked", "page"}
         /\ reply[d] # NoReply => staged[d] # NoStage /\ ~staged[d].ready
    /\ phase[d] = "pulling" => reply[d].kind \in {"none", "changes"}

\* The session a page request has found is still there when it reads the page.
PageInv ==
  \A d \in Device :
    /\ reply[d].kind = "checked" => staged[d].session \in DOMAIN sessions
    /\ reply[d].kind = "page" =>
         LET items == staged[d].items \cup reply[d].items
         IN /\ ~reply[d].more => Represents(items, staged[d].watermark)
            /\ staged[d].session \in DOMAIN sessions =>
                 items = {i \in sessions[staged[d].session].items :
                            Rank[i.entity] <= reply[d].upto}

MirrorInv ==
  \A d \in Device, e \in Entity :
    mirror[d][e].sequence <= IF cursor[d] = NoCursor THEN 0 ELSE cursor[d]

\* The inductive invariant, for Overtakes = FALSE.
IInv ==
  /\ BaseInv /\ WholeInv /\ CreateInv /\ StageInv /\ PhaseInv /\ PageInv
  /\ MirrorInv /\ MirrorMatchesFeed

=============================================================================
