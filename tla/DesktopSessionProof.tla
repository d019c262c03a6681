----------------------- MODULE DesktopSessionProof -----------------------
(***************************************************************************)
(* Proofs about DesktopSession, for any number of engines, generations,    *)
(* tokens and faults.                                                      *)
(***************************************************************************)
EXTENDS DesktopSession, TLAPS

-----------------------------------------------------------------------------
(* Calls, tokens and queues.                                               *)

LEMMA Calls ==
  /\ \A g \in 1 .. MaxGeneration : Main(g) \in Call /\ Rotation(g) \in Call
  /\ \A c \in Call : c[2] \in 1 .. MaxGeneration /\ (c = Main(c[2]) \/ c = Rotation(c[2]))
  /\ NoCall \notin Call
BY DEF Call, NoCall, Main, Rotation

LEMMA NextMain ==
  ASSUME TypeOK, generation < MaxGeneration
  PROVE  Main(generation + 1) \in Call /\ generation + 1 \in 1 .. MaxGeneration
BY DesktopSessionAssumption DEF Call, Main, TypeOK

LEMMA Constants ==
  /\ NoToken \in Token /\ NoToken.session = 0
  /\ NoTask \in TaskType /\ NoTask.kind = "none" /\ NoTask.at = "none" /\ NoTask.then = "done"
  /\ NoEngine \in EngineType /\ NoEngine.disposed /\ NoEngine.at = "idle" /\ NoEngine.handle = 0
  /\ MaxGeneration \in Nat
<1>1. NoToken \in Token /\ NoToken.session = 0 /\ MaxGeneration \in Nat
  BY DesktopSessionAssumption DEF Token, NoToken, Session
<1>2. NoTask \in TaskType /\ NoTask.kind = "none" /\ NoTask.at = "none" /\ NoTask.then = "done"
  BY <1>1 DEF TaskType, NoTask, AllStages, Kinds
<1>3. NoEngine \in EngineType /\ NoEngine.disposed /\ NoEngine.at = "idle" /\ NoEngine.handle = 0
  BY <1>1 DEF EngineType, CycleStages, NoEngine
<1>4. QED
  BY <1>1, <1>2, <1>3

LEMMA NewTasks ==
  ASSUME NEW kind \in Kinds, NEW at \in AllStages, NEW then \in {"done", "asking"}, NEW from \in Token
  PROVE  /\ NewTask(kind, at, then, from) \in TaskType
         /\ NewTask(kind, at, then, from).kind = kind /\ NewTask(kind, at, then, from).at = at
         /\ NewTask(kind, at, then, from).then = then /\ NewTask(kind, at, then, from).from = from
         /\ NewTask(kind, at, then, from).next = NoToken /\ NewTask(kind, at, then, from).waits = 0
BY Constants DEF NewTask, NoTask, TaskType

LEMMA Tokens ==
  /\ \A s \in Session : First(s) \in Token /\ First(s).session = s /\ First(s).n = 1
  /\ \A token \in Token : /\ Second(token) \in Token /\ Second(token).session = token.session
                          /\ Second(token).n = token.n + 1
BY DEF First, Second, Token

LEMMA TailFacts ==
  ASSUME NEW S, NEW q \in Seq(S), q # <<>>
  PROVE  /\ Tail(q) \in Seq(S) /\ Len(Tail(q)) = Len(q) - 1 /\ Len(q) \in Nat \ {0}
         /\ \A i \in 1 .. Len(q) - 1 : Tail(q)[i] = q[i + 1]
         /\ Head(q) = q[1] /\ q[1] \in S
OBVIOUS

LEMMA AppendFacts ==
  ASSUME NEW S, NEW q \in Seq(S), NEW c \in S
  PROVE  /\ Append(q, c) \in Seq(S) /\ Len(Append(q, c)) = Len(q) + 1 /\ Len(q) \in Nat
         /\ \A i \in 1 .. Len(q) : Append(q, c)[i] = q[i]
         /\ Append(q, c)[Len(q) + 1] = c
OBVIOUS

-----------------------------------------------------------------------------
(* The steps.                                                              *)

\* What a step of a cycle leaves of the engines.
Cycles ==
  /\ engine' \in [Engine -> EngineType]
  /\ \A e \in Engine : /\ engine'[e].disposed = engine[e].disposed
                       /\ ~engine[e].disposed => engine'[e].handle = engine[e].handle
                       /\ Unused(e) => engine'[e] = engine[e]
  /\ UNCHANGED <<handle, current>>

\* A cycle, or the user, asks for a rotation, and none is in progress.
Rotates ==
  /\ payload # NoToken /\ refreshing = NoCall
  /\ (state = "OFFLINE_SESSION_PENDING" /\ UserActs) \/ \E e \in Engine : ~Unused(e)
  /\ refreshing' = Rotation(generation)
  /\ task' = [task EXCEPT ![Rotation(generation)] = NewTask("rotation", "asking", "done", payload)]
  /\ state' = "REFRESHING"
  /\ Cycles
  /\ UNCHANGED <<generation, era, access, payload, queue, outside>>

\* Anything else a cycle does.
CycleOnly == Cycles /\ UNCHANGED <<memory, outside>>

\* login and logout.
UserBegins(kind) ==
  Begin(kind, IF kind = "login" THEN "AUTHENTICATING" ELSE "SIGNED_OUT", IF kind = "login" THEN "asking" ELSE "done")

\* Exit and Crash.
Restarts == generation < MaxGeneration /\ Restart /\ faults' \in Nat

LEMMA RotationBegins ==
  ASSUME TypeOK, BeginRotation, Cycles, payload # NoToken \/ refreshing # NoCall,
         (state = "OFFLINE_SESSION_PENDING" /\ UserActs) \/ \E e \in Engine : ~Unused(e),
         UNCHANGED <<generation, era, access, payload, queue, outside>>
  PROVE  CycleOnly \/ Rotates
<1>1. CASE refreshing # NoCall
  BY <1>1 DEF BeginRotation, CycleOnly, Cycles, memory
<1>2. CASE refreshing = NoCall
  BY <1>2 DEF BeginRotation, Rotates, Rotation
<1>3. QED
  BY <1>1, <1>2

LEMMA CycleSteps ==
  ASSUME TypeOK, NEW e \in Engine, CycleStep(e)
  PROVE  CycleOnly \/ Rotates
<1>1. engine[e] \in EngineType /\ access \in Token /\ NoToken \in Token
  BY Constants DEF TypeOK
<1>2. \A at, token : ~Unused(e) /\ at \in CycleStages /\ token \in Token /\ UNCHANGED <<handle, current>> /\
        engine' = [engine EXCEPT ![e].at = at, ![e].token = token] => Cycles
  <2> SUFFICES ASSUME NEW at \in CycleStages, NEW token \in Token, ~Unused(e), UNCHANGED <<handle, current>>,
                      engine' = [engine EXCEPT ![e].at = at, ![e].token = token]
               PROVE  Cycles
    OBVIOUS
  <2>1. engine' = [engine EXCEPT ![e] = [engine[e] EXCEPT !.at = at, !.token = token]]
    OBVIOUS
  <2>2. [engine[e] EXCEPT !.at = at, !.token = token] \in EngineType
    BY <1>1 DEF EngineType
  <2>3. QED
    BY <1>1, <2>1, <2>2 DEF TypeOK, Cycles, EngineType
<1>3. \A at : ~Unused(e) /\ at \in CycleStages /\ engine' = CycleAt(e, at) /\ UNCHANGED <<handle, current>> => Cycles
  BY <1>1, <1>2 DEF CycleAt
<1>4. \A at : ~Unused(e) /\ at \in CycleStages /\ Awaits(e, at) /\ UNCHANGED <<handle, current>> => Cycles
  <2> SUFFICES ASSUME NEW at \in CycleStages, Awaits(e, at), ~Unused(e), UNCHANGED <<handle, current>>
               PROVE  Cycles
    OBVIOUS
  <2>1. refreshing' \in Call \cup {NoCall}
    BY Calls DEF Awaits, BeginRotation, TypeOK, Main, Rotation
  <2>2. QED
    BY <1>1, <2>1 DEF TypeOK, Awaits, Cycles, EngineType
<1>5. CASE Poll(e)
  BY <1>3, <1>5 DEF Poll, CycleOnly, Unused, CycleStages
<1>6. CASE TakeToken(e)
  <2>1. ~Unused(e)
    BY <1>6 DEF TakeToken, Unused, Running
  <2>2. CASE Offline /\ Awaits(e, "offline")
    BY <1>4, <1>6, <2>1, <2>2, RotationBegins DEF TakeToken, Offline, Awaits, CycleStages
  <2>3. CASE ~Offline
    BY <1>1, <1>2, <1>3, <1>6, <2>1, <2>3 DEF TakeToken, CycleOnly, memory, CycleStages, Offline
  <2>4. QED
    BY <1>6, <2>2, <2>3 DEF TakeToken
<1>7. CASE Answered(e)
  BY <1>3, <1>7 DEF Answered, CycleOnly, Unused, Running, CycleStages
<1>8. CASE Unauthorized(e)
  <2>1. ~Unused(e)
    BY <1>8 DEF Unauthorized, Unused, Running
  <2>2. CASE (refreshing # NoCall \/ payload # NoToken) /\ Awaits(e, "rejected")
    BY <1>4, <1>8, <2>1, <2>2, RotationBegins DEF Unauthorized, Awaits, CycleStages
  <2>3. CASE engine' = [engine EXCEPT ![e].at = "again", ![e].token = access] /\ UNCHANGED <<refreshing, task, state>>
    BY <1>1, <1>2, <1>8, <2>1, <2>3 DEF Unauthorized, CycleOnly, memory, CycleStages
  <2>4. CASE engine' = CycleAt(e, "failing") /\ UNCHANGED <<refreshing, task, state>>
    BY <1>3, <1>8, <2>1, <2>4 DEF Unauthorized, CycleOnly, memory, CycleStages
  <2>5. QED
    BY <1>8, <2>2, <2>3, <2>4 DEF Unauthorized
<1>9. CASE UnauthorizedAgain(e)
  BY <1>3, <1>9 DEF UnauthorizedAgain, CycleOnly, Unused, Running, CycleStages
<1>10. CASE EndCycle(e)
  <2>1. ~Unused(e)
    BY <1>10 DEF EndCycle, Unused, Running
  <2> DEFINE ended == [engine[e] EXCEPT !.at = "idle", !.token = NoToken,
                                        !.handle = IF engine[e].disposed THEN 0 ELSE engine[e].handle]
  <2>2. engine' = [engine EXCEPT ![e] = ended]
    BY <1>1, <1>10 DEF EndCycle, CycleAt, TypeOK, EngineType
  <2>3. ended \in EngineType
    BY <1>1 DEF EngineType, CycleStages
  <2>4. ended.disposed = engine[e].disposed /\ (~engine[e].disposed => ended.handle = engine[e].handle)
    BY <1>1 DEF EngineType
  <2>5. Cycles
    <3> HIDE DEF ended
    <3>1. QED
      BY <1>1, <1>10, <2>1, <2>2, <2>3, <2>4 DEF EndCycle, TypeOK, Cycles
  <2>6. QED
    BY <1>10, <2>5 DEF EndCycle, CycleOnly
<1>11. QED
  BY <1>5, <1>6, <1>7, <1>8, <1>9, <1>10 DEF CycleStep

-----------------------------------------------------------------------------
(* What each step does, call by call.                                      *)

IsHead(c) == queue # <<>> /\ Head(queue) = c

Turns(c, kind, at, then, from, next, waits) ==
  /\ task' \in [Call -> TaskType]
  /\ \A d \in Call \ {c} : task'[d] = task[d]
  /\ task'[c].kind = kind /\ task'[c].at = at /\ task'[c].then = then
  /\ task'[c].from = from /\ task'[c].next = next /\ task'[c].waits = waits
Moves(c, at, then, waits) == Turns(c, task[c].kind, at, then, task[c].from, task[c].next, waits)
Over(c) ==
  /\ Turns(c, "none", "none", "done", NoToken, NoToken, 0)
  /\ refreshing' = IF refreshing = c THEN NoCall ELSE refreshing

\* Cycles that awaited a rotation go on.
Woken ==
  /\ engine' \in [Engine -> EngineType] /\ current' = current
  /\ \A e \in Engine : engine'[e].disposed = engine[e].disposed /\ engine'[e].handle = engine[e].handle

\* The registry is left without an engine.
Dropped ==
  /\ engine' \in [Engine -> EngineType] /\ current' = 0
  /\ \A e \in Engine : engine[e].disposed => engine'[e].disposed
DroppedOnly == Dropped /\ \A e \in Engine : Unused(e) => Unused(e)'

Installs(database) ==
  /\ engine' \in [Engine -> EngineType] /\ current' \in Engine
  /\ ~engine'[current'].disposed /\ engine'[current'].handle = database

\* The server's sessions, of which that of s changes.
OtherSessions(s) ==
  /\ server' \in [Session -> [n : Nat, status : {"LIVE", "REUSED", "ENDED"}]]
  /\ \A other \in Session \ {s} : server'[other] = server[other]
Asked(token) ==
  /\ OtherSessions(token.session)
  /\ IF Accepted(token)
     THEN server'[token.session].n = token.n + 1 /\ server'[token.session].status = server[token.session].status
     ELSE /\ server'[token.session].n = server[token.session].n
          /\ server'[token.session].status = "REUSED" =>
               server[token.session].status = "REUSED" \/ server[token.session].n # token.n

Loses(c) ==
  /\ lost' \subseteq Session /\ lost \subseteq lost'
  /\ Uses(c) /\ task[c].at # "opened" => task[c].from.session \in lost'

UserBeginsDoes(kind) ==
  /\ UserActs /\ generation < MaxGeneration
  /\ generation' = generation + 1 /\ era' = generation + 1
  /\ state' \in {"AUTHENTICATING", "SIGNED_OUT"}
  /\ access' = NoToken /\ payload' = NoToken /\ refreshing' = NoCall
  /\ Turns(Main(generation + 1), kind, "clear", IF kind = "login" THEN "asking" ELSE "done", NoToken, NoToken, 0)
  /\ queue' = Append(queue, Main(generation + 1))
  /\ UNCHANGED <<runtime, outside>>

QuitDoes ==
  /\ UserActs /\ generation < MaxGeneration
  /\ generation' = generation + 1 /\ era' = 0 /\ state' = "SIGNED_OUT"
  /\ access' = NoToken /\ payload' = NoToken /\ refreshing' = NoCall
  /\ Turns(Main(generation + 1), "quit", "waiting", "done", NoToken, NoToken, current)
  /\ Dropped
  /\ UNCHANGED <<queue, handle, outside>>

RestartsDoes ==
  /\ generation < MaxGeneration
  /\ generation' = generation + 1 /\ era' = 0 /\ state' = "REFRESHING"
  /\ access' = NoToken /\ payload' = NoToken /\ refreshing' = NoCall
  /\ task' \in [Call -> TaskType]
  /\ \A d \in Call : IF d = Main(generation + 1)
                     THEN task'[d].kind = "restore" /\ task'[d].at = "load" /\ task'[d].then = "done"
                     ELSE task'[d].kind = "none" /\ task'[d].at = "none" /\ task'[d].then = "done"
  /\ queue' = <<Main(generation + 1)>>
  /\ handle' = 0 /\ current' = 0
  /\ engine' \in [Engine -> EngineType] /\ \A e \in Engine : Unused(e)'
  /\ late' \subseteq Token
  /\ \A token \in late' : token \in late \/ \E c \in Call : Asks(c) /\ token = task[c].from
  /\ lost' \subseteq Session /\ lost \subseteq lost'
  /\ \A c \in Call : Asks(c) \/ Unsaved(c) => task[c].from.session \in lost'
  /\ faults' \in Nat
  /\ UNCHANGED <<store, server>>

SessionEndsDoes ==
  /\ faults' \in Nat
  /\ server' \in [Session -> [n : Nat, status : {"LIVE", "REUSED", "ENDED"}]]
  /\ \A s \in Session : server'[s].n = server[s].n /\ (server'[s].status = "REUSED" => server[s].status = "REUSED")
  /\ UNCHANGED <<memory, runtime, store, late, lost>>

LateRefreshDoes ==
  /\ \E token \in late : late' = late \ {token} /\ Asked(token)
  /\ UNCHANGED <<memory, runtime, store, lost, faults>>

SupersededDoes(c) ==
  /\ IsHead(c) /\ ~Fresh(c) /\ task[c].at \notin {"clearing", "waiting", "saving", "starting"}
  /\ queue' = Tail(queue) /\ Over(c) /\ Woken /\ Loses(c)
  /\ UNCHANGED <<generation, era, state, access, payload, handle, store, server, late, faults>>

ClearDoes(c) ==
  /\ IsHead(c) /\ task[c].at = "clear" /\ (Fresh(c) \/ task[c].kind = "logout")
  /\ access' = NoToken /\ payload' = NoToken
  /\ Moves(c, "clearing", task[c].then, task[c].waits)
  /\ UNCHANGED <<generation, era, state, refreshing, queue, runtime, outside>>

ForgetDoes(c) ==
  /\ IsHead(c) /\ task[c].at = "clearing"
  /\ store' = NoToken
  /\ \/ /\ task[c].kind # "login" /\ Over(c) /\ queue' = Tail(queue)
        /\ state' \in {"ERROR", "SIGNED_OUT", state} /\ Dropped
     \/ Moves(c, "waiting", task[c].then, current) /\ DroppedOnly /\ UNCHANGED <<state, refreshing, queue>>
  /\ UNCHANGED <<generation, era, access, payload, handle, server, late, lost, faults>>

CloseDoes(c) ==
  /\ IsHead(c) /\ task[c].at = "waiting"
  /\ handle' = 0 /\ queue' = Tail(queue) /\ state' \in {"ERROR", "SIGNED_OUT", state}
  /\ \/ /\ task[c].then = "asking" /\ Fresh(c)
        /\ Moves(c, "asking", "asking", task[c].waits) /\ UNCHANGED <<refreshing, engine, current>>
     \/ Over(c) /\ Woken
  /\ UNCHANGED <<generation, era, access, payload, outside>>

LoginAnsweredDoes(c) ==
  /\ task[c].at = "asking" /\ task[c].kind = "login"
  /\ OtherSessions(c[2]) /\ server'[c[2]].n = 1 /\ server'[c[2]].status = server[c[2]].status
  /\ \/ /\ Fresh(c)
        /\ Turns(c, "login", "reading", task[c].then, task[c].from, First(c[2]), task[c].waits)
        /\ UNCHANGED <<refreshing, engine, current>>
     \/ ~Fresh(c) /\ Over(c) /\ Woken
  /\ UNCHANGED <<generation, era, state, access, payload, queue, handle, store, late, lost, faults>>

LoginFailsDoes(c) ==
  /\ task[c].at = "asking" /\ task[c].kind = "login"
  /\ \/ /\ Fresh(c) /\ queue' = Append(queue, c) /\ Moves(c, "clear", "failed", task[c].waits)
        /\ UNCHANGED <<refreshing, engine, current>>
     \/ ~Fresh(c) /\ Over(c) /\ Woken /\ UNCHANGED queue
  /\ UNCHANGED <<generation, era, state, access, payload, handle, outside>>

OpenTenantDoes(c) ==
  /\ IsHead(c) /\ task[c].at = "open" /\ Fresh(c)
  /\ handle' = IF handle = 0 THEN generation ELSE handle
  /\ Moves(c, "opened", task[c].then, task[c].waits)
  /\ UNCHANGED <<generation, era, state, access, payload, refreshing, queue, current, engine, outside>>

LoadNothingDoes(c) ==
  /\ IsHead(c) /\ task[c].at = "load" /\ Fresh(c)
  /\ state' = "SIGNED_OUT" /\ queue' = Tail(queue) /\ Over(c) /\ Dropped /\ handle' = 0
  /\ UNCHANGED <<generation, era, access, payload, outside>>

LoadDoes(c) ==
  /\ IsHead(c) /\ task[c].at = "load" /\ Fresh(c) /\ store # NoToken
  /\ payload' = store
  /\ handle' = IF handle = 0 THEN generation ELSE handle
  /\ Turns(c, task[c].kind, "opened", task[c].then, store, task[c].next, task[c].waits)
  /\ UNCHANGED <<generation, era, state, access, refreshing, queue, current, engine, outside>>

OpenedDoes(c) ==
  /\ IsHead(c) /\ task[c].at = "opened" /\ Fresh(c)
  /\ \/ task[c].kind = "login" /\ Moves(c, "saving", task[c].then, task[c].waits) /\ UNCHANGED queue
     \/ task[c].kind = "restore" /\ Moves(c, "asking", task[c].then, task[c].waits) /\ queue' = Tail(queue)
  /\ UNCHANGED <<generation, era, state, access, payload, refreshing, runtime, outside>>

RotationAnsweredDoes(c) ==
  /\ Asks(c) /\ Asked(task[c].from)
  /\ \/ /\ Fresh(c) /\ Accepted(task[c].from) /\ UNCHANGED queue
        /\ Turns(c, task[c].kind, "reading", task[c].then, task[c].from, Second(task[c].from), task[c].waits)
        /\ UNCHANGED <<refreshing, engine, current, lost>>
     \/ /\ Fresh(c) /\ ~Accepted(task[c].from) /\ queue' = Append(queue, c)
        /\ Moves(c, "clear", "out", task[c].waits)
        /\ UNCHANGED <<refreshing, engine, current, lost>>
     \/ ~Fresh(c) /\ Over(c) /\ Woken /\ UNCHANGED queue /\ Loses(c)
  /\ UNCHANGED <<generation, era, state, access, payload, handle, store, late, faults>>

PermissionsReadDoes(c) ==
  /\ task[c].at = "reading"
  /\ \/ /\ Fresh(c) /\ queue' = Append(queue, c)
        /\ Moves(c, IF task[c].kind = "login" THEN "open" ELSE "activate", task[c].then, task[c].waits)
        /\ UNCHANGED <<refreshing, engine, current, lost>>
     \/ ~Fresh(c) /\ Over(c) /\ Woken /\ UNCHANGED queue /\ Loses(c)
  /\ UNCHANGED <<generation, era, state, access, payload, handle, store, server, late, faults>>

RotationGivenUpDoes(c) ==
  /\ Asks(c) /\ faults' \in Nat
  /\ late' = late \cup {task[c].from} /\ Loses(c)
  /\ state' = IF Fresh(c) THEN "OFFLINE_SESSION_PENDING" ELSE state
  /\ \/ /\ Fresh(c) /\ task[c].kind = "restore" /\ Moves(c, "starting_offline", task[c].then, handle)
        /\ UNCHANGED <<refreshing, engine, current>>
     \/ ~(Fresh(c) /\ task[c].kind = "restore") /\ Over(c) /\ Woken
  /\ UNCHANGED <<generation, era, access, payload, queue, handle, store, server>>

ActivateDoes(c) ==
  /\ IsHead(c) /\ task[c].at = "activate" /\ Fresh(c)
  /\ Moves(c, "saving", task[c].then, task[c].waits)
  /\ UNCHANGED <<generation, era, state, access, payload, refreshing, queue, runtime, outside>>

SavedDoes(c) ==
  /\ IsHead(c) /\ task[c].at = "saving"
  /\ store' = task[c].next
  /\ \/ /\ Fresh(c) /\ payload' = task[c].next /\ access' = task[c].next
        /\ state' = "AUTHENTICATED" /\ Moves(c, "starting", task[c].then, handle)
     \/ /\ ~Fresh(c) /\ payload' = NoToken /\ access' = NoToken
        /\ Moves(c, "clearing", "done", task[c].waits) /\ UNCHANGED state
  /\ UNCHANGED <<generation, era, refreshing, queue, runtime, server, late, lost, faults>>

SaveFailsDoes(c) ==
  /\ IsHead(c) /\ task[c].at = "saving" /\ faults' \in Nat
  /\ access' = NoToken /\ payload' = NoToken
  /\ Moves(c, "clearing", "error", task[c].waits) /\ Loses(c)
  /\ UNCHANGED <<generation, era, state, refreshing, queue, runtime, store, server, late>>

StartSyncDoes(c) ==
  /\ IsHead(c) /\ task[c].at = "starting" /\ task[c].waits # 0
  /\ queue' = Tail(queue) /\ Over(c) /\ (Installs(task[c].waits) \/ Woken)
  /\ UNCHANGED <<generation, era, state, access, payload, handle, outside>>

StartOfflineDoes(c) ==
  /\ task[c].at = "starting_offline" /\ Over(c) /\ (Installs(task[c].waits) \/ Woken)
  /\ UNCHANGED <<generation, era, state, access, payload, queue, handle, outside>>

FailsDoes(c) ==
  /\ IsHead(c) /\ task[c].at \in {"load", "open", "opened", "starting"} /\ faults' \in Nat
  /\ \/ /\ Fresh(c) /\ queue' = Append(Tail(queue), c)
        /\ Moves(c, "clear", IF task[c].kind = "rotation" THEN "out" ELSE "failed", task[c].waits)
        /\ UNCHANGED <<refreshing, engine, current>>
     \/ ~Fresh(c) /\ queue' = Tail(queue) /\ Over(c) /\ Woken
  /\ UNCHANGED <<generation, era, state, access, payload, handle, store, server, late, lost>>

RotatesDoes ==
  /\ payload # NoToken /\ refreshing = NoCall
  /\ (state = "OFFLINE_SESSION_PENDING" /\ UserActs) \/ \E e \in Engine : ~Unused(e)
  /\ refreshing' = Rotation(generation)
  /\ Turns(Rotation(generation), "rotation", "asking", "done", payload, NoToken, 0)
  /\ state' = "REFRESHING"
  /\ Cycles
  /\ UNCHANGED <<generation, era, access, payload, queue, outside>>

-----------------------------------------------------------------------------
LEMMA TurnTask ==
  ASSUME TypeOK, NEW c \in Call, NEW t \in TaskType, task' = [task EXCEPT ![c] = t]
  PROVE  Turns(c, t.kind, t.at, t.then, t.from, t.next, t.waits)
BY DEF TypeOK, Turns

LEMMA TurnAt ==
  ASSUME TypeOK, NEW c \in Call, NEW at \in AllStages, task' = [task EXCEPT ![c].at = at]
  PROVE  Moves(c, at, task[c].then, task[c].waits)
<1> DEFINE t == [task[c] EXCEPT !.at = at]
<1>1. task' = [task EXCEPT ![c] = t]
  OBVIOUS
<1>2. /\ t \in TaskType /\ t.kind = task[c].kind /\ t.at = at /\ t.then = task[c].then
      /\ t.from = task[c].from /\ t.next = task[c].next /\ t.waits = task[c].waits
  BY DEF TypeOK, TaskType
<1> HIDE DEF t
<1>3. QED
  BY <1>1, <1>2, TurnTask DEF Moves

LEMMA TurnAtWaits ==
  ASSUME TypeOK, NEW c \in Call, NEW at \in AllStages, NEW waits \in Nat,
         task' = [task EXCEPT ![c].at = at, ![c].waits = waits]
  PROVE  Moves(c, at, task[c].then, waits)
BY DEF TypeOK, Moves, Turns, TaskType

LEMMA TurnAtThen ==
  ASSUME TypeOK, NEW c \in Call, NEW at \in AllStages, NEW then \in {"done", "asking", "error", "failed", "out"},
         \/ task' = [task EXCEPT ![c].at = at, ![c].then = then]
         \/ task' = [[task EXCEPT ![c].then = then] EXCEPT ![c].at = at]
  PROVE  Moves(c, at, then, task[c].waits)
<1>1. PICK t : t = [task[c] EXCEPT !.at = at, !.then = then]
  OBVIOUS
<1>2. [[task[c] EXCEPT !.then = then] EXCEPT !.at = at] = t
  BY <1>1 DEF TypeOK, TaskType
<1>3. task' = [task EXCEPT ![c] = t]
  BY <1>1, <1>2 DEF TypeOK
<1>4. task[c] \in TaskType
  BY DEF TypeOK
<1>5. /\ t \in TaskType /\ t.kind = task[c].kind /\ t.at = at /\ t.then = then
      /\ t.from = task[c].from /\ t.next = task[c].next /\ t.waits = task[c].waits
  BY ONLY <1>1, <1>4, at \in AllStages, then \in {"done", "asking", "error", "failed", "out"} DEF TaskType
<1>6. QED
  BY <1>3, <1>5, TurnTask DEF Moves

LEMMA TurnAtFrom ==
  ASSUME TypeOK, NEW c \in Call, NEW at \in AllStages, NEW from \in Token,
         task' = [task EXCEPT ![c].at = at, ![c].from = from]
  PROVE  Turns(c, task[c].kind, at, task[c].then, from, task[c].next, task[c].waits)
BY DEF TypeOK, Turns, TaskType

LEMMA TurnAtNext ==
  ASSUME TypeOK, NEW c \in Call, NEW at \in AllStages, NEW next \in Token,
         task' = [task EXCEPT ![c].at = at, ![c].next = next]
  PROVE  Turns(c, task[c].kind, at, task[c].then, task[c].from, next, task[c].waits)
BY DEF TypeOK, Turns, TaskType

LEMMA EndsTask ==
  ASSUME TypeOK, NEW c \in Call, NEW ok, NEW engines \in [Engine -> EngineType], Ends(c, ok, engines)
  PROVE  /\ Over(c) /\ engine' \in [Engine -> EngineType]
         /\ \A e \in Engine : /\ engine'[e].disposed = engines[e].disposed
                              /\ engine'[e].handle = engines[e].handle
<1>1. Over(c)
  <2>1. /\ NoTask.from = NoToken /\ NoTask.next = NoToken /\ NoTask.waits = 0
    BY DEF NoTask
  <2>2. QED
    BY <2>1, Constants, TurnTask DEF Ends, Over
<1>2. ASSUME NEW e \in Engine
      PROVE  /\ engine'[e] \in EngineType /\ engine'[e].disposed = engines[e].disposed
             /\ engine'[e].handle = engines[e].handle
  <2>1. CASE engines[e].joins # c
    BY <2>1 DEF Ends, Resumed
  <2>2. CASE engines[e].joins = c
    <3> DEFINE at == IF ~ok \/ access = NoToken THEN "failing"
                     ELSE IF engines[e].at = "rejected" THEN "again" ELSE "sent"
               token == IF ok THEN access ELSE NoToken
    <3>1. at \in CycleStages /\ token \in Token
      BY Constants DEF CycleStages, TypeOK
    <3>2. engine'[e] = [engines[e] EXCEPT !.joins = NoCall, !.at = at, !.token = token]
      BY <2>2 DEF Ends, Resumed, EngineType
    <3>3. engines[e] \in EngineType
      OBVIOUS
    <3> HIDE DEF at, token
    <3>4. QED
      BY <3>1, <3>2, <3>3 DEF EngineType
  <2>3. QED
    BY <2>1, <2>2
<1>3. DOMAIN engine' = Engine /\ engine' = [e \in Engine |-> engine'[e]]
  BY DEF Ends, Resumed
<1>4. QED
  BY <1>1, <1>2, <1>3

LEMMA Disposes ==
  ASSUME TypeOK
  PROVE  /\ Dispose(engine) \in [Engine -> EngineType]
         /\ \A e \in Engine : /\ Dispose(engine)[e].at = engine[e].at
                              /\ Dispose(engine)[e].handle = engine[e].handle
                              /\ engine[e].disposed => Dispose(engine)[e].disposed
BY DEF TypeOK, Dispose, EngineType

LEMMA Installation ==
  ASSUME TypeOK, NEW e \in Engine, NEW database \in Nat
  PROVE  /\ Installed(e, database) \in [Engine -> EngineType]
         /\ ~Installed(e, database)[e].disposed /\ Installed(e, database)[e].handle = database
<1>1. [NoEngine EXCEPT !.at = "asking", !.disposed = FALSE, !.handle = database] \in EngineType
  BY Constants DEF EngineType, CycleStages
<1>2. QED
  BY <1>1, Disposes, Constants DEF Installed, EngineType

LEMMA Refreshing ==
  ASSUME TypeOK, NEW token \in Token, server' = Refreshed(token)
  PROVE  Asked(token)
<1>1. token.session \in Session /\ token.n \in Nat
  BY DEF Token
<1>2. QED
  BY <1>1 DEF Refreshed, Asked, Accepted, OtherSessions, TypeOK

LEMMA LosingLoses ==
  ASSUME TypeOK, StageInv, NEW c \in Call, Losing(c)
  PROVE  Loses(c)
<1>1. task[c].from.session \in Session
  BY DEF TypeOK, TaskType, Token
<1>2. Uses(c) /\ task[c].at # "opened" => Asks(c) \/ Unsaved(c)
  BY DEF Uses, Asks, Unsaved, Goes
<1>3. QED
  BY <1>1, <1>2 DEF Losing, Loses, TypeOK

LEMMA LeavesHead ==
  ASSUME TypeOK, NEW c \in Call, NEW ok, NEW engines \in [Engine -> EngineType], Leaves(c, ok, engines)
  PROVE  /\ queue' = Tail(queue) /\ Over(c) /\ engine' \in [Engine -> EngineType]
         /\ \A e \in Engine : /\ engine'[e].disposed = engines[e].disposed
                              /\ engine'[e].handle = engines[e].handle
BY EndsTask DEF Leaves

LEMMA SupersededEffect ==
  ASSUME TypeOK, StageInv, NEW c \in Call, Superseded(c)
  PROVE  SupersededDoes(c)
<1>1. queue' = Tail(queue) /\ Over(c) /\ Woken
  BY LeavesHead DEF Superseded, TypeOK, Woken
<1>2. Loses(c)
  BY LosingLoses DEF Superseded
<1>3. QED
  BY <1>1, <1>2 DEF SupersededDoes, Superseded, IsHead

LEMMA ClearEffect ==
  ASSUME TypeOK, StageInv, NEW c \in Call, Clear(c)
  PROVE  ClearDoes(c)
BY TurnAt DEF ClearDoes, Clear, Enters, Goes, At, AllStages, Inside, TypeOK, StageInv, Stage, IsHead, memory,
              runtime, outside

LEMMA ForgetEffect ==
  ASSUME TypeOK, StageInv, NEW c \in Call, Forget(c)
  PROVE  ForgetDoes(c)
<1>1. IsHead(c) /\ task[c].at = "clearing"
  BY DEF Forget, Enters, Goes, IsHead
<1>2. CASE Keeps(c)
  <2>1. task[c].then # "asking"
    BY <1>2 DEF Keeps, StageInv
  <2>2. Ends(c, FALSE, Dispose(engine)) /\ queue' = Tail(queue) /\ state' \in {"ERROR", "SIGNED_OUT", state}
    BY <1>2, <2>1 DEF Forget, AfterClear
  <2>3. Over(c) /\ Dropped
    <3>1. current' = 0
      BY DEF Forget
    <3>2. /\ Over(c) /\ engine' \in [Engine -> EngineType]
          /\ \A e \in Engine : engine'[e].disposed = Dispose(engine)[e].disposed
      BY <2>2, Disposes, EndsTask
    <3>3. QED
      BY <3>1, <3>2, Disposes DEF Dropped
  <2>4. QED
    BY <1>1, <1>2, <2>2, <2>3 DEF ForgetDoes, Forget, Keeps
<1>3. CASE ~Keeps(c)
  <2>1. current \in Nat
    BY DesktopSessionAssumption DEF TypeOK
  <2>2. Moves(c, "waiting", task[c].then, current)
    BY <1>3, <2>1, TurnAtWaits DEF Forget, AllStages, Inside
  <2>3. DroppedOnly
    <3>1. engine' = Dispose(engine) /\ current' = 0
      BY <1>3 DEF Forget
    <3>2. Dropped
      BY <3>1, Disposes DEF Dropped
    <3>3. QED
      BY <3>1, <3>2, Disposes DEF DroppedOnly, Dropped, Unused, Running
  <2>4. QED
    BY <1>1, <1>3, <2>2, <2>3 DEF ForgetDoes, Forget
<1>4. QED
  BY <1>2, <1>3

LEMMA CloseEffect ==
  ASSUME TypeOK, StageInv, NEW c \in Call, Close(c)
  PROVE  CloseDoes(c)
<1>1. /\ IsHead(c) /\ task[c].at = "waiting" /\ handle' = 0 /\ queue' = Tail(queue)
      /\ state' \in {"ERROR", "SIGNED_OUT", state}
      /\ UNCHANGED <<generation, era, access, payload, current, outside>>
  BY DEF Close, Enters, Goes, AfterClear, IsHead
<1>2. CASE task[c].then = "asking" /\ Fresh(c)
  <2>1. Moves(c, "asking", "asking", task[c].waits)
    BY <1>2, TurnAt DEF Close, AfterClear, At, AllStages
  <2>2. QED
    BY <1>1, <1>2, <2>1 DEF CloseDoes, Close, AfterClear
<1>3. CASE ~(task[c].then = "asking" /\ Fresh(c))
  <2>1. Ends(c, FALSE, engine)
    BY <1>3 DEF Close, AfterClear
  <2>2. Over(c) /\ Woken
    BY <1>1, <2>1, EndsTask DEF TypeOK, Woken
  <2>3. QED
    BY <1>1, <2>2 DEF CloseDoes
<1>4. QED
  BY <1>2, <1>3

LEMMA LoginAnsweredEffect ==
  ASSUME TypeOK, StageInv, NEW c \in Call, LoginAnswered(c)
  PROVE  LoginAnsweredDoes(c)
<1>1. c[2] \in Session
  BY Calls DEF Session
<1>2. OtherSessions(c[2]) /\ server'[c[2]].n = 1 /\ server'[c[2]].status = server[c[2]].status
  BY <1>1 DEF LoginAnswered, OtherSessions, TypeOK
<1>3. CASE Fresh(c)
  <2>1. Turns(c, "login", "reading", task[c].then, task[c].from, First(c[2]), task[c].waits)
    BY <1>1, <1>3, Tokens, TurnAtNext DEF LoginAnswered, Goes, AllStages
  <2>2. QED
    BY <1>2, <1>3, <2>1 DEF LoginAnsweredDoes, LoginAnswered, Goes
<1>4. CASE ~Fresh(c)
  <2>1. Over(c) /\ Woken
    BY <1>4, EndsTask DEF LoginAnswered, TypeOK, Woken
  <2>2. QED
    BY <1>2, <1>4, <2>1 DEF LoginAnsweredDoes, LoginAnswered, Goes
<1>5. QED
  BY <1>3, <1>4

LEMMA LoginFailsEffect ==
  ASSUME TypeOK, StageInv, NEW c \in Call, LoginFails(c)
  PROVE  LoginFailsDoes(c)
BY EndsTask, TurnAtThen DEF LoginFailsDoes, LoginFails, Goes, Queues, Woken, AllStages, Entries, TypeOK,
                            StageInv, Stage, IsHead, memory, runtime, outside

LEMMA OpenTenantEffect ==
  ASSUME TypeOK, StageInv, NEW c \in Call, OpenTenant(c)
  PROVE  OpenTenantDoes(c)
BY TurnAt DEF OpenTenantDoes, OpenTenant, Enters, Goes, At, AllStages, Inside, TypeOK, StageInv, Stage, IsHead,
              memory, runtime, outside

LEMMA LoadNothingEffect ==
  ASSUME TypeOK, StageInv, NEW c \in Call, LoadNothing(c)
  PROVE  LoadNothingDoes(c)
<1>1. queue' = Tail(queue) /\ Over(c) /\ Dropped
  <2>1. current' = 0 /\ Leaves(c, FALSE, Dispose(engine))
    BY DEF LoadNothing
  <2>2. /\ queue' = Tail(queue) /\ Over(c) /\ engine' \in [Engine -> EngineType]
        /\ \A e \in Engine : engine'[e].disposed = Dispose(engine)[e].disposed
    BY <2>1, Disposes, LeavesHead
  <2>3. QED
    BY <2>1, <2>2, Disposes DEF Dropped
<1>2. QED
  BY <1>1 DEF LoadNothingDoes, LoadNothing, Enters, Goes, IsHead

LEMMA LoadEffect ==
  ASSUME TypeOK, StageInv, NEW c \in Call, Load(c)
  PROVE  LoadDoes(c)
BY TurnAtFrom DEF LoadDoes, Load, Enters, Goes, AllStages, Inside, TypeOK, StageInv, Stage, IsHead, memory,
                  runtime, outside

LEMMA OpenedEffect ==
  ASSUME TypeOK, StageInv, NEW c \in Call, Opened(c)
  PROVE  OpenedDoes(c)
BY TurnAt DEF OpenedDoes, Opened, Enters, Goes, At, AllStages, Inside, Clearing, TypeOK, StageInv, Stage,
              IsHead, memory, runtime, outside

LEMMA RotationAnsweredEffect ==
  ASSUME TypeOK, StageInv, NEW c \in Call, RotationAnswered(c)
  PROVE  RotationAnsweredDoes(c)
<1>1. task[c].from \in Token /\ task[c].from.session \in Session
  BY DEF TypeOK, TaskType, Token
<1>2. Asked(task[c].from)
  BY <1>1, Refreshing DEF RotationAnswered
<1>3. CASE Fresh(c) /\ Accepted(task[c].from)
  <2>1. Turns(c, task[c].kind, "reading", task[c].then, task[c].from, Second(task[c].from), task[c].waits)
    BY <1>1, <1>3, Tokens, TurnAtNext DEF RotationAnswered, AllStages
  <2>2. QED
    BY <1>2, <1>3, <2>1 DEF RotationAnsweredDoes, RotationAnswered
<1>4. CASE Fresh(c) /\ ~Accepted(task[c].from)
  <2>1. Moves(c, "clear", "out", task[c].waits)
    BY <1>1, <1>4, TurnAtThen DEF RotationAnswered, Queues, AllStages, Entries
  <2>2. QED
    BY <1>2, <1>4, <2>1 DEF RotationAnsweredDoes, RotationAnswered, Queues
<1>5. CASE ~Fresh(c)
  <2>1. Over(c) /\ Woken
    BY <1>5, EndsTask DEF RotationAnswered, TypeOK, Woken
  <2>2. Loses(c)
    BY <1>1, <1>5 DEF RotationAnswered, Loses, TypeOK
  <2>3. QED
    BY <1>2, <1>5, <2>1, <2>2 DEF RotationAnsweredDoes, RotationAnswered
<1>6. QED
  BY <1>3, <1>4, <1>5

LEMMA PermissionsReadEffect ==
  ASSUME TypeOK, StageInv, NEW c \in Call, PermissionsRead(c)
  PROVE  PermissionsReadDoes(c)
<1>1. CASE Fresh(c)
  <2> DEFINE at == IF task[c].kind = "login" THEN "open" ELSE "activate"
  <2>1. at \in AllStages /\ task' = [task EXCEPT ![c].at = at]
    BY <1>1 DEF PermissionsRead, Queues, AllStages, Entries
  <2> HIDE DEF at
  <2>2. Moves(c, at, task[c].then, task[c].waits)
    BY <2>1, TurnAt
  <2>3. QED
    BY <1>1, <2>2 DEF PermissionsReadDoes, PermissionsRead, Goes, Queues, at
<1>2. CASE ~Fresh(c)
  <2>1. Over(c) /\ Woken
    BY <1>2, EndsTask DEF PermissionsRead, TypeOK, Woken
  <2>2. Loses(c)
    BY <1>2, LosingLoses DEF PermissionsRead
  <2>3. QED
    BY <1>2, <2>1, <2>2 DEF PermissionsReadDoes, PermissionsRead, Goes
<1>3. QED
  BY <1>1, <1>2

LEMMA RotationGivenUpEffect ==
  ASSUME TypeOK, StageInv, NEW c \in Call, RotationGivenUp(c)
  PROVE  RotationGivenUpDoes(c)
<1>1. Loses(c) /\ Asks(c) /\ faults' \in Nat
  BY LosingLoses DEF RotationGivenUp, TypeOK
<1>2. CASE Fresh(c) /\ task[c].kind = "restore"
  <2>1. Moves(c, "starting_offline", task[c].then, handle)
    BY <1>2, TurnAtWaits DEF RotationGivenUp, AllStages, TypeOK
  <2>2. QED
    BY <1>1, <1>2, <2>1 DEF RotationGivenUpDoes, RotationGivenUp
<1>3. CASE ~(Fresh(c) /\ task[c].kind = "restore")
  <2>1. Over(c) /\ Woken
    BY <1>3, EndsTask DEF RotationGivenUp, TypeOK, Woken
  <2>2. QED
    BY <1>1, <1>3, <2>1 DEF RotationGivenUpDoes, RotationGivenUp
<1>4. QED
  BY <1>2, <1>3

LEMMA ActivateEffect ==
  ASSUME TypeOK, StageInv, NEW c \in Call, Activate(c)
  PROVE  ActivateDoes(c)
BY TurnAt DEF ActivateDoes, Activate, Enters, Goes, At, AllStages, Inside, TypeOK, StageInv, Stage, IsHead,
              memory, runtime, outside

LEMMA SavedEffect ==
  ASSUME TypeOK, StageInv, NEW c \in Call, Saved(c)
  PROVE  SavedDoes(c)
BY TurnAtWaits, TurnAtThen DEF SavedDoes, Saved, Enters, Goes, AllStages, Inside, TypeOK, StageInv, Stage,
                               IsHead, memory, runtime, outside

LEMMA SaveFailsEffect ==
  ASSUME TypeOK, StageInv, NEW c \in Call, SaveFails(c)
  PROVE  SaveFailsDoes(c)
<1>1. Loses(c) /\ faults' \in Nat
  BY LosingLoses DEF SaveFails, TypeOK
<1>2. Moves(c, "clearing", "error", task[c].waits)
  BY TurnAtThen DEF SaveFails, AllStages, Inside
<1>3. QED
  BY <1>1, <1>2 DEF SaveFailsDoes, SaveFails, Enters, Goes, IsHead

LEMMA StartSyncEffect ==
  ASSUME TypeOK, StageInv, NEW c \in Call, StartSync(c)
  PROVE  StartSyncDoes(c)
<1>1. PICK ok : ok = (state = "AUTHENTICATED")
  OBVIOUS
<1>2. queue' = Tail(queue) /\ Over(c) /\ (Installs(task[c].waits) \/ Woken)
  <2>1. CASE \E e \in Engine : current' = e /\ Leaves(c, ok, Installed(e, task[c].waits))
    <3>1. PICK e \in Engine : current' = e /\ Leaves(c, ok, Installed(e, task[c].waits))
      BY <2>1
    <3>2. task[c].waits \in Nat
      BY DEF TypeOK, TaskType
    <3>3. Installed(e, task[c].waits) \in [Engine -> EngineType]
      BY <3>2, Installation
    <3>4. /\ queue' = Tail(queue) /\ Over(c) /\ engine' \in [Engine -> EngineType]
          /\ \A f \in Engine : /\ engine'[f].disposed = Installed(e, task[c].waits)[f].disposed
                               /\ engine'[f].handle = Installed(e, task[c].waits)[f].handle
      BY <3>1, <3>3, LeavesHead
    <3>5. QED
      BY <3>1, <3>2, <3>4, Installation DEF Installs
  <2>2. CASE Leaves(c, ok, engine) /\ UNCHANGED current
    BY <2>2, LeavesHead DEF TypeOK, Woken
  <2>3. QED
    BY <1>1, <2>1, <2>2 DEF StartSync
<1>3. QED
  BY <1>2 DEF StartSyncDoes, StartSync, Enters, Goes, IsHead

LEMMA StartOfflineEffect ==
  ASSUME TypeOK, StageInv, NEW c \in Call, StartOffline(c)
  PROVE  StartOfflineDoes(c)
<1>1. CASE \E e \in Engine : current' = e /\ Ends(c, FALSE, Installed(e, task[c].waits))
  <2>1. PICK e \in Engine : current' = e /\ Ends(c, FALSE, Installed(e, task[c].waits))
    BY <1>1
  <2>2. task[c].waits \in Nat
    BY DEF TypeOK, TaskType
  <2>3. Installed(e, task[c].waits) \in [Engine -> EngineType]
    BY <2>2, Installation
  <2>4. /\ Over(c) /\ engine' \in [Engine -> EngineType]
        /\ \A f \in Engine : /\ engine'[f].disposed = Installed(e, task[c].waits)[f].disposed
                             /\ engine'[f].handle = Installed(e, task[c].waits)[f].handle
    BY <2>1, <2>3, EndsTask
  <2>5. Over(c) /\ Installs(task[c].waits)
    BY <2>1, <2>2, <2>4, Installation DEF Installs
  <2>6. QED
    BY <2>5 DEF StartOfflineDoes, StartOffline, Goes
<1>2. CASE Ends(c, FALSE, engine) /\ UNCHANGED current
  <2>1. Over(c) /\ Woken
    BY <1>2, EndsTask DEF TypeOK, Woken
  <2>2. QED
    BY <2>1 DEF StartOfflineDoes, StartOffline, Goes
<1>3. QED
  BY <1>1, <1>2 DEF StartOffline

LEMMA FailsEffect ==
  ASSUME TypeOK, StageInv, NEW c \in Call, NEW count \in Nat, Fails(c, count),
         task[c].at \in {"load", "open", "opened", "starting"}
  PROVE  FailsDoes(c)
<1>1. IsHead(c) /\ faults' \in Nat
  BY DEF Fails, IsHead, TypeOK
<1>2. CASE Fresh(c)
  <2> DEFINE then == IF task[c].kind = "rotation" THEN "out" ELSE "failed"
  <2>1. then \in {"done", "asking", "error", "failed", "out"} /\ "clear" \in AllStages
    BY DEF AllStages, Entries
  <2>2. task' = [task EXCEPT ![c].at = "clear", ![c].then = then]
    BY <1>2 DEF Fails
  <2> HIDE DEF then
  <2>3. Moves(c, "clear", then, task[c].waits)
    BY <2>1, <2>2, TurnAtThen
  <2>4. QED
    BY <1>1, <1>2, <2>3 DEF FailsDoes, Fails, then
<1>3. CASE ~Fresh(c)
  <2>1. queue' = Tail(queue) /\ Over(c) /\ Woken
    BY <1>3, LeavesHead DEF Fails, TypeOK, Woken
  <2>2. QED
    BY <1>1, <1>3, <2>1 DEF FailsDoes, Fails
<1>4. QED
  BY <1>2, <1>3

LEMMA RotatesEffect ==
  ASSUME TypeOK, StageInv, Rotates
  PROVE  RotatesDoes
<1> DEFINE t == NewTask("rotation", "asking", "done", payload)
<1>1. /\ t \in TaskType /\ t.kind = "rotation" /\ t.at = "asking" /\ t.then = "done"
      /\ t.from = payload /\ t.next = NoToken /\ t.waits = 0
  <2>1. "rotation" \in Kinds /\ "asking" \in AllStages /\ "done" \in {"done", "asking"} /\ payload \in Token
    BY DEF TypeOK, Kinds, AllStages
  <2>2. QED
    BY <2>1, NewTasks
<1> HIDE DEF t
<1>2. Rotation(generation) \in Call
  BY Calls DEF TypeOK
<1>3. Turns(Rotation(generation), "rotation", "asking", "done", payload, NoToken, 0)
  BY <1>1, <1>2, TurnTask DEF Rotates, t
<1>4. QED
  BY <1>3 DEF RotatesDoes, Rotates

LEMMA UserBeginsEffect ==
  ASSUME TypeOK, StageInv, NEW kind \in {"login", "logout"}, UserBegins(kind)
  PROVE  UserBeginsDoes(kind)
<1> DEFINE then == IF kind = "login" THEN "asking" ELSE "done"
           c == Main(generation + 1)
           t == NewTask(kind, "clear", then, NoToken)
<1>1. /\ t \in TaskType /\ t.kind = kind /\ t.at = "clear" /\ t.then = then
      /\ t.from = NoToken /\ t.next = NoToken /\ t.waits = 0
  <2>1. then \in {"done", "asking"} /\ kind \in Kinds
    BY DEF Kinds
  <2> HIDE DEF then
  <2>2. QED
    BY <2>1, NewTasks, Constants DEF AllStages, Entries
<1>2. c \in Call
  BY Calls, Constants DEF UserBegins, Begin, TypeOK
<1>3. task' = [task EXCEPT ![c] = t]
  <2>1. task' = [[task EXCEPT ![c] = t] EXCEPT ![c].at = "clear"]
    BY DEF UserBegins, Begin, Queues, Main
  <2>2. [t EXCEPT !.at = "clear"] = t
    BY <1>1 DEF TaskType
  <2> HIDE DEF t, c
  <2>3. QED
    BY <1>2, <2>1, <2>2 DEF TypeOK
<1> HIDE DEF t
<1>4. Turns(c, kind, "clear", then, NoToken, NoToken, 0)
  BY <1>1, <1>2, <1>3, TurnTask
<1>5. QED
  BY <1>4 DEF UserBeginsDoes, UserBegins, Begin, Queues, Main

LEMMA QuitEffect ==
  ASSUME TypeOK, StageInv, Quit
  PROVE  QuitDoes
<1> DEFINE c == Main(generation + 1)
           t == NewTask("quit", "waiting", "done", NoToken)
           u == [t EXCEPT !.waits = current]
<1>1. /\ t \in TaskType /\ t.kind = "quit" /\ t.at = "waiting" /\ t.then = "done"
      /\ t.from = NoToken /\ t.next = NoToken
  <2>1. "quit" \in Kinds /\ "waiting" \in AllStages
    BY DEF Kinds, AllStages, Inside
  <2>2. QED
    BY <2>1, NewTasks, Constants
<1>2. current \in Nat
  BY DesktopSessionAssumption DEF TypeOK
<1> HIDE DEF t
<1>3. /\ u \in TaskType /\ u.kind = "quit" /\ u.at = "waiting" /\ u.then = "done"
      /\ u.from = NoToken /\ u.next = NoToken /\ u.waits = current
  BY <1>1, <1>2 DEF TaskType
<1>4. c \in Call
  BY Calls, Constants DEF Quit, TypeOK
<1>5. task' = [task EXCEPT ![c] = u]
  BY DEF Quit, Main, t
<1> HIDE DEF u
<1>6. Turns(c, "quit", "waiting", "done", NoToken, NoToken, current)
  BY <1>3, <1>4, <1>5, TurnTask
<1>7. Dropped
  <2>1. engine' = Dispose(engine) /\ current' = 0
    BY DEF Quit
  <2>2. QED
    BY <2>1, Disposes DEF Dropped
<1>8. QED
  BY <1>6, <1>7 DEF QuitDoes, Quit

LEMMA RestartsEffect ==
  ASSUME TypeOK, StageInv, Restarts
  PROVE  RestartsDoes
<1> DEFINE main == Main(generation + 1)
           t == NewTask("restore", "load", "done", NoToken)
<1>1. t \in TaskType /\ t.kind = "restore" /\ t.at = "load" /\ t.then = "done"
  <2>1. "restore" \in Kinds /\ "load" \in AllStages
    BY DEF Kinds, AllStages, Entries
  <2>2. QED
    BY <2>1, NewTasks, Constants
<1>2. task' = [c \in Call |-> IF c = main THEN t ELSE NoTask]
  BY DEF Restarts, Restart, Main
<1> HIDE DEF t
<1>3. /\ task' \in [Call -> TaskType]
      /\ \A d \in Call : IF d = main
                         THEN task'[d].kind = "restore" /\ task'[d].at = "load" /\ task'[d].then = "done"
                         ELSE task'[d].kind = "none" /\ task'[d].at = "none" /\ task'[d].then = "done"
  BY <1>1, <1>2, Constants
<1>4. engine' \in [Engine -> EngineType] /\ \A e \in Engine : Unused(e)'
  BY Constants DEF Restarts, Restart, Unused, Running
<1>5. \A c \in Call : task[c].from \in Token /\ task[c].from.session \in Session
  BY DEF TypeOK, TaskType, Token
<1>6. late' \subseteq Token /\ \A token \in late' : token \in late \/ \E c \in Call : Asks(c) /\ token = task[c].from
  BY <1>5 DEF Restarts, Restart, TypeOK
<1>7. /\ lost' \subseteq Session /\ lost \subseteq lost'
      /\ \A c \in Call : Asks(c) \/ Unsaved(c) => task[c].from.session \in lost'
  BY <1>5 DEF Restarts, Restart, TypeOK
<1>8. QED
  BY <1>3, <1>4, <1>6, <1>7 DEF RestartsDoes, Restarts, Restart, Main

LEMMA SessionEndsEffect ==
  ASSUME TypeOK, StageInv, SessionEnds
  PROVE  SessionEndsDoes
BY Calls DEF SessionEndsDoes, SessionEnds, TypeOK, StageInv, Stage, IsHead, memory, runtime, outside

LEMMA LateRefreshEffect ==
  ASSUME TypeOK, StageInv, LateRefresh
  PROVE  LateRefreshDoes
BY Refreshing DEF LateRefreshDoes, LateRefresh, TypeOK, StageInv, Stage, IsHead, memory, runtime, outside

\* What a step may do.
Effects ==
  \/ UNCHANGED vars \/ CycleOnly \/ RotatesDoes
  \/ \E kind \in {"login", "logout"} : UserBeginsDoes(kind)
  \/ QuitDoes \/ RestartsDoes \/ SessionEndsDoes \/ LateRefreshDoes
  \/ \E c \in Call :
       \/ SupersededDoes(c) \/ ClearDoes(c) \/ ForgetDoes(c) \/ CloseDoes(c)
       \/ LoginAnsweredDoes(c) \/ LoginFailsDoes(c)
       \/ OpenTenantDoes(c) \/ LoadNothingDoes(c) \/ LoadDoes(c) \/ OpenedDoes(c)
       \/ RotationAnsweredDoes(c) \/ RotationGivenUpDoes(c)
       \/ ActivateDoes(c) \/ SavedDoes(c) \/ SaveFailsDoes(c)
       \/ StartSyncDoes(c) \/ StartOfflineDoes(c) \/ PermissionsReadDoes(c) \/ FailsDoes(c)

LEMMA NextEffects ==
  ASSUME TypeOK, StageInv, [Next]_vars
  PROVE  Effects
<1>1. CASE Login
  BY <1>1, UserBeginsEffect DEF Login, UserBegins, Effects
<1>2. CASE Logout
  BY <1>2, UserBeginsEffect DEF Logout, UserBegins, Effects
<1>3. CASE Exit \/ Crash
  BY <1>3, RestartsEffect DEF Exit, Crash, Restarts, TypeOK, Effects
<1>4. CASE RetryRotation
  <2>1. Cycles
    BY <1>4 DEF RetryRotation, runtime, Cycles, TypeOK
  <2>2. QED
    BY <1>4, <2>1, RotationBegins, RotatesEffect DEF RetryRotation, Offline, Effects
<1>5. ASSUME NEW e \in Engine, CycleStep(e)  PROVE Effects
  BY <1>5, CycleSteps, RotatesEffect DEF Effects
<1>6. ASSUME NEW c \in Call, CallStep(c) \/ RotationGivenUp(c) \/ SaveFails(c) \/ Throws(c)  PROVE Effects
  <2>1. CASE Superseded(c) \/ Clear(c) \/ Forget(c) \/ Close(c)
    BY <2>1, SupersededEffect, ClearEffect, ForgetEffect, CloseEffect DEF Effects
  <2>2. CASE LoginAnswered(c) \/ LoginFails(c) \/ OpenTenant(c)
    BY <2>2, LoginAnsweredEffect, LoginFailsEffect, OpenTenantEffect DEF Effects
  <2>3. CASE LoadNothing(c) \/ Load(c) \/ Opened(c)
    BY <2>3, LoadNothingEffect, LoadEffect, OpenedEffect DEF Effects
  <2>4. CASE RotationAnswered(c) \/ Activate(c) \/ Saved(c) \/ StartSync(c) \/ StartOffline(c)
    BY <2>4, RotationAnsweredEffect, ActivateEffect, SavedEffect, StartSyncEffect, StartOfflineEffect DEF Effects
  <2>5. CASE RotationGivenUp(c) \/ SaveFails(c)
    BY <2>5, RotationGivenUpEffect, SaveFailsEffect DEF Effects
  <2>6. CASE PermissionsRead(c) \/ Throws(c) \/ NoDatabase(c)
    BY <2>6, PermissionsReadEffect, FailsEffect DEF Throws, NoDatabase, Goes, Effects
  <2>7. QED
    BY <1>6, <2>1, <2>2, <2>3, <2>4, <2>5, <2>6 DEF CallStep
<1>7. CASE Quit \/ SessionEnds \/ LateRefresh \/ UNCHANGED vars
  BY <1>7, QuitEffect, SessionEndsEffect, LateRefreshEffect DEF Effects
<1>8. QED
  BY <1>1, <1>2, <1>3, <1>4, <1>5, <1>6, <1>7 DEF Next, Fault

LEMMA QueueTypes ==
  ASSUME TypeOK, NEW c \in Call
  PROVE  (queue # <<>> => Tail(queue) \in Seq(Call)) /\ Append(queue, c) \in Seq(Call)
BY TailFacts, AppendFacts DEF TypeOK

LEMMA RequeuesType ==
  ASSUME TypeOK, NEW c \in Call, queue # <<>>
  PROVE  Append(Tail(queue), c) \in Seq(Call)
BY TailFacts, AppendFacts DEF TypeOK

LEMMA TypeStep ==
  ASSUME TypeOK, StageInv, Effects
  PROVE  TypeOK'
<1>1. CASE UNCHANGED vars
  BY <1>1, Constants DEF TypeOK, memory, runtime, outside, vars
<1>2. CASE CycleOnly
  BY <1>2, Constants DEF CycleOnly, Cycles, TypeOK, memory, outside
<1>3. CASE RotatesDoes
  BY <1>3 DEF RotatesDoes, Turns, Cycles, TypeOK, Rotation, outside
<1>4. ASSUME NEW kind \in {"login", "logout"}, UserBeginsDoes(kind)  PROVE TypeOK'
  BY <1>4, QueueTypes, Calls, Constants DEF UserBeginsDoes, Turns, TypeOK, runtime, outside
<1>5. CASE QuitDoes
  BY <1>5, Constants DEF QuitDoes, Turns, Dropped, TypeOK, outside
<1>6. CASE RestartsDoes
  BY <1>6, Calls, Constants DEF RestartsDoes, TypeOK
<1>7. CASE SessionEndsDoes
  BY <1>7, Constants DEF SessionEndsDoes, TypeOK, memory, runtime
<1>8. CASE LateRefreshDoes
  BY <1>8, Constants DEF LateRefreshDoes, Asked, OtherSessions, TypeOK, memory, runtime
<1>9. ASSUME NEW c \in Call, SupersededDoes(c)  PROVE TypeOK'
  BY <1>9, QueueTypes DEF SupersededDoes, Over, Turns, Woken, Loses, TypeOK, IsHead
<1>10. ASSUME NEW c \in Call, ClearDoes(c)  PROVE TypeOK'
  BY <1>10, Constants DEF ClearDoes, Moves, Turns, TypeOK, runtime, outside
<1>11. ASSUME NEW c \in Call, ForgetDoes(c)  PROVE TypeOK'
  <2>1. CASE Over(c) /\ queue' = Tail(queue) /\ state' \in {"ERROR", "SIGNED_OUT", state} /\ Dropped
    BY <1>11, <2>1, QueueTypes, Constants DEF ForgetDoes, IsHead, Over, Turns, Dropped, TypeOK
  <2>2. CASE Moves(c, "waiting", task[c].then, current) /\ DroppedOnly /\ UNCHANGED <<state, refreshing, queue>>
    BY <1>11, <2>2, Constants DEF ForgetDoes, Moves, Turns, DroppedOnly, Dropped, TypeOK
  <2>3. QED
    BY <1>11, <2>1, <2>2 DEF ForgetDoes
<1>12. ASSUME NEW c \in Call, CloseDoes(c)  PROVE TypeOK'
  BY <1>12, QueueTypes DEF CloseDoes, Moves, Over, Turns, Woken, TypeOK, IsHead, outside
<1>13. ASSUME NEW c \in Call, LoginAnsweredDoes(c)  PROVE TypeOK'
  BY <1>13, QueueTypes DEF LoginAnsweredDoes, Over, Turns, Woken, OtherSessions, TypeOK
<1>14. ASSUME NEW c \in Call, LoginFailsDoes(c)  PROVE TypeOK'
  BY <1>14, QueueTypes DEF LoginFailsDoes, Moves, Over, Turns, Woken, TypeOK, outside
<1>15. ASSUME NEW c \in Call, OpenTenantDoes(c)  PROVE TypeOK'
  BY <1>15 DEF OpenTenantDoes, Moves, Turns, TypeOK, outside
<1>16. ASSUME NEW c \in Call, LoadNothingDoes(c)  PROVE TypeOK'
  BY <1>16, QueueTypes DEF LoadNothingDoes, Over, Turns, Dropped, TypeOK, IsHead, outside
<1>17. ASSUME NEW c \in Call, LoadDoes(c)  PROVE TypeOK'
  BY <1>17 DEF LoadDoes, Turns, TypeOK, outside
<1>18. ASSUME NEW c \in Call, OpenedDoes(c)  PROVE TypeOK'
  BY <1>18, QueueTypes DEF OpenedDoes, Moves, Turns, TypeOK, IsHead, runtime, outside
<1>19. ASSUME NEW c \in Call, RotationAnsweredDoes(c)  PROVE TypeOK'
  BY <1>19, QueueTypes DEF RotationAnsweredDoes, Moves, Over, Turns, Woken, Loses, Asked, OtherSessions, TypeOK
<1>20. ASSUME NEW c \in Call, RotationGivenUpDoes(c)  PROVE TypeOK'
  BY <1>20 DEF RotationGivenUpDoes, Moves, Over, Turns, Woken, Loses, TypeOK, TaskType
<1>21. ASSUME NEW c \in Call, ActivateDoes(c)  PROVE TypeOK'
  BY <1>21, Constants DEF ActivateDoes, Moves, Turns, TypeOK, runtime, outside
<1>22. ASSUME NEW c \in Call, SavedDoes(c)  PROVE TypeOK'
  <2>1. task[c].next \in Token
    BY DEF TypeOK, TaskType
  <2>2. QED
    BY <1>22, <2>1, Constants DEF SavedDoes, Moves, Turns, TypeOK, memory, runtime, outside
<1>23. ASSUME NEW c \in Call, SaveFailsDoes(c)  PROVE TypeOK'
  BY <1>23, Constants DEF SaveFailsDoes, Moves, Turns, Loses, TypeOK, runtime
<1>24. ASSUME NEW c \in Call, StartSyncDoes(c)  PROVE TypeOK'
  <2>1. engine' \in [Engine -> EngineType] /\ current' \in Engine \cup {0}
    BY <1>24 DEF StartSyncDoes, Installs, Woken, TypeOK
  <2>2. QED
    BY <1>24, <2>1, QueueTypes DEF StartSyncDoes, Over, Turns, TypeOK, IsHead, outside
<1>25. ASSUME NEW c \in Call, StartOfflineDoes(c)  PROVE TypeOK'
  <2>1. engine' \in [Engine -> EngineType] /\ current' \in Engine \cup {0}
    BY <1>25 DEF StartOfflineDoes, Installs, Woken, TypeOK
  <2>2. QED
    BY <1>25, <2>1, Constants DEF StartOfflineDoes, Over, Turns, TypeOK, outside
<1>26. ASSUME NEW c \in Call, PermissionsReadDoes(c)  PROVE TypeOK'
  BY <1>26, QueueTypes DEF PermissionsReadDoes, Moves, Over, Turns, Woken, Loses, TypeOK
<1>27. ASSUME NEW c \in Call, FailsDoes(c)  PROVE TypeOK'
  BY <1>27, QueueTypes, RequeuesType DEF FailsDoes, IsHead, Moves, Over, Turns, Woken, TypeOK
<1>28. QED
  BY <1>1, <1>2, <1>3, <1>4, <1>5, <1>6, <1>7, <1>8, <1>9, <1>10, <1>11, <1>12, <1>13, <1>14, <1>15,
     <1>16, <1>17, <1>18, <1>19, <1>20, <1>21, <1>22, <1>23, <1>24, <1>25, <1>26, <1>27
     DEF Effects

\* A call that turns to a stage of its kind.
Fits(c, kind, at, then) ==
  /\ Stage(kind, at)
  /\ kind # "none" => (kind = "rotation" <=> c[1] = "rotation") /\ c[2] <= generation'
  /\ then = "asking" => kind = "login"
  /\ kind = "login" /\ at \notin Clearing => then = "asking"

LEMMA TurnFits ==
  ASSUME StageInv, TypeOK, generation' \in Nat, generation' >= generation,
         NEW c \in Call, NEW kind, NEW at, NEW then, NEW from, NEW next, NEW waits,
         Turns(c, kind, at, then, from, next, waits), Fits(c, kind, at, then)
  PROVE  StageInv'
<1>1. ASSUME NEW d \in Call, d # c
      PROVE  /\ Stage(task'[d].kind, task'[d].at)
             /\ task'[d].kind # "none" => (task'[d].kind = "rotation" <=> d[1] = "rotation")
             /\ task'[d].then = "asking" => task'[d].kind = "login"
             /\ task'[d].kind = "login" /\ task'[d].at \notin Clearing => task'[d].then = "asking"
             /\ d[2] > generation' => task'[d].kind = "none"
  BY <1>1, Calls DEF Turns, StageInv, TypeOK
<1>2. /\ Stage(task'[c].kind, task'[c].at)
      /\ task'[c].kind # "none" => (task'[c].kind = "rotation" <=> c[1] = "rotation")
      /\ task'[c].then = "asking" => task'[c].kind = "login"
      /\ task'[c].kind = "login" /\ task'[c].at \notin Clearing => task'[c].then = "asking"
      /\ c[2] > generation' => task'[c].kind = "none"
  BY Calls DEF Turns, Fits
<1>3. QED
  BY <1>1, <1>2 DEF StageInv, Stage

LEMMA OverFits ==
  ASSUME StageInv, TypeOK, generation' = generation, NEW c \in Call, Over(c)
  PROVE  StageInv'
BY TurnFits DEF Over, Fits, Stage, TypeOK

LEMMA MoveFits ==
  ASSUME StageInv, TypeOK, generation' = generation, NEW c \in Call,
         NEW at, NEW then, NEW waits, Moves(c, at, then, waits),
         task[c].kind # "none", Stage(task[c].kind, at), then = "asking" => task[c].kind = "login",
         task[c].kind = "login" /\ at \notin Clearing => then = "asking"
  PROVE  StageInv'
<1>1. Fits(c, task[c].kind, at, then)
  BY Calls DEF Fits, StageInv, TypeOK
<1>2. QED
  BY <1>1, TurnFits DEF Moves, TypeOK

LEMMA StageStep ==
  ASSUME TypeOK, StageInv, Effects
  PROVE  StageInv'
<1>1. CASE UNCHANGED vars
  BY <1>1, Calls DEF TypeOK, StageInv, Main, Rotation, memory, vars
<1>2. CASE CycleOnly
  BY <1>2, Calls DEF CycleOnly, TypeOK, StageInv, Main, Rotation, memory
<1>3. CASE RotatesDoes
  BY <1>3, TurnFits, Calls DEF RotatesDoes, Fits, Rotation, TypeOK, StageInv, Stage, Clearing
<1>4. ASSUME NEW kind \in {"login", "logout"}, UserBeginsDoes(kind)  PROVE StageInv'
  <2>1. Main(generation + 1) \in Call /\ generation' = generation + 1 /\ generation \in Nat
    BY <1>4, Calls, Constants DEF UserBeginsDoes, TypeOK
  <2>2. Fits(Main(generation + 1), kind, "clear", IF kind = "login" THEN "asking" ELSE "done")
    BY <2>1 DEF Fits, Main, Stage, Clearing
  <2>3. QED
    BY <1>4, <2>1, <2>2, TurnFits DEF UserBeginsDoes
<1>5. CASE QuitDoes
  <2>1. Main(generation + 1) \in Call /\ generation' = generation + 1 /\ generation \in Nat
    BY <1>5, Calls, Constants DEF QuitDoes, TypeOK
  <2>2. Fits(Main(generation + 1), "quit", "waiting", "done")
    BY <2>1 DEF Fits, Main, Stage, Clearing
  <2>3. QED
    BY <1>5, <2>1, <2>2, TurnFits DEF QuitDoes
<1>6. CASE RestartsDoes
  BY <1>6, Calls DEF RestartsDoes, StageInv, Stage, Main, TypeOK, Clearing
<1>7. CASE SessionEndsDoes
  BY <1>7, Calls DEF SessionEndsDoes, TypeOK, StageInv, Main, Rotation, memory
<1>8. CASE LateRefreshDoes
  BY <1>8, Calls DEF LateRefreshDoes, TypeOK, StageInv, Main, Rotation, memory
<1>9. ASSUME NEW c \in Call, SupersededDoes(c)  PROVE StageInv'
  BY <1>9, OverFits DEF SupersededDoes, TypeOK, StageInv, Stage, Clearing, Fresh
<1>10. ASSUME NEW c \in Call, ClearDoes(c)  PROVE StageInv'
  BY <1>10, MoveFits DEF ClearDoes, TypeOK, StageInv, Stage, Clearing, Fresh
<1>11. ASSUME NEW c \in Call, ForgetDoes(c)  PROVE StageInv'
  BY <1>11, OverFits, MoveFits DEF ForgetDoes, TypeOK, StageInv, Stage, Clearing
<1>12. ASSUME NEW c \in Call, CloseDoes(c)  PROVE StageInv'
  BY <1>12, OverFits, MoveFits DEF CloseDoes, TypeOK, StageInv, Stage, Clearing, Fresh
<1>13. ASSUME NEW c \in Call, LoginAnsweredDoes(c)  PROVE StageInv'
  <2>1. generation' = generation /\ generation \in Nat /\ task[c].kind = "login" /\ task[c].at = "asking"
    BY <1>13 DEF LoginAnsweredDoes, TypeOK
  <2>2. Fits(c, "login", "reading", task[c].then)
    <3>1. Stage("login", "reading")
      BY DEF Stage
    <3>2. c[2] <= generation /\ c[1] # "rotation" /\ task[c].then = "asking"
      BY <2>1, Calls DEF StageInv, Clearing, TypeOK
    <3>3. QED
      BY <2>1, <3>1, <3>2 DEF Fits
  <2>3. QED
    BY <1>13, <2>1, <2>2, TurnFits, OverFits DEF LoginAnsweredDoes
<1>14. ASSUME NEW c \in Call, LoginFailsDoes(c)  PROVE StageInv'
  BY <1>14, OverFits, MoveFits DEF LoginFailsDoes, TypeOK, StageInv, Stage, Clearing, Fresh
<1>15. ASSUME NEW c \in Call, OpenTenantDoes(c)  PROVE StageInv'
  BY <1>15, MoveFits DEF OpenTenantDoes, TypeOK, StageInv, Stage, Clearing, Fresh
<1>16. ASSUME NEW c \in Call, LoadNothingDoes(c)  PROVE StageInv'
  BY <1>16, OverFits DEF LoadNothingDoes, TypeOK, StageInv, Stage, Clearing, Fresh
<1>17. ASSUME NEW c \in Call, LoadDoes(c)  PROVE StageInv'
  <2>1. task[c].kind = "restore" /\ generation' = generation /\ generation \in Nat
    BY <1>17 DEF LoadDoes, TypeOK, StageInv, Stage, Clearing
  <2>2. Fits(c, task[c].kind, "opened", task[c].then)
    BY <2>1, Calls DEF Fits, StageInv, Stage, TypeOK
  <2>3. QED
    BY <1>17, <2>1, <2>2, TurnFits DEF LoadDoes
<1>18. ASSUME NEW c \in Call, OpenedDoes(c)  PROVE StageInv'
  BY <1>18, MoveFits DEF OpenedDoes, TypeOK, StageInv, Stage, Clearing, Fresh
<1>19. ASSUME NEW c \in Call, RotationAnsweredDoes(c)  PROVE StageInv'
  <2>1. task[c].kind \in {"restore", "rotation"} /\ generation' = generation /\ generation \in Nat
    BY <1>19 DEF RotationAnsweredDoes, TypeOK, StageInv, Stage, Clearing, Asks, Goes
  <2>2. Fits(c, task[c].kind, "reading", task[c].then)
    BY <2>1, Calls DEF Fits, StageInv, Stage, TypeOK
  <2>3. Stage(task[c].kind, "clear")
    BY <2>1 DEF Stage, Clearing
  <2>4. QED
    BY <1>19, <2>1, <2>2, <2>3, OverFits, MoveFits, TurnFits DEF RotationAnsweredDoes
<1>20. ASSUME NEW c \in Call, RotationGivenUpDoes(c)  PROVE StageInv'
  BY <1>20, OverFits, MoveFits DEF RotationGivenUpDoes, TypeOK, StageInv, Stage, Clearing, Fresh, Asks, Goes
<1>21. ASSUME NEW c \in Call, ActivateDoes(c)  PROVE StageInv'
  BY <1>21, MoveFits DEF ActivateDoes, TypeOK, StageInv, Stage, Clearing, Fresh
<1>22. ASSUME NEW c \in Call, SavedDoes(c)  PROVE StageInv'
  BY <1>22, MoveFits DEF SavedDoes, TypeOK, StageInv, Stage, Clearing, Fresh
<1>23. ASSUME NEW c \in Call, SaveFailsDoes(c)  PROVE StageInv'
  BY <1>23, MoveFits DEF SaveFailsDoes, TypeOK, StageInv, Stage, Clearing
<1>24. ASSUME NEW c \in Call, StartSyncDoes(c)  PROVE StageInv'
  BY <1>24, OverFits DEF StartSyncDoes, TypeOK, StageInv, Stage, Clearing
<1>25. ASSUME NEW c \in Call, StartOfflineDoes(c)  PROVE StageInv'
  BY <1>25, OverFits DEF StartOfflineDoes, TypeOK, StageInv, Stage, Clearing
<1>26. ASSUME NEW c \in Call, PermissionsReadDoes(c)  PROVE StageInv'
  BY <1>26, OverFits, MoveFits DEF PermissionsReadDoes, TypeOK, StageInv, Stage, Clearing, Fresh
<1>27. ASSUME NEW c \in Call, FailsDoes(c)  PROVE StageInv'
  BY <1>27, OverFits, MoveFits DEF FailsDoes, TypeOK, StageInv, Stage, Clearing, Fresh
<1>28. QED
  BY <1>1, <1>2, <1>3, <1>4, <1>5, <1>6, <1>7, <1>8, <1>9, <1>10, <1>11, <1>12, <1>13, <1>14, <1>15,
     <1>16, <1>17, <1>18, <1>19, <1>20, <1>21, <1>22, <1>23, <1>24, <1>25, <1>26, <1>27
     DEF Effects

-----------------------------------------------------------------------------
(* The queue.                                                              *)

LEMMA QueueLeaves ==
  ASSUME TypeOK, QueueInv, NEW c \in Call, IsHead(c), queue' = Tail(queue),
         ~Transits(c)', \A d \in Call \ {c} : task'[d] = task[d]
  PROVE  QueueInv'
<1>1. /\ Len(queue) \in Nat \ {0} /\ Len(queue') = Len(queue) - 1 /\ queue[1] = c
      /\ \A i \in 1 .. Len(queue) - 1 : queue'[i] = queue[i + 1]
      /\ \A i \in 1 .. Len(queue) : queue[i] \in Call
  BY TailFacts DEF TypeOK, IsHead
<1>2. \A d \in Call \ {c} : Transits(d)' <=> Transits(d)
  BY DEF Transits
<1>3. \A i \in 1 .. Len(queue) : i > 1 => queue[i] \in Call \ {c}
  BY <1>1 DEF QueueInv
<1>4. \A d \in Call : Transits(d)' => \E i \in 1 .. Len(queue') : queue'[i] = d
  <2> SUFFICES ASSUME NEW d \in Call, Transits(d)'  PROVE \E i \in 1 .. Len(queue') : queue'[i] = d
    OBVIOUS
  <2>1. PICK i \in 1 .. Len(queue) : queue[i] = d
    BY <1>2 DEF QueueInv
  <2>2. i > 1
    BY <1>1, <2>1
  <2>3. i - 1 \in 1 .. Len(queue') /\ queue'[i - 1] = d
    BY <1>1, <2>1, <2>2
  <2>4. QED
    BY <2>3
<1>5. \A i \in 1 .. Len(queue') : Transits(queue[i])'
  <2>1. \A i \in 1 .. Len(queue) : Transits(queue[i])
    BY DEF QueueInv
  <2>2. QED
    BY <1>1, <1>2, <1>3, <2>1 DEF Transits
<1>6. \A i, j \in 1 .. Len(queue') : i < j =>
        queue'[i] # queue'[j] /\ queue'[i][2] <= queue'[j][2] /\ task'[queue'[j]].at \in Entries \ {"load"}
  <2> SUFFICES ASSUME NEW i \in 1 .. Len(queue'), NEW j \in 1 .. Len(queue'), i < j
               PROVE  /\ queue'[i] # queue'[j] /\ queue'[i][2] <= queue'[j][2]
                      /\ task'[queue'[j]].at \in Entries \ {"load"}
    OBVIOUS
  <2>1. i + 1 \in 1 .. Len(queue) /\ j + 1 \in 1 .. Len(queue) /\ i + 1 < j + 1
    BY <1>1
  <2>2. task'[queue[j + 1]] = task[queue[j + 1]]
    BY <1>3, <2>1
  <2>3. QED
    BY <1>1, <2>1, <2>2 DEF QueueInv
<1>7. QED
  BY <1>4, <1>5, <1>6 DEF QueueInv

\* A call outside of the queue stays outside, or the first one moves on.
LEMMA QueueKeeps ==
  ASSUME TypeOK, QueueInv, NEW c \in Call, queue' = queue,
         Transits(c)' <=> Transits(c), Transits(c) => IsHead(c),
         \A d \in Call \ {c} : task'[d] = task[d]
  PROVE  QueueInv'
<1>1. \A d \in Call : Transits(d)' <=> Transits(d)
  BY DEF Transits
<1>2. \A i \in 1 .. Len(queue) : queue[i] \in Call
  BY DEF TypeOK
<1>3. \A i \in 1 .. Len(queue) : i > 1 => queue[i] # c
  <2>1. \A i \in 1 .. Len(queue) : queue[i] = c => IsHead(c)
    BY <1>2 DEF QueueInv
  <2>2. queue # <<>> => Head(queue) = queue[1] /\ Len(queue) \in Nat \ {0}
    BY TailFacts DEF TypeOK
  <2>3. QED
    BY <2>1, <2>2 DEF QueueInv, IsHead
<1>4. \A i \in 1 .. Len(queue) : i > 1 => task'[queue[i]] = task[queue[i]]
  BY <1>2, <1>3
<1>5. \A i, j \in 1 .. Len(queue) : i < j =>
        queue[i] # queue[j] /\ queue[i][2] <= queue[j][2] /\ task'[queue[j]].at \in Entries \ {"load"}
  BY <1>4 DEF QueueInv
<1>6. QED
  BY <1>1, <1>2, <1>5 DEF QueueInv

\* A call of the latest generation joins the queue.
LEMMA QueueEnters ==
  ASSUME TypeOK, StageInv, QueueInv, NEW c \in Call, queue' = Append(queue, c), c[2] \in {generation, generation + 1},
         ~Transits(c), Transits(c)', task'[c].at \in Entries \ {"load"},
         \A d \in Call \ {c} : task'[d] = task[d]
  PROVE  QueueInv'
<1>1. /\ Len(queue) \in Nat /\ Len(queue') = Len(queue) + 1 /\ queue'[Len(queue) + 1] = c
      /\ \A i \in 1 .. Len(queue) : queue'[i] = queue[i] /\ queue[i] \in Call
  BY AppendFacts DEF TypeOK
<1>2. \A i \in 1 .. Len(queue) : queue[i] # c /\ queue[i][2] <= generation
  <2> SUFFICES ASSUME NEW i \in 1 .. Len(queue)  PROVE queue[i] # c /\ queue[i][2] <= generation
    OBVIOUS
  <2>1. Transits(queue[i]) /\ queue[i] \in Call
    BY <1>1 DEF QueueInv
  <2>2. task[queue[i]].kind # "none"
    BY <2>1 DEF StageInv, Stage, Transits, Entries, Inside
  <2>3. QED
    BY <2>1, <2>2, Calls DEF StageInv, TypeOK
<1>3. \A d \in Call \ {c} : Transits(d)' <=> Transits(d)
  BY DEF Transits
<1>4. \A d \in Call : Transits(d)' => \E i \in 1 .. Len(queue') : queue'[i] = d
  <2>1. Len(queue) + 1 \in 1 .. Len(queue') /\ \A i \in 1 .. Len(queue) : i \in 1 .. Len(queue')
    BY <1>1
  <2>2. QED
    BY <1>1, <1>3, <2>1 DEF QueueInv
<1>5. \A i \in 1 .. Len(queue') : Transits(queue[i])'
  <2>1. \A i \in 1 .. Len(queue) : Transits(queue[i])
    BY DEF QueueInv
  <2>2. QED
    BY <1>1, <1>2, <1>3, <2>1 DEF Transits
<1>6. \A i, j \in 1 .. Len(queue') : i < j =>
        queue'[i] # queue'[j] /\ queue'[i][2] <= queue'[j][2] /\ task'[queue'[j]].at \in Entries \ {"load"}
  <2> SUFFICES ASSUME NEW i \in 1 .. Len(queue'), NEW j \in 1 .. Len(queue'), i < j
               PROVE  /\ queue'[i] # queue'[j] /\ queue'[i][2] <= queue'[j][2]
                      /\ task'[queue'[j]].at \in Entries \ {"load"}
    OBVIOUS
  <2>1. i \in 1 .. Len(queue)
    BY <1>1
  <2>2. CASE j \in 1 .. Len(queue)
    <3>1. task'[queue[j]] = task[queue[j]]
      BY <1>1, <1>2, <2>2
    <3>2. QED
      BY <1>1, <2>1, <2>2, <3>1 DEF QueueInv
  <2>3. CASE j = Len(queue) + 1
    <3>1. queue[i][2] <= c[2]
      BY <1>1, <1>2, <2>1, Calls DEF TypeOK
    <3>2. QED
      BY <1>1, <1>2, <2>1, <2>3, <3>1
  <2>4. QED
    BY <1>1, <2>2, <2>3
<1>7. QED
  BY <1>4, <1>5, <1>6 DEF QueueInv

\* The first call goes to the end of the queue, its generation being the last.
LEMMA QueueReenters ==
  ASSUME TypeOK, StageInv, QueueInv, NEW c \in Call, IsHead(c), Fresh(c), queue' = Append(Tail(queue), c),
         Transits(c)', task'[c].at \in Entries \ {"load"},
         \A d \in Call \ {c} : task'[d] = task[d]
  PROVE  QueueInv'
<1>1. /\ Len(queue) \in Nat \ {0} /\ queue[1] = c /\ \A i \in 1 .. Len(queue) : queue[i] \in Call
      /\ Tail(queue) \in Seq(Call) /\ Len(Tail(queue)) = Len(queue) - 1
      /\ \A i \in 1 .. Len(queue) - 1 : Tail(queue)[i] = queue[i + 1]
  BY TailFacts DEF TypeOK, IsHead
<1>2. /\ Len(queue') = Len(queue) /\ queue'[Len(queue)] = c
      /\ \A i \in 1 .. Len(queue) - 1 : queue'[i] = queue[i + 1]
  BY <1>1, AppendFacts
<1>3. \A i \in 1 .. Len(queue) - 1 : queue'[i] \in Call \ {c} /\ queue'[i][2] <= generation
  <2> SUFFICES ASSUME NEW i \in 1 .. Len(queue) - 1  PROVE queue'[i] \in Call \ {c} /\ queue'[i][2] <= generation
    OBVIOUS
  <2>1. i + 1 \in 1 .. Len(queue) /\ 1 \in 1 .. Len(queue) /\ 1 < i + 1
    BY <1>1
  <2>2. queue[i + 1] \in Call \ {c} /\ Transits(queue[i + 1])
    BY <1>1, <2>1 DEF QueueInv
  <2>3. task[queue[i + 1]].kind # "none"
    BY <2>2 DEF StageInv, Stage, Transits, Entries, Inside
  <2>4. QED
    BY <1>2, <2>2, <2>3, Calls DEF StageInv, TypeOK
<1>4. \A d \in Call \ {c} : Transits(d)' <=> Transits(d)
  BY DEF Transits
<1>5. \A d \in Call : Transits(d)' => \E i \in 1 .. Len(queue') : queue'[i] = d
  <2> SUFFICES ASSUME NEW d \in Call, Transits(d)', d # c  PROVE \E i \in 1 .. Len(queue') : queue'[i] = d
    <3>1. Len(queue) \in 1 .. Len(queue')
      <4>1. PICK n \in Nat \ {0} : n = Len(queue) /\ n = Len(queue')
        BY <1>1, <1>2
      <4>2. QED
        BY <4>1
    <3>2. QED
      BY <1>2, <3>1
  <2>1. PICK i \in 1 .. Len(queue) : queue[i] = d
    BY <1>4 DEF QueueInv
  <2>2. i - 1 \in 1 .. Len(queue) - 1 /\ queue'[i - 1] = d /\ i - 1 \in 1 .. Len(queue')
    BY <1>1, <1>2, <2>1
  <2>3. QED
    BY <2>2
<1>6. \A i \in 1 .. Len(queue') : Transits(queue[i])'
  <2> SUFFICES ASSUME NEW i \in 1 .. Len(queue')  PROVE Transits(queue[i])'
    OBVIOUS
  <2>1. CASE i = Len(queue)
    BY <1>2, <2>1 DEF Transits
  <2>2. CASE i # Len(queue)
    <3>1. i \in 1 .. Len(queue) - 1 /\ i + 1 \in 1 .. Len(queue)
      <4>1. PICK n \in Nat : n = Len(queue) /\ i \in 1 .. n /\ i # n
        BY <1>1, <1>2, <2>2
      <4>2. QED
        BY <4>1
    <3>2. queue'[i] = queue[i + 1] /\ queue'[i] \in Call \ {c} /\ Transits(queue[i + 1])
      BY <1>2, <1>3, <3>1 DEF QueueInv
    <3>3. QED
      BY <1>4, <3>2 DEF Transits
  <2>3. QED
    BY <2>1, <2>2
<1>7. \A i, j \in 1 .. Len(queue') : i < j =>
        queue'[i] # queue'[j] /\ queue'[i][2] <= queue'[j][2] /\ task'[queue'[j]].at \in Entries \ {"load"}
  <2> SUFFICES ASSUME NEW i \in 1 .. Len(queue'), NEW j \in 1 .. Len(queue'), i < j
               PROVE  /\ queue'[i] # queue'[j] /\ queue'[i][2] <= queue'[j][2]
                      /\ task'[queue'[j]].at \in Entries \ {"load"}
    OBVIOUS
  <2>1. i \in 1 .. Len(queue) - 1 /\ i + 1 \in 1 .. Len(queue)
    BY <1>1, <1>2
  <2>2. CASE j = Len(queue)
    BY <1>2, <1>3, <2>1, <2>2 DEF Fresh
  <2>3. CASE j # Len(queue)
    <3>1. j \in 1 .. Len(queue) - 1 /\ j + 1 \in 1 .. Len(queue) /\ i + 1 < j + 1
      BY <1>1, <1>2, <2>3
    <3>2. task'[queue'[j]] = task[queue[j + 1]]
      BY <1>2, <1>3, <3>1
    <3>3. QED
      BY <1>2, <2>1, <3>1, <3>2 DEF QueueInv
  <2>4. QED
    BY <2>2, <2>3
<1>8. QED
  BY <1>5, <1>6, <1>7 DEF QueueInv

\* The call of a transition that has begun is the first.
LEMMA InsideIsHead ==
  ASSUME TypeOK, QueueInv, NEW c \in Call, task[c].at \in Inside \cup {"load"}, task[c].kind # "quit"
  PROVE  IsHead(c)
<1>1. PICK i \in 1 .. Len(queue) : queue[i] = c
  BY DEF QueueInv, Transits, Entries
<1>2. i = 1
  <2> SUFFICES ASSUME i > 1  PROVE FALSE
    OBVIOUS
  <2>1. 1 \in 1 .. Len(queue) /\ task[queue[i]].at \in Entries \ {"load"}
    BY DEF QueueInv
  <2>2. QED
    BY <1>1, <2>1 DEF Entries, Inside
<1>3. queue # <<>>
  BY <1>1, <1>2
<1>4. QED
  BY <1>1, <1>2, <1>3, TailFacts DEF IsHead, TypeOK

LEMMA HeadTransits ==
  ASSUME TypeOK, QueueInv, NEW c \in Call, IsHead(c)
  PROVE  Transits(c)
BY TailFacts DEF TypeOK, QueueInv, IsHead

LEMMA QueueStep ==
  ASSUME TypeOK, StageInv, QueueInv, RotationInv, Effects
  PROVE  QueueInv'
<1>1. CASE UNCHANGED vars
  BY <1>1 DEF QueueInv, Transits, memory, vars
<1>2. CASE CycleOnly
  BY <1>2 DEF CycleOnly, QueueInv, Transits, memory
<1>3. CASE RotatesDoes
  <2>1. Rotation(generation) \in Call /\ task[Rotation(generation)].kind = "none"
    BY <1>3, Calls DEF RotatesDoes, RotationInv, TypeOK
  <2>2. ~Transits(Rotation(generation)) /\ ~(task'[Rotation(generation)].at \in Entries \cup Inside)
    BY <1>3, <2>1 DEF RotatesDoes, Turns, Transits, StageInv, Stage, Entries, Inside
  <2> DEFINE c == Rotation(generation)
  <2>3. PICK d \in Call : d = c
    BY <2>1
  <2>4. Transits(d)' <=> Transits(d)
    BY <2>2, <2>3 DEF Transits
  <2>5. QED
    BY <1>3, <2>2, <2>3, <2>4, QueueKeeps DEF RotatesDoes, Turns
<1>4. ASSUME NEW kind \in {"login", "logout"}, UserBeginsDoes(kind)  PROVE QueueInv'
  <2>1. PICK c \in Call : c = Main(generation + 1)
    BY <1>4, NextMain DEF UserBeginsDoes
  <2>2. task[c].kind = "none" /\ c[2] = generation + 1
    BY <1>4, <2>1 DEF StageInv, Main, TypeOK
  <2>3. ~Transits(c) /\ Transits(c)' /\ task'[c].at \in Entries \ {"load"}
    BY <1>4, <2>1, <2>2 DEF UserBeginsDoes, Turns, Transits, StageInv, Stage, Entries, Inside
  <2>4. QED
    BY <1>4, <2>1, <2>2, <2>3, QueueEnters DEF UserBeginsDoes, Turns, TypeOK
<1>5. CASE QuitDoes
  <2>1. PICK c \in Call : c = Main(generation + 1)
    BY <1>5, NextMain DEF QuitDoes
  <2>2. task[c].kind = "none" /\ c[2] = generation + 1
    BY <1>5, <2>1 DEF StageInv, Main, TypeOK
  <2>3. ~Transits(c) /\ ~Transits(c)'
    BY <1>5, <2>1, <2>2 DEF QuitDoes, Turns, Transits, StageInv, Stage, Entries, Inside
  <2>4. QED
    BY <1>5, <2>1, <2>3, QueueKeeps DEF QuitDoes, Turns
<1>6. CASE RestartsDoes
  <2>1. PICK c \in Call : c = Main(generation + 1)
    BY <1>6, NextMain DEF RestartsDoes
  <2>2. queue' = <<c>>
    BY <1>6, <2>1 DEF RestartsDoes
  <2>3. Len(queue') = 1 /\ queue'[1] = c
    BY <2>2
  <2>4. \A d \in Call : Transits(d)' <=> d = c
    BY <1>6, <2>1 DEF RestartsDoes, Transits, Entries, Inside
  <2>5. \A i \in 1 .. Len(queue') : Transits(queue[i])'
    BY <2>3, <2>4
  <2>6. QED
    BY <2>3, <2>4, <2>5 DEF QueueInv
<1>7. CASE SessionEndsDoes
  BY <1>7 DEF SessionEndsDoes, QueueInv, Transits, memory
<1>8. CASE LateRefreshDoes
  BY <1>8 DEF LateRefreshDoes, QueueInv, Transits, memory
<1>9. ASSUME NEW c \in Call, SupersededDoes(c)  PROVE QueueInv'
  BY <1>9, QueueLeaves DEF SupersededDoes, Over, Turns, Transits, Entries, Inside
<1>10. ASSUME NEW c \in Call, ClearDoes(c)  PROVE QueueInv'
  BY <1>10, QueueKeeps, HeadTransits DEF ClearDoes, Moves, Turns, Transits, Entries, Inside
<1>11. ASSUME NEW c \in Call, ForgetDoes(c)  PROVE QueueInv'
  BY <1>11, QueueKeeps, QueueLeaves, HeadTransits DEF ForgetDoes, Moves, Over, Turns, Transits, Entries, Inside
<1>12. ASSUME NEW c \in Call, CloseDoes(c)  PROVE QueueInv'
  BY <1>12, QueueLeaves DEF CloseDoes, Moves, Over, Turns, Transits, Entries, Inside
<1>13. ASSUME NEW c \in Call, LoginAnsweredDoes(c)  PROVE QueueInv'
  BY <1>13, QueueKeeps DEF LoginAnsweredDoes, Over, Turns, Transits, Entries, Inside
<1>14. ASSUME NEW c \in Call, LoginFailsDoes(c)  PROVE QueueInv'
  BY <1>14, QueueEnters, QueueKeeps DEF LoginFailsDoes, Over, Moves, Turns, Fresh, Transits, Entries, Inside
<1>15. ASSUME NEW c \in Call, OpenTenantDoes(c)  PROVE QueueInv'
  BY <1>15, QueueKeeps, HeadTransits DEF OpenTenantDoes, Moves, Turns, Transits, Entries, Inside
<1>16. ASSUME NEW c \in Call, LoadNothingDoes(c)  PROVE QueueInv'
  BY <1>16, QueueLeaves DEF LoadNothingDoes, Over, Turns, Transits, Entries, Inside
<1>17. ASSUME NEW c \in Call, LoadDoes(c)  PROVE QueueInv'
  BY <1>17, QueueKeeps, HeadTransits DEF LoadDoes, Turns, Transits, Entries, Inside
<1>18. ASSUME NEW c \in Call, OpenedDoes(c)  PROVE QueueInv'
  BY <1>18, QueueKeeps, QueueLeaves, HeadTransits DEF OpenedDoes, Moves, Turns, Transits, Entries, Inside
<1>19. ASSUME NEW c \in Call, RotationAnsweredDoes(c)  PROVE QueueInv'
  <2>1. CASE Fresh(c) /\ ~Accepted(task[c].from)
    <3>1. ~Transits(c) /\ task[c].kind # "quit"
      BY <1>19 DEF RotationAnsweredDoes, Asks, Goes, Transits, Entries, Inside, StageInv, Stage
    <3>2. /\ queue' = Append(queue, c) /\ task'[c].at = "clear" /\ task'[c].kind = task[c].kind
          /\ \A d \in Call \ {c} : task'[d] = task[d]
      BY <1>19, <2>1 DEF RotationAnsweredDoes, Moves, Turns
    <3>3. Transits(c)' /\ task'[c].at \in Entries \ {"load"}
      BY <3>1, <3>2 DEF Transits, Entries
    <3>4. QED
      BY <2>1, <3>1, <3>2, <3>3, QueueEnters DEF Fresh
  <2>2. CASE ~(Fresh(c) /\ ~Accepted(task[c].from))
    BY <1>19, <2>2, QueueKeeps DEF RotationAnsweredDoes, Over, Turns, Asks, Goes, Transits, Entries, Inside
  <2>3. QED
    BY <2>1, <2>2
<1>20. ASSUME NEW c \in Call, RotationGivenUpDoes(c)  PROVE QueueInv'
  BY <1>20, QueueKeeps DEF RotationGivenUpDoes, Over, Moves, Turns, Asks, Goes, Transits, Entries, Inside
<1>21. ASSUME NEW c \in Call, ActivateDoes(c)  PROVE QueueInv'
  BY <1>21, QueueKeeps, HeadTransits DEF ActivateDoes, Moves, Turns, Transits, Entries, Inside
<1>22. ASSUME NEW c \in Call, SavedDoes(c)  PROVE QueueInv'
  BY <1>22, QueueKeeps, HeadTransits DEF SavedDoes, Moves, Turns, Transits, Entries, Inside
<1>23. ASSUME NEW c \in Call, SaveFailsDoes(c)  PROVE QueueInv'
  BY <1>23, QueueKeeps, HeadTransits DEF SaveFailsDoes, Moves, Turns, Transits, Entries, Inside
<1>24. ASSUME NEW c \in Call, StartSyncDoes(c)  PROVE QueueInv'
  BY <1>24, QueueLeaves DEF StartSyncDoes, Over, Turns, Transits, Entries, Inside
<1>25. ASSUME NEW c \in Call, StartOfflineDoes(c)  PROVE QueueInv'
  BY <1>25, QueueKeeps DEF StartOfflineDoes, Over, Turns, Transits, Entries, Inside
<1>26. ASSUME NEW c \in Call, PermissionsReadDoes(c)  PROVE QueueInv'
  BY <1>26, QueueEnters, QueueKeeps DEF PermissionsReadDoes, Over, Moves, Turns, Fresh, Transits, StageInv,
                                        Stage, Entries, Inside
<1>27. ASSUME NEW c \in Call, FailsDoes(c)  PROVE QueueInv'
  BY <1>27, QueueReenters, QueueLeaves, HeadTransits DEF FailsDoes, Over, Moves, Turns, Fresh, Transits,
                                                         Entries, Inside
<1>28. QED
  BY <1>1, <1>2, <1>3, <1>4, <1>5, <1>6, <1>7, <1>8, <1>9, <1>10, <1>11, <1>12, <1>13, <1>14, <1>15,
     <1>16, <1>17, <1>18, <1>19, <1>20, <1>21, <1>22, <1>23, <1>24, <1>25, <1>26, <1>27
     DEF Effects

-----------------------------------------------------------------------------
(* The call that took over last.                                           *)

LEMMA LatestFirst ==
  ASSUME TypeOK, StageInv, QueueInv, IsHead(Main(generation)), NEW c \in Call, Transits(c)
  PROVE  Fresh(c)
<1>1. PICK i \in 1 .. Len(queue) : queue[i] = c
  BY DEF QueueInv
<1>2. queue[1] = Main(generation) /\ Len(queue) \in Nat \ {0}
  BY TailFacts DEF TypeOK, IsHead
<1>3. generation <= c[2]
  BY <1>1, <1>2, Calls DEF QueueInv, Main, TypeOK
<1>4. task[c].kind # "none"
  BY DEF Transits, StageInv, Stage, Entries, Inside
<1>5. c[2] <= generation
  BY <1>4, Calls DEF StageInv, TypeOK
<1>6. QED
  BY <1>3, <1>5, Calls DEF Fresh, TypeOK

\* A step of one call, within its generation.
LEMMA TakenOverTurns ==
  ASSUME TypeOK, StageInv, QueueInv, TakenOver, NEW c \in Call,
         generation' = generation, era' = era, \A d \in Call \ {c} : task'[d] = task[d],
         ~Fresh(c) /\ Transits(c)' => Transits(c),
         task[c].kind # "quit" \/ ~Fresh(c), IsHead(c) \/ task[c].at # "clear",
         task'[c].kind \in {task[c].kind, "none", "rotation"}
  PROVE  TakenOver'
<1>1. Main(generation) \in Call /\ Fresh(Main(generation))
  BY Calls DEF TypeOK, Fresh, Main
<1>2. \A d \in Call : Fresh(d)' <=> Fresh(d)
  BY DEF Fresh
<1>3. CASE c = Main(generation)
  <2>1. \A d \in Call : Transits(d) => Fresh(d)
    BY <1>1, <1>3, LatestFirst DEF TakenOver, Latest
  <2>2. \A d \in Call : Transits(d)' => Fresh(d)'
    BY <1>1, <1>2, <1>3, <2>1 DEF Transits
  <2>3. QED
    BY <1>3, <2>2 DEF TakenOver, Latest
<1>4. CASE c # Main(generation)
  <2>1. Latest' = Latest
    BY <1>1, <1>4 DEF Latest
  <2>2. \A d \in Call : Transits(d)' /\ ~Fresh(d)' => Transits(d) /\ ~Fresh(d)
    BY <1>2 DEF Transits
  <2>3. QED
    BY <2>1, <2>2 DEF TakenOver
<1>5. QED
  BY <1>3, <1>4

LEMMA TakenOverStep ==
  ASSUME TypeOK, StageInv, QueueInv, RotationInv, TakenOver, Effects
  PROVE  TakenOver'
<1>1. CASE UNCHANGED vars
  BY <1>1 DEF TakenOver, Latest, Transits, Fresh, memory, vars
<1>2. CASE CycleOnly
  BY <1>2 DEF CycleOnly, TakenOver, Latest, Transits, Fresh, memory
<1>3. CASE RotatesDoes
  <2>1. PICK c \in Call : c = Rotation(generation)
    BY Calls DEF TypeOK
  <2>2. task[c].kind = "none" /\ task[c].at # "clear" /\ Fresh(c)
    BY <1>3, <2>1 DEF RotatesDoes, RotationInv, StageInv, Stage, Fresh, Rotation
  <2>3. QED
    BY <1>3, <2>1, <2>2, TakenOverTurns DEF RotatesDoes, Turns
<1>4. ASSUME NEW kind \in {"login", "logout"}, UserBeginsDoes(kind)  PROVE TakenOver'
  <2>1. Main(generation + 1) \in Call /\ generation' = generation + 1
    BY <1>4, NextMain DEF UserBeginsDoes
  <2>2. Latest'.kind = kind /\ Latest'.at = "clear" /\ Latest'.then # "failed"
    BY <1>4, <2>1 DEF UserBeginsDoes, Turns, Latest
  <2>3. QED
    BY <2>2 DEF TakenOver
<1>5. CASE QuitDoes
  <2>1. Main(generation + 1) \in Call /\ generation' = generation + 1
    BY <1>5, NextMain DEF QuitDoes
  <2>2. Latest'.kind = "quit" /\ era' = 0
    BY <1>5, <2>1 DEF QuitDoes, Turns, Latest
  <2>3. QED
    BY <2>2 DEF TakenOver
<1>6. CASE RestartsDoes
  <2>1. PICK c \in Call : c = Main(generation + 1) /\ c[2] = generation + 1
    BY <1>6, NextMain DEF RestartsDoes, Main
  <2>2. \A d \in Call : Transits(d)' => d = c
    BY <1>6, <2>1 DEF RestartsDoes, Transits, Entries, Inside
  <2>3. QED
    BY <1>6, <2>1, <2>2 DEF RestartsDoes, TakenOver, Fresh
<1>7. CASE SessionEndsDoes
  BY <1>7 DEF SessionEndsDoes, TakenOver, Latest, Transits, Fresh, memory
<1>8. CASE LateRefreshDoes
  BY <1>8 DEF LateRefreshDoes, TakenOver, Latest, Transits, Fresh, memory
<1>9. ASSUME NEW c \in Call, SupersededDoes(c)  PROVE TakenOver'
  BY <1>9, TakenOverTurns, HeadTransits DEF SupersededDoes, Over, Turns, Transits, Entries, Inside
<1>10. ASSUME NEW c \in Call, ClearDoes(c)  PROVE TakenOver'
  BY <1>10, TakenOverTurns, HeadTransits DEF ClearDoes, Moves, Turns, Transits, Entries, Inside
<1>11. ASSUME NEW c \in Call, ForgetDoes(c)  PROVE TakenOver'
  BY <1>11, TakenOverTurns, HeadTransits DEF ForgetDoes, Moves, Over, Turns, Transits, Entries, Inside
<1>12. ASSUME NEW c \in Call, CloseDoes(c)  PROVE TakenOver'
  BY <1>12, TakenOverTurns, HeadTransits DEF CloseDoes, Moves, Over, Turns, Transits, Entries, Inside
<1>13. ASSUME NEW c \in Call, LoginAnsweredDoes(c)  PROVE TakenOver'
  BY <1>13, TakenOverTurns, HeadTransits DEF LoginAnsweredDoes, Over, Turns, Transits, Entries, Inside
<1>14. ASSUME NEW c \in Call, LoginFailsDoes(c)  PROVE TakenOver'
  BY <1>14, TakenOverTurns, HeadTransits DEF LoginFailsDoes, Moves, Over, Turns, Transits, Entries, Inside
<1>15. ASSUME NEW c \in Call, OpenTenantDoes(c)  PROVE TakenOver'
  BY <1>15, TakenOverTurns, HeadTransits DEF OpenTenantDoes, Moves, Turns, Transits, Entries, Inside
<1>16. ASSUME NEW c \in Call, LoadNothingDoes(c)  PROVE TakenOver'
  BY <1>16, TakenOverTurns, HeadTransits DEF LoadNothingDoes, Over, Turns, Transits, Entries, Inside
<1>17. ASSUME NEW c \in Call, LoadDoes(c)  PROVE TakenOver'
  BY <1>17, TakenOverTurns, HeadTransits DEF LoadDoes, Turns, Transits, Entries, Inside
<1>18. ASSUME NEW c \in Call, OpenedDoes(c)  PROVE TakenOver'
  BY <1>18, TakenOverTurns, HeadTransits DEF OpenedDoes, Moves, Turns, Transits, Entries, Inside
<1>19. ASSUME NEW c \in Call, RotationAnsweredDoes(c)  PROVE TakenOver'
  BY <1>19, TakenOverTurns, HeadTransits DEF RotationAnsweredDoes, Moves, Over, Turns, Asks, Goes, StageInv,
                                             Stage, Transits, Entries, Inside
<1>20. ASSUME NEW c \in Call, RotationGivenUpDoes(c)  PROVE TakenOver'
  BY <1>20, TakenOverTurns, HeadTransits DEF RotationGivenUpDoes, Moves, Over, Turns, Asks, Goes, StageInv,
                                             Stage, Transits, Entries, Inside
<1>21. ASSUME NEW c \in Call, ActivateDoes(c)  PROVE TakenOver'
  BY <1>21, TakenOverTurns, HeadTransits DEF ActivateDoes, Moves, Turns, Transits, Entries, Inside
<1>22. ASSUME NEW c \in Call, SavedDoes(c)  PROVE TakenOver'
  BY <1>22, TakenOverTurns, HeadTransits DEF SavedDoes, Moves, Turns, Transits, Entries, Inside
<1>23. ASSUME NEW c \in Call, SaveFailsDoes(c)  PROVE TakenOver'
  BY <1>23, TakenOverTurns, HeadTransits DEF SaveFailsDoes, Moves, Turns, Transits, Entries, Inside
<1>24. ASSUME NEW c \in Call, StartSyncDoes(c)  PROVE TakenOver'
  BY <1>24, TakenOverTurns, HeadTransits DEF StartSyncDoes, Over, Turns, Transits, Entries, Inside
<1>25. ASSUME NEW c \in Call, StartOfflineDoes(c)  PROVE TakenOver'
  BY <1>25, TakenOverTurns, HeadTransits DEF StartOfflineDoes, Over, Turns, StageInv, Stage, Transits, Entries, Inside
<1>26. ASSUME NEW c \in Call, PermissionsReadDoes(c)  PROVE TakenOver'
  BY <1>26, TakenOverTurns, HeadTransits DEF PermissionsReadDoes, Moves, Over, Turns, StageInv, Stage,
                                             Transits, Entries, Inside
<1>27. ASSUME NEW c \in Call, FailsDoes(c)  PROVE TakenOver'
  BY <1>27, TakenOverTurns, HeadTransits DEF FailsDoes, Moves, Over, Turns, Transits, Entries, Inside
<1>28. QED
  BY <1>1, <1>2, <1>3, <1>4, <1>5, <1>6, <1>7, <1>8, <1>9, <1>10, <1>11, <1>12, <1>13, <1>14, <1>15,
     <1>16, <1>17, <1>18, <1>19, <1>20, <1>21, <1>22, <1>23, <1>24, <1>25, <1>26, <1>27
     DEF Effects

-----------------------------------------------------------------------------
(* The rotation in progress, what is in memory and what is about to be.    *)

LEMMA NextRotation ==
  ASSUME TypeOK, StageInv, generation < MaxGeneration
  PROVE  /\ Rotation(generation + 1) \in Call /\ Rotation(generation + 1) # Main(generation + 1)
         /\ task[Rotation(generation + 1)].kind = "none"
<1>1. Rotation(generation + 1) \in Call /\ Rotation(generation + 1) # Main(generation + 1)
  BY NextMain, Calls DEF Rotation, Main
<1>2. Rotation(generation + 1)[2] > generation
  BY DEF Rotation, TypeOK
<1>3. QED
  BY <1>1, <1>2 DEF StageInv

LEMMA RotationStep ==
  ASSUME TypeOK, StageInv, RotationInv, Effects
  PROVE  RotationInv'
<1>1. CASE UNCHANGED vars
  BY <1>1, Calls DEF vars, RotationInv, TypeOK, StageInv, Rotation, Main, memory
<1>2. CASE CycleOnly
  BY <1>2, Calls DEF CycleOnly, RotationInv, TypeOK, StageInv, Rotation, Main, memory
<1>3. CASE RotatesDoes
  BY <1>3, Calls DEF RotatesDoes, Turns, RotationInv, TypeOK, StageInv, Rotation, Main
<1>4. ASSUME NEW kind \in {"login", "logout"}, UserBeginsDoes(kind)  PROVE RotationInv'
  BY <1>4, NextRotation DEF UserBeginsDoes, Turns, RotationInv
<1>5. CASE QuitDoes
  BY <1>5, NextRotation DEF QuitDoes, Turns, RotationInv
<1>6. CASE RestartsDoes
  BY <1>6, NextRotation DEF RestartsDoes, RotationInv
<1>7. CASE SessionEndsDoes
  BY <1>7, Calls DEF SessionEndsDoes, RotationInv, TypeOK, StageInv, Rotation, Main, memory
<1>8. CASE LateRefreshDoes
  BY <1>8, Calls DEF LateRefreshDoes, RotationInv, TypeOK, StageInv, Rotation, Main, memory
<1>9. ASSUME NEW c \in Call, SupersededDoes(c)  PROVE RotationInv'
  BY <1>9, Calls DEF SupersededDoes, Over, Turns, RotationInv, TypeOK, StageInv, Rotation, Main
<1>10. ASSUME NEW c \in Call, ClearDoes(c)  PROVE RotationInv'
  BY <1>10, Calls DEF ClearDoes, Moves, Turns, RotationInv, TypeOK, StageInv, Rotation, Main
<1>11. ASSUME NEW c \in Call, ForgetDoes(c)  PROVE RotationInv'
  BY <1>11, Calls DEF ForgetDoes, Moves, Over, Turns, RotationInv, TypeOK, StageInv, Rotation, Main
<1>12. ASSUME NEW c \in Call, CloseDoes(c)  PROVE RotationInv'
  BY <1>12, Calls DEF CloseDoes, Moves, Over, Turns, RotationInv, TypeOK, StageInv, Rotation, Main
<1>13. ASSUME NEW c \in Call, LoginAnsweredDoes(c)  PROVE RotationInv'
  BY <1>13, Calls DEF LoginAnsweredDoes, Over, Turns, RotationInv, TypeOK, StageInv, Rotation, Main
<1>14. ASSUME NEW c \in Call, LoginFailsDoes(c)  PROVE RotationInv'
  BY <1>14, Calls DEF LoginFailsDoes, Moves, Over, Turns, RotationInv, TypeOK, StageInv, Rotation, Main
<1>15. ASSUME NEW c \in Call, OpenTenantDoes(c)  PROVE RotationInv'
  BY <1>15, Calls DEF OpenTenantDoes, Moves, Turns, RotationInv, TypeOK, StageInv, Rotation, Main
<1>16. ASSUME NEW c \in Call, LoadNothingDoes(c)  PROVE RotationInv'
  BY <1>16, Calls DEF LoadNothingDoes, Over, Turns, RotationInv, TypeOK, StageInv, Rotation, Main
<1>17. ASSUME NEW c \in Call, LoadDoes(c)  PROVE RotationInv'
  BY <1>17, Calls DEF LoadDoes, Turns, RotationInv, TypeOK, StageInv, Rotation, Main
<1>18. ASSUME NEW c \in Call, OpenedDoes(c)  PROVE RotationInv'
  BY <1>18, Calls DEF OpenedDoes, Moves, Turns, RotationInv, TypeOK, StageInv, Rotation, Main
<1>19. ASSUME NEW c \in Call, RotationAnsweredDoes(c)  PROVE RotationInv'
  BY <1>19, Calls DEF RotationAnsweredDoes, Moves, Over, Turns, Asks, Goes, RotationInv, TypeOK, StageInv,
                      Rotation, Main
<1>20. ASSUME NEW c \in Call, RotationGivenUpDoes(c)  PROVE RotationInv'
  BY <1>20, Calls DEF RotationGivenUpDoes, Moves, Over, Turns, Asks, Goes, RotationInv, TypeOK, StageInv,
                      Rotation, Main
<1>21. ASSUME NEW c \in Call, ActivateDoes(c)  PROVE RotationInv'
  BY <1>21, Calls DEF ActivateDoes, Moves, Turns, RotationInv, TypeOK, StageInv, Rotation, Main
<1>22. ASSUME NEW c \in Call, SavedDoes(c)  PROVE RotationInv'
  BY <1>22, Calls DEF SavedDoes, Moves, Turns, RotationInv, TypeOK, StageInv, Rotation, Main
<1>23. ASSUME NEW c \in Call, SaveFailsDoes(c)  PROVE RotationInv'
  BY <1>23, Calls DEF SaveFailsDoes, Moves, Turns, RotationInv, TypeOK, StageInv, Rotation, Main
<1>24. ASSUME NEW c \in Call, StartSyncDoes(c)  PROVE RotationInv'
  BY <1>24, Calls DEF StartSyncDoes, Over, Turns, RotationInv, TypeOK, StageInv, Rotation, Main
<1>25. ASSUME NEW c \in Call, StartOfflineDoes(c)  PROVE RotationInv'
  BY <1>25, Calls DEF StartOfflineDoes, Over, Turns, RotationInv, TypeOK, StageInv, Rotation, Main
<1>26. ASSUME NEW c \in Call, PermissionsReadDoes(c)  PROVE RotationInv'
  BY <1>26, Calls DEF PermissionsReadDoes, Moves, Over, Turns, RotationInv, TypeOK, StageInv, Rotation, Main
<1>27. ASSUME NEW c \in Call, FailsDoes(c)  PROVE RotationInv'
  BY <1>27, Calls DEF FailsDoes, Moves, Over, Turns, RotationInv, TypeOK, StageInv, Rotation, Main
<1>28. QED
  BY <1>1, <1>2, <1>3, <1>4, <1>5, <1>6, <1>7, <1>8, <1>9, <1>10, <1>11, <1>12, <1>13, <1>14, <1>15,
     <1>16, <1>17, <1>18, <1>19, <1>20, <1>21, <1>22, <1>23, <1>24, <1>25, <1>26, <1>27
     DEF Effects

LEMMA MemoryStep ==
  ASSUME TypeOK, StageInv, QueueInv, MemoryInv, Effects
  PROVE  MemoryInv'
<1>1. CASE UNCHANGED vars
  BY <1>1 DEF vars, MemoryInv, memory
<1>2. CASE CycleOnly
  BY <1>2 DEF CycleOnly, MemoryInv, memory
<1>3. CASE RotatesDoes
  BY <1>3 DEF RotatesDoes, Turns, MemoryInv
<1>4. ASSUME NEW kind \in {"login", "logout"}, UserBeginsDoes(kind)  PROVE MemoryInv'
  BY <1>4 DEF UserBeginsDoes, Turns, MemoryInv
<1>5. CASE QuitDoes
  BY <1>5 DEF QuitDoes, Turns, MemoryInv
<1>6. CASE RestartsDoes
  BY <1>6 DEF RestartsDoes, MemoryInv
<1>7. CASE SessionEndsDoes
  BY <1>7 DEF SessionEndsDoes, MemoryInv, memory
<1>8. CASE LateRefreshDoes
  BY <1>8 DEF LateRefreshDoes, MemoryInv, memory
<1>9. ASSUME NEW c \in Call, SupersededDoes(c)  PROVE MemoryInv'
  BY <1>9 DEF SupersededDoes, Over, Turns, MemoryInv
<1>10. ASSUME NEW c \in Call, ClearDoes(c)  PROVE MemoryInv'
  BY <1>10 DEF ClearDoes, Moves, Turns, MemoryInv
<1>11. ASSUME NEW c \in Call, ForgetDoes(c)  PROVE MemoryInv'
  BY <1>11 DEF ForgetDoes, Moves, Over, Turns, MemoryInv
<1>12. ASSUME NEW c \in Call, CloseDoes(c)  PROVE MemoryInv'
  BY <1>12 DEF CloseDoes, Moves, Over, Turns, MemoryInv
<1>13. ASSUME NEW c \in Call, LoginAnsweredDoes(c)  PROVE MemoryInv'
  BY <1>13 DEF LoginAnsweredDoes, Over, Turns, MemoryInv
<1>14. ASSUME NEW c \in Call, LoginFailsDoes(c)  PROVE MemoryInv'
  BY <1>14 DEF LoginFailsDoes, Moves, Over, Turns, MemoryInv
<1>15. ASSUME NEW c \in Call, OpenTenantDoes(c)  PROVE MemoryInv'
  BY <1>15 DEF OpenTenantDoes, Moves, Turns, MemoryInv
<1>16. ASSUME NEW c \in Call, LoadNothingDoes(c)  PROVE MemoryInv'
  BY <1>16 DEF LoadNothingDoes, Over, Turns, MemoryInv
<1>17. ASSUME NEW c \in Call, LoadDoes(c)  PROVE MemoryInv'
  <2> SUFFICES ASSUME NEW d \in Call, task'[d].at \in {"clearing", "waiting", "load"}, task'[d].kind # "quit"
               PROVE  access' = NoToken /\ payload' = NoToken
    BY DEF MemoryInv
  <2>1. CASE d = c
    BY <1>17, <2>1 DEF LoadDoes, Moves, Turns
  <2>2. CASE d # c
    <3>1. task[d] = task'[d]
      BY <1>17, <2>2 DEF LoadDoes, Moves, Turns
    <3>2. IsHead(d) /\ IsHead(c)
      BY <1>17, <3>1, InsideIsHead DEF LoadDoes, Inside
    <3>3. QED
      BY <2>2, <3>2 DEF IsHead
  <2>3. QED
    BY <2>1, <2>2
<1>18. ASSUME NEW c \in Call, OpenedDoes(c)  PROVE MemoryInv'
  BY <1>18 DEF OpenedDoes, Moves, Turns, MemoryInv
<1>19. ASSUME NEW c \in Call, RotationAnsweredDoes(c)  PROVE MemoryInv'
  BY <1>19 DEF RotationAnsweredDoes, Moves, Over, Turns, Asks, Goes, MemoryInv
<1>20. ASSUME NEW c \in Call, RotationGivenUpDoes(c)  PROVE MemoryInv'
  BY <1>20 DEF RotationGivenUpDoes, Moves, Over, Turns, Asks, Goes, MemoryInv
<1>21. ASSUME NEW c \in Call, ActivateDoes(c)  PROVE MemoryInv'
  BY <1>21 DEF ActivateDoes, Moves, Turns, MemoryInv
<1>22. ASSUME NEW c \in Call, SavedDoes(c)  PROVE MemoryInv'
  <2> SUFFICES ASSUME NEW d \in Call, task'[d].at \in {"clearing", "waiting", "load"}, task'[d].kind # "quit"
               PROVE  access' = NoToken /\ payload' = NoToken
    BY DEF MemoryInv
  <2>1. CASE d = c
    BY <1>22, <2>1 DEF SavedDoes, Moves, Turns
  <2>2. CASE d # c
    <3>1. task[d] = task'[d]
      BY <1>22, <2>2 DEF SavedDoes, Moves, Turns
    <3>2. IsHead(d) /\ IsHead(c)
      BY <1>22, <3>1, InsideIsHead DEF SavedDoes, Inside
    <3>3. QED
      BY <2>2, <3>2 DEF IsHead
  <2>3. QED
    BY <2>1, <2>2
<1>23. ASSUME NEW c \in Call, SaveFailsDoes(c)  PROVE MemoryInv'
  BY <1>23 DEF SaveFailsDoes, Moves, Turns, MemoryInv
<1>24. ASSUME NEW c \in Call, StartSyncDoes(c)  PROVE MemoryInv'
  BY <1>24 DEF StartSyncDoes, Over, Turns, MemoryInv
<1>25. ASSUME NEW c \in Call, StartOfflineDoes(c)  PROVE MemoryInv'
  BY <1>25 DEF StartOfflineDoes, Over, Turns, MemoryInv
<1>26. ASSUME NEW c \in Call, PermissionsReadDoes(c)  PROVE MemoryInv'
  BY <1>26 DEF PermissionsReadDoes, Moves, Over, Turns, MemoryInv
<1>27. ASSUME NEW c \in Call, FailsDoes(c)  PROVE MemoryInv'
  BY <1>27 DEF FailsDoes, Moves, Over, Turns, MemoryInv
<1>28. QED
  BY <1>1, <1>2, <1>3, <1>4, <1>5, <1>6, <1>7, <1>8, <1>9, <1>10, <1>11, <1>12, <1>13, <1>14, <1>15,
     <1>16, <1>17, <1>18, <1>19, <1>20, <1>21, <1>22, <1>23, <1>24, <1>25, <1>26, <1>27
     DEF Effects

LEMMA ResultStep ==
  ASSUME TypeOK, StageInv, ResultInv, Effects
  PROVE  ResultInv'
<1>1. CASE UNCHANGED vars
  BY <1>1 DEF vars, ResultInv, Unsaved, memory
<1>2. CASE CycleOnly
  BY <1>2 DEF CycleOnly, ResultInv, Unsaved, memory
<1>3. CASE RotatesDoes
  BY <1>3 DEF RotatesDoes, Turns, ResultInv, Unsaved
<1>4. ASSUME NEW kind \in {"login", "logout"}, UserBeginsDoes(kind)  PROVE ResultInv'
  BY <1>4 DEF UserBeginsDoes, Turns, ResultInv, Unsaved
<1>5. CASE QuitDoes
  BY <1>5 DEF QuitDoes, Turns, ResultInv, Unsaved
<1>6. CASE RestartsDoes
  BY <1>6 DEF RestartsDoes, ResultInv, Unsaved
<1>7. CASE SessionEndsDoes
  BY <1>7 DEF SessionEndsDoes, ResultInv, Unsaved, memory
<1>8. CASE LateRefreshDoes
  BY <1>8 DEF LateRefreshDoes, ResultInv, Unsaved, memory
<1>9. ASSUME NEW c \in Call, SupersededDoes(c)  PROVE ResultInv'
  BY <1>9 DEF SupersededDoes, Over, Turns, ResultInv, Unsaved
<1>10. ASSUME NEW c \in Call, ClearDoes(c)  PROVE ResultInv'
  BY <1>10 DEF ClearDoes, Moves, Turns, ResultInv, Unsaved
<1>11. ASSUME NEW c \in Call, ForgetDoes(c)  PROVE ResultInv'
  BY <1>11 DEF ForgetDoes, Moves, Over, Turns, ResultInv, Unsaved
<1>12. ASSUME NEW c \in Call, CloseDoes(c)  PROVE ResultInv'
  BY <1>12 DEF CloseDoes, Moves, Over, Turns, ResultInv, Unsaved
<1>13. ASSUME NEW c \in Call, LoginAnsweredDoes(c)  PROVE ResultInv'
  BY <1>13 DEF LoginAnsweredDoes, Over, Turns, ResultInv, Unsaved
<1>14. ASSUME NEW c \in Call, LoginFailsDoes(c)  PROVE ResultInv'
  BY <1>14 DEF LoginFailsDoes, Moves, Over, Turns, ResultInv, Unsaved
<1>15. ASSUME NEW c \in Call, OpenTenantDoes(c)  PROVE ResultInv'
  BY <1>15 DEF OpenTenantDoes, Moves, Turns, ResultInv, Unsaved
<1>16. ASSUME NEW c \in Call, LoadNothingDoes(c)  PROVE ResultInv'
  BY <1>16 DEF LoadNothingDoes, Over, Turns, ResultInv, Unsaved
<1>17. ASSUME NEW c \in Call, LoadDoes(c)  PROVE ResultInv'
  <2>1. task[c].kind # "login"
    BY <1>17 DEF LoadDoes, StageInv, Stage, Clearing
  <2>2. QED
    BY <1>17, <2>1 DEF LoadDoes, Turns, ResultInv, Unsaved
<1>18. ASSUME NEW c \in Call, OpenedDoes(c)  PROVE ResultInv'
  BY <1>18 DEF OpenedDoes, Moves, Turns, ResultInv, Unsaved
<1>19. ASSUME NEW c \in Call, RotationAnsweredDoes(c)  PROVE ResultInv'
  BY <1>19 DEF RotationAnsweredDoes, Moves, Over, Turns, Asks, Goes, ResultInv, Unsaved
<1>20. ASSUME NEW c \in Call, RotationGivenUpDoes(c)  PROVE ResultInv'
  BY <1>20 DEF RotationGivenUpDoes, Moves, Over, Turns, Asks, Goes, ResultInv, Unsaved
<1>21. ASSUME NEW c \in Call, ActivateDoes(c)  PROVE ResultInv'
  <2>1. task[c].kind # "login" /\ Unsaved(c)
    BY <1>21 DEF ActivateDoes, StageInv, Stage, Clearing, Unsaved
  <2>2. QED
    BY <1>21, <2>1 DEF ActivateDoes, Moves, Turns, ResultInv, Unsaved
<1>22. ASSUME NEW c \in Call, SavedDoes(c)  PROVE ResultInv'
  BY <1>22 DEF SavedDoes, Moves, Turns, ResultInv, Unsaved
<1>23. ASSUME NEW c \in Call, SaveFailsDoes(c)  PROVE ResultInv'
  BY <1>23 DEF SaveFailsDoes, Moves, Turns, ResultInv, Unsaved
<1>24. ASSUME NEW c \in Call, StartSyncDoes(c)  PROVE ResultInv'
  BY <1>24 DEF StartSyncDoes, Over, Turns, ResultInv, Unsaved
<1>25. ASSUME NEW c \in Call, StartOfflineDoes(c)  PROVE ResultInv'
  BY <1>25 DEF StartOfflineDoes, Over, Turns, ResultInv, Unsaved
<1>26. ASSUME NEW c \in Call, PermissionsReadDoes(c)  PROVE ResultInv'
  BY <1>26 DEF PermissionsReadDoes, Moves, Over, Turns, ResultInv, Unsaved
<1>27. ASSUME NEW c \in Call, FailsDoes(c)  PROVE ResultInv'
  BY <1>27 DEF FailsDoes, Moves, Over, Turns, ResultInv, Unsaved
<1>28. QED
  BY <1>1, <1>2, <1>3, <1>4, <1>5, <1>6, <1>7, <1>8, <1>9, <1>10, <1>11, <1>12, <1>13, <1>14, <1>15,
     <1>16, <1>17, <1>18, <1>19, <1>20, <1>21, <1>22, <1>23, <1>24, <1>25, <1>26, <1>27
     DEF Effects

LEMMA TokenStep ==
  ASSUME TypeOK, StageInv, QueueInv, MemoryInv, TokenIsSaved, Effects
  PROVE  TokenIsSaved'
<1>1. CASE UNCHANGED vars
  BY <1>1 DEF vars, TokenIsSaved, memory, outside
<1>2. CASE CycleOnly
  BY <1>2 DEF CycleOnly, TokenIsSaved, memory, outside
<1>3. CASE RotatesDoes
  BY <1>3 DEF RotatesDoes, Turns, TokenIsSaved, outside
<1>4. ASSUME NEW kind \in {"login", "logout"}, UserBeginsDoes(kind)  PROVE TokenIsSaved'
  BY <1>4 DEF UserBeginsDoes, Turns, TokenIsSaved, outside
<1>5. CASE QuitDoes
  BY <1>5 DEF QuitDoes, Turns, TokenIsSaved, outside
<1>6. CASE RestartsDoes
  BY <1>6 DEF RestartsDoes, TokenIsSaved
<1>7. CASE SessionEndsDoes
  BY <1>7 DEF SessionEndsDoes, TokenIsSaved, memory
<1>8. CASE LateRefreshDoes
  BY <1>8 DEF LateRefreshDoes, TokenIsSaved, memory
<1>9. ASSUME NEW c \in Call, SupersededDoes(c)  PROVE TokenIsSaved'
  BY <1>9 DEF SupersededDoes, Over, Turns, TokenIsSaved
<1>10. ASSUME NEW c \in Call, ClearDoes(c)  PROVE TokenIsSaved'
  BY <1>10 DEF ClearDoes, Moves, Turns, TokenIsSaved, outside
<1>11. ASSUME NEW c \in Call, ForgetDoes(c)  PROVE TokenIsSaved'
  <2>1. access = NoToken
    BY <1>11, HeadTransits DEF ForgetDoes, MemoryInv, Transits
  <2>2. QED
    BY <1>11, <2>1 DEF ForgetDoes, TokenIsSaved
<1>12. ASSUME NEW c \in Call, CloseDoes(c)  PROVE TokenIsSaved'
  BY <1>12 DEF CloseDoes, Moves, Over, Turns, TokenIsSaved, outside
<1>13. ASSUME NEW c \in Call, LoginAnsweredDoes(c)  PROVE TokenIsSaved'
  BY <1>13 DEF LoginAnsweredDoes, Over, Turns, TokenIsSaved
<1>14. ASSUME NEW c \in Call, LoginFailsDoes(c)  PROVE TokenIsSaved'
  BY <1>14 DEF LoginFailsDoes, Moves, Over, Turns, TokenIsSaved, outside
<1>15. ASSUME NEW c \in Call, OpenTenantDoes(c)  PROVE TokenIsSaved'
  BY <1>15 DEF OpenTenantDoes, Moves, Turns, TokenIsSaved, outside
<1>16. ASSUME NEW c \in Call, LoadNothingDoes(c)  PROVE TokenIsSaved'
  BY <1>16 DEF LoadNothingDoes, Over, Turns, TokenIsSaved, outside
<1>17. ASSUME NEW c \in Call, LoadDoes(c)  PROVE TokenIsSaved'
  <2>1. access = NoToken
    BY <1>17, HeadTransits DEF LoadDoes, MemoryInv, Transits
  <2>2. QED
    BY <1>17, <2>1 DEF LoadDoes, TokenIsSaved
<1>18. ASSUME NEW c \in Call, OpenedDoes(c)  PROVE TokenIsSaved'
  BY <1>18 DEF OpenedDoes, Moves, Turns, TokenIsSaved, outside
<1>19. ASSUME NEW c \in Call, RotationAnsweredDoes(c)  PROVE TokenIsSaved'
  BY <1>19 DEF RotationAnsweredDoes, Moves, Over, Turns, Asks, Goes, TokenIsSaved
<1>20. ASSUME NEW c \in Call, RotationGivenUpDoes(c)  PROVE TokenIsSaved'
  BY <1>20 DEF RotationGivenUpDoes, Moves, Over, Turns, Asks, Goes, TokenIsSaved
<1>21. ASSUME NEW c \in Call, ActivateDoes(c)  PROVE TokenIsSaved'
  BY <1>21 DEF ActivateDoes, Moves, Turns, TokenIsSaved, outside
<1>22. ASSUME NEW c \in Call, SavedDoes(c)  PROVE TokenIsSaved'
  <2>1. task[c].next.n \in Nat
    BY DEF TypeOK, TaskType, Token
  <2>2. QED
    BY <1>22, <2>1 DEF SavedDoes, TokenIsSaved
<1>23. ASSUME NEW c \in Call, SaveFailsDoes(c)  PROVE TokenIsSaved'
  BY <1>23 DEF SaveFailsDoes, Moves, Turns, TokenIsSaved
<1>24. ASSUME NEW c \in Call, StartSyncDoes(c)  PROVE TokenIsSaved'
  BY <1>24 DEF StartSyncDoes, Over, Turns, TokenIsSaved, outside
<1>25. ASSUME NEW c \in Call, StartOfflineDoes(c)  PROVE TokenIsSaved'
  BY <1>25 DEF StartOfflineDoes, Over, Turns, TokenIsSaved, outside
<1>26. ASSUME NEW c \in Call, PermissionsReadDoes(c)  PROVE TokenIsSaved'
  BY <1>26 DEF PermissionsReadDoes, Moves, Over, Turns, TokenIsSaved
<1>27. ASSUME NEW c \in Call, FailsDoes(c)  PROVE TokenIsSaved'
  BY <1>27 DEF FailsDoes, Moves, Over, Turns, TokenIsSaved
<1>28. QED
  BY <1>1, <1>2, <1>3, <1>4, <1>5, <1>6, <1>7, <1>8, <1>9, <1>10, <1>11, <1>12, <1>13, <1>14, <1>15,
     <1>16, <1>17, <1>18, <1>19, <1>20, <1>21, <1>22, <1>23, <1>24, <1>25, <1>26, <1>27
     DEF Effects

-----------------------------------------------------------------------------
(* The start of the application.                                           *)

LEMMA StartTurns ==
  ASSUME TypeOK, StartInv, NEW c \in Call, generation' = generation,
         \A d \in Call \ {c} : task'[d] = task[d],
         task[c].kind # "none", task'[c].kind \in {task[c].kind, "none"},
         task'[c].kind = "restore" /\ task'[c].at # "starting_offline" =>
           /\ task[c].at # "starting_offline"
           /\ state' = state \/ state' # "OFFLINE_SESSION_PENDING"
           /\ \A e \in Engine : Unused(e) => Unused(e)'
  PROVE  StartInv'
<1> SUFFICES ASSUME Latest'.kind = "restore"  PROVE StartInv'
  BY DEF StartInv
<1>1. Main(generation) \in Call /\ Rotation(generation) \in Call /\ Main(generation) # Rotation(generation)
  BY Calls DEF TypeOK, Main, Rotation
<1>2. Latest.kind = "restore"
  BY <1>1 DEF Latest
<1>3. \A d \in Call : task'[d].kind # "none" => Fresh(d)'
  BY <1>2 DEF StartInv, Fresh
<1>4. CASE c = Main(generation)
  BY <1>1, <1>2, <1>3, <1>4 DEF StartInv, Latest
<1>5. CASE c # Main(generation)
  <2>1. c = Rotation(generation)
    BY <1>2, <1>5, Calls DEF StartInv, Fresh
  <2>2. Latest.at = "starting_offline" /\ Latest' = Latest
    BY <1>1, <1>2, <1>5, <2>1 DEF StartInv, Latest
  <2>3. QED
    BY <1>3, <2>2 DEF StartInv
<1>6. QED
  BY <1>4, <1>5

LEMMA StartStep ==
  ASSUME TypeOK, StageInv, QueueInv, StartInv, Effects
  PROVE  StartInv'
<1>1. CASE UNCHANGED vars
  BY <1>1 DEF StartInv, Latest, Fresh, Unused, Running, memory, runtime, vars
<1>2. CASE CycleOnly
  BY <1>2 DEF CycleOnly, Cycles, StartInv, Latest, Fresh, Unused, Running, memory
<1>3. CASE RotatesDoes
  <2>1. /\ Main(generation) \in Call /\ Rotation(generation) \in Call
        /\ Main(generation) # Rotation(generation) /\ Fresh(Rotation(generation))
    BY Calls DEF TypeOK, Main, Rotation, Fresh
  <2>2. Latest' = Latest
    BY <1>3, <2>1 DEF RotatesDoes, Turns, Latest
  <2>3. Latest.kind = "restore" => Latest.at = "starting_offline"
    BY <1>3 DEF RotatesDoes, StartInv
  <2>4. Latest.kind = "restore" => \A d \in Call : task'[d].kind # "none" => Fresh(d)'
    BY <1>3, <2>1 DEF RotatesDoes, Turns, StartInv, Fresh
  <2>5. QED
    BY <2>2, <2>3, <2>4 DEF StartInv
<1>4. ASSUME NEW kind \in {"login", "logout"}, UserBeginsDoes(kind)  PROVE StartInv'
  <2>1. Main(generation + 1) \in Call /\ generation' = generation + 1
    BY <1>4, NextMain DEF UserBeginsDoes
  <2>2. Latest'.kind # "restore"
    BY <1>4, <2>1 DEF UserBeginsDoes, Turns, Latest
  <2>3. QED
    BY <2>2 DEF StartInv
<1>5. CASE QuitDoes
  <2>1. Main(generation + 1) \in Call /\ generation' = generation + 1
    BY <1>5, NextMain DEF QuitDoes
  <2>2. Latest'.kind # "restore"
    BY <1>5, <2>1 DEF QuitDoes, Turns, Latest
  <2>3. QED
    BY <2>2 DEF StartInv
<1>6. CASE RestartsDoes
  <2>1. Main(generation + 1) \in Call /\ generation' = generation + 1
    BY <1>6, NextMain DEF RestartsDoes
  <2>2. \A d \in Call : task'[d].kind # "none" => Fresh(d)'
    BY <1>6 DEF RestartsDoes, Fresh, Main
  <2>3. task'[Rotation(generation')].kind = "none"
    BY <1>6, <2>1, NextRotation DEF RestartsDoes
  <2>4. QED
    BY <1>6, <2>2, <2>3 DEF RestartsDoes, StartInv
<1>7. CASE SessionEndsDoes
  BY <1>7 DEF SessionEndsDoes, StartInv, Latest, Fresh, Unused, Running, memory, runtime
<1>8. CASE LateRefreshDoes
  BY <1>8 DEF LateRefreshDoes, StartInv, Latest, Fresh, Unused, Running, memory, runtime
<1>9. ASSUME NEW c \in Call, SupersededDoes(c)  PROVE StartInv'
  BY <1>9, StartTurns, HeadTransits DEF SupersededDoes, Over, Turns, Transits, StageInv, Stage, Entries, Inside
<1>10. ASSUME NEW c \in Call, ClearDoes(c)  PROVE StartInv'
  BY <1>10, StartTurns DEF ClearDoes, Moves, Turns, StageInv, Stage, Clearing, runtime, Unused, Running
<1>11. ASSUME NEW c \in Call, ForgetDoes(c)  PROVE StartInv'
  BY <1>11, StartTurns DEF ForgetDoes, Moves, Over, Turns, DroppedOnly, StageInv, Stage, Clearing, Unused, Running
<1>12. ASSUME NEW c \in Call, CloseDoes(c)  PROVE StartInv'
  BY <1>12, StartTurns DEF CloseDoes, Moves, Over, Turns, Woken, StageInv, Stage, Clearing, Unused, Running
<1>13. ASSUME NEW c \in Call, LoginAnsweredDoes(c)  PROVE StartInv'
  BY <1>13, StartTurns DEF LoginAnsweredDoes, Over, Turns, Woken, StageInv, Stage, Clearing, Unused, Running
<1>14. ASSUME NEW c \in Call, LoginFailsDoes(c)  PROVE StartInv'
  BY <1>14, StartTurns DEF LoginFailsDoes, Moves, Over, Turns, Woken, StageInv, Stage, Clearing, Unused, Running
<1>15. ASSUME NEW c \in Call, OpenTenantDoes(c)  PROVE StartInv'
  BY <1>15, StartTurns DEF OpenTenantDoes, Moves, Turns, StageInv, Stage, Clearing, Unused, Running
<1>16. ASSUME NEW c \in Call, LoadNothingDoes(c)  PROVE StartInv'
  BY <1>16, StartTurns DEF LoadNothingDoes, Over, Turns, StageInv, Stage, Clearing
<1>17. ASSUME NEW c \in Call, LoadDoes(c)  PROVE StartInv'
  BY <1>17, StartTurns DEF LoadDoes, Turns, StageInv, Stage, Clearing, Unused, Running
<1>18. ASSUME NEW c \in Call, OpenedDoes(c)  PROVE StartInv'
  BY <1>18, StartTurns DEF OpenedDoes, Moves, Turns, StageInv, Stage, Clearing, runtime, Unused, Running
<1>19. ASSUME NEW c \in Call, RotationAnsweredDoes(c)  PROVE StartInv'
  BY <1>19, StartTurns DEF RotationAnsweredDoes, Moves, Over, Turns, Asks, Goes, StageInv, Stage, Clearing,
                           Unused, Running
<1>20. ASSUME NEW c \in Call, RotationGivenUpDoes(c)  PROVE StartInv'
  BY <1>20, StartTurns DEF RotationGivenUpDoes, Moves, Over, Turns, Asks, Goes, StageInv, Stage, Clearing,
                           Unused, Running
<1>21. ASSUME NEW c \in Call, ActivateDoes(c)  PROVE StartInv'
  BY <1>21, StartTurns DEF ActivateDoes, Moves, Turns, StageInv, Stage, Clearing, runtime, Unused, Running
<1>22. ASSUME NEW c \in Call, SavedDoes(c)  PROVE StartInv'
  BY <1>22, StartTurns DEF SavedDoes, Moves, Turns, StageInv, Stage, Clearing, runtime, Unused, Running
<1>23. ASSUME NEW c \in Call, SaveFailsDoes(c)  PROVE StartInv'
  BY <1>23, StartTurns DEF SaveFailsDoes, Moves, Turns, StageInv, Stage, Clearing, runtime, Unused, Running
<1>24. ASSUME NEW c \in Call, StartSyncDoes(c)  PROVE StartInv'
  BY <1>24, StartTurns DEF StartSyncDoes, Over, Turns, StageInv, Stage, Clearing
<1>25. ASSUME NEW c \in Call, StartOfflineDoes(c)  PROVE StartInv'
  BY <1>25, StartTurns DEF StartOfflineDoes, Over, Turns, StageInv, Stage, Clearing
<1>26. ASSUME NEW c \in Call, PermissionsReadDoes(c)  PROVE StartInv'
  BY <1>26, StartTurns DEF PermissionsReadDoes, Moves, Over, Turns, StageInv, Stage, Clearing, Unused, Running
<1>27. ASSUME NEW c \in Call, FailsDoes(c)  PROVE StartInv'
  BY <1>27, StartTurns, HeadTransits DEF FailsDoes, Moves, Over, Turns, Transits, StageInv, Stage, Clearing,
                                         Unused, Running
<1>28. QED
  BY <1>1, <1>2, <1>3, <1>4, <1>5, <1>6, <1>7, <1>8, <1>9, <1>10, <1>11, <1>12, <1>13, <1>14, <1>15,
     <1>16, <1>17, <1>18, <1>19, <1>20, <1>21, <1>22, <1>23, <1>24, <1>25, <1>26, <1>27
     DEF Effects

-----------------------------------------------------------------------------
(* Sessions.                                                               *)

LEMMA TokenTypes ==
  ASSUME TypeOK
  PROVE  /\ generation \in Nat /\ era \in {0, generation} /\ NoToken.session = 0
         /\ payload.session \in Nat /\ store.session \in Nat /\ payload.n \in Nat /\ store.n \in Nat
         /\ payload.session \in Session /\ store.session \in Session
         /\ \A c \in Call : /\ task[c].from.session \in Session /\ task[c].from.session \in Nat
                            /\ task[c].from.n \in Nat
                            /\ task[c].next.session \in Nat /\ c[2] \in Nat
<1>1. Session \subseteq Nat
  BY Constants DEF Session
<1>2. generation \in Nat /\ era \in {0, generation} /\ NoToken.session = 0
  BY Constants DEF TypeOK
<1>3. \A token \in Token : token.session \in Session /\ token.n \in Nat
  BY DEF Token
<1>4. payload \in Token /\ store \in Token
  BY DEF TypeOK
<1>5. \A c \in Call : task[c].from \in Token /\ task[c].next \in Token /\ c[2] \in Nat
  BY Calls DEF TypeOK, TaskType
<1>6. QED
  BY <1>1, <1>2, <1>3, <1>4, <1>5

\* A step of one call, within its generation.
LEMMA SessionTurns ==
  ASSUME TypeOK, SessionInv, NEW c \in Call, generation' = generation, era' = era,
         \A d \in Call \ {c} : task'[d] = task[d],
         payload' # NoToken => payload'.session \in era .. generation,
         store'.session <= generation,
         store' # NoToken /\ store'.session < era => Latest'.at \in {"clear", "clearing"},
         Uses(c)' => task'[c].from.session <= generation /\ (Fresh(c) => task'[c].from.session >= era)
  PROVE  SessionInv'
<1>1. ASSUME NEW d \in Call, Uses(d)'
      PROVE  task'[d].from.session <= generation' /\ (Fresh(d)' => task'[d].from.session >= era')
  <2>1. CASE d = c
    BY <1>1, <2>1 DEF Fresh
  <2>2. CASE d # c
    BY <1>1, <2>2 DEF SessionInv, Uses, Fresh
  <2>3. QED
    BY <2>1, <2>2
<1>2. QED
  BY <1>1 DEF SessionInv

LEMMA SessionKeeps ==
  ASSUME TypeOK, SessionInv, NEW c \in Call, generation' = generation, era' = era,
         \A d \in Call \ {c} : task'[d] = task[d],
         payload' \in {payload, NoToken}, store' \in {store, NoToken},
         \/ store' = NoToken
         \/ c # Main(generation)
         \/ task[c].at \notin {"clear", "clearing"}
         \/ task'[c].at \in {"clear", "clearing"},
         Uses(c)' => Uses(c) /\ task'[c].from = task[c].from
  PROVE  SessionInv'
<1>1. store'.session <= generation
  BY TokenTypes DEF SessionInv
<1>2. ASSUME store' # NoToken, store'.session < era  PROVE Latest'.at \in {"clear", "clearing"}
  <2>1. store' = store /\ Latest.at \in {"clear", "clearing"} /\ Main(generation) \in Call
    BY <1>2, Calls DEF SessionInv, TypeOK
  <2>2. QED
    BY <1>2, <2>1 DEF Latest
<1>3. Uses(c)' => task'[c].from.session <= generation /\ (Fresh(c) => task'[c].from.session >= era)
  BY DEF SessionInv
<1>4. QED
  BY <1>1, <1>2, <1>3, SessionTurns DEF SessionInv

LEMMA SessionStep ==
  ASSUME TypeOK, StageInv, QueueInv, TakenOver, ResultInv, SessionInv, Effects
  PROVE  SessionInv'
<1>1. CASE UNCHANGED vars
  BY <1>1 DEF vars, SessionInv, Uses, Fresh, Latest, memory, outside
<1>2. CASE CycleOnly
  BY <1>2 DEF CycleOnly, SessionInv, Uses, Fresh, Latest, memory, outside
<1>3. CASE RotatesDoes
  <2>1. PICK c \in Call : c = Rotation(generation) /\ c # Main(generation)
    BY Calls DEF TypeOK, Main, Rotation
  <2>2. task'[c].from = payload /\ payload.session \in era .. generation /\ \A d \in Call \ {c} : task'[d] = task[d]
    BY <1>3, <2>1 DEF RotatesDoes, Turns, SessionInv
  <2>3. UNCHANGED <<generation, era, payload, store, Latest>>
    BY <1>3, <2>1, <2>2, Calls DEF RotatesDoes, outside, Latest, TypeOK
  <2>4. QED
    BY <2>2, <2>3, SessionTurns, TokenTypes DEF SessionInv
<1>4. ASSUME NEW kind \in {"login", "logout"}, UserBeginsDoes(kind)  PROVE SessionInv'
  <2>1. PICK c \in Call : c = Main(generation + 1)
    BY <1>4, NextMain DEF UserBeginsDoes
  <2>2. /\ generation' = generation + 1 /\ payload' = NoToken /\ store' = store
        /\ Latest'.at = "clear" /\ ~Uses(c)' /\ \A d \in Call \ {c} : task'[d] = task[d]
    BY <1>4, <2>1 DEF UserBeginsDoes, outside, Turns, Latest, Uses
  <2>3. ASSUME NEW d \in Call, Uses(d)'
        PROVE  task'[d].from.session <= generation' /\ (Fresh(d)' => task'[d].from.session >= era')
    <3>1. d # c /\ task'[d] = task[d] /\ Uses(d)
      BY <2>2, <2>3 DEF Uses
    <3>2. ~Fresh(d)'
      BY <2>1, <2>2, <3>1 DEF StageInv, Uses, Fresh, TypeOK
    <3>3. QED
      BY <2>2, <3>1, <3>2, TokenTypes DEF SessionInv
  <2>4. store'.session <= generation'
    BY <2>2, TokenTypes DEF SessionInv
  <2>5. QED
    BY <2>2, <2>3, <2>4 DEF SessionInv
<1>5. CASE QuitDoes
  <2>1. PICK c \in Call : c = Main(generation + 1)
    BY <1>5, NextMain DEF QuitDoes
  <2>2. /\ generation' = generation + 1 /\ payload' = NoToken /\ store' = store /\ era' = 0
        /\ ~Uses(c)' /\ \A d \in Call \ {c} : task'[d] = task[d]
    BY <1>5, <2>1 DEF QuitDoes, outside, Turns, Uses
  <2>3. ASSUME NEW d \in Call, Uses(d)'
        PROVE  task'[d].from.session <= generation' /\ task'[d].from.session >= 0
    <3>1. d # c /\ task'[d] = task[d] /\ Uses(d)
      BY <2>2, <2>3 DEF Uses
    <3>2. QED
      BY <2>2, <3>1, TokenTypes DEF SessionInv
  <2>4. store'.session <= generation' /\ ~(store'.session < era')
    BY <2>2, TokenTypes DEF SessionInv
  <2>5. QED
    BY <2>2, <2>3, <2>4 DEF SessionInv
<1>6. CASE RestartsDoes
  <2>1. generation' = generation + 1 /\ payload' = NoToken /\ store' = store /\ era' = 0 /\ \A d \in Call : ~Uses(d)'
    BY <1>6 DEF RestartsDoes, Uses
  <2>2. store'.session <= generation' /\ ~(store'.session < era')
    BY <2>1, TokenTypes DEF SessionInv
  <2>3. QED
    BY <2>1, <2>2 DEF SessionInv
<1>7. CASE SessionEndsDoes
  BY <1>7 DEF SessionEndsDoes, SessionInv, Uses, Fresh, Latest, memory
<1>8. CASE LateRefreshDoes
  BY <1>8 DEF LateRefreshDoes, SessionInv, Uses, Fresh, Latest, memory
<1>9. ASSUME NEW c \in Call, SupersededDoes(c)  PROVE SessionInv'
  BY <1>9, SessionKeeps DEF SupersededDoes, Over, Turns, Fresh, Main, Uses
<1>10. ASSUME NEW c \in Call, ClearDoes(c)  PROVE SessionInv'
  BY <1>10, SessionKeeps DEF ClearDoes, Moves, Turns, Uses, outside
<1>11. ASSUME NEW c \in Call, ForgetDoes(c)  PROVE SessionInv'
  BY <1>11, SessionKeeps DEF ForgetDoes, Moves, Over, Turns, Uses
<1>12. ASSUME NEW c \in Call, CloseDoes(c)  PROVE SessionInv'
  BY <1>12, SessionKeeps DEF CloseDoes, Moves, Over, Turns, StageInv, Uses, outside
<1>13. ASSUME NEW c \in Call, LoginAnsweredDoes(c)  PROVE SessionInv'
  BY <1>13, SessionKeeps DEF LoginAnsweredDoes, Over, Turns, Uses
<1>14. ASSUME NEW c \in Call, LoginFailsDoes(c)  PROVE SessionInv'
  BY <1>14, SessionKeeps DEF LoginFailsDoes, Moves, Over, Turns, Uses, outside
<1>15. ASSUME NEW c \in Call, OpenTenantDoes(c)  PROVE SessionInv'
  BY <1>15, SessionKeeps DEF OpenTenantDoes, Moves, Turns, StageInv, Stage, Clearing, Uses, outside
<1>16. ASSUME NEW c \in Call, LoadNothingDoes(c)  PROVE SessionInv'
  BY <1>16, SessionKeeps DEF LoadNothingDoes, Over, Turns, Uses, outside
<1>17. ASSUME NEW c \in Call, LoadDoes(c)  PROVE SessionInv'
  <2>1. task[c].kind = "restore" /\ c = Main(generation)
    BY <1>17, Calls DEF LoadDoes, StageInv, Stage, Clearing, Fresh, Main, Rotation
  <2>2. era = 0
    BY <2>1 DEF TakenOver, Latest
  <2>3. /\ UNCHANGED <<generation, era, store>> /\ payload' = store /\ task'[c].from = store
        /\ \A d \in Call \ {c} : task'[d] = task[d]
    BY <1>17 DEF LoadDoes, Turns, outside
  <2>4. store.session \in era .. generation
    BY <2>2, TokenTypes DEF SessionInv
  <2>5. QED
    BY <2>2, <2>3, <2>4, SessionTurns, TokenTypes
<1>18. ASSUME NEW c \in Call, OpenedDoes(c)  PROVE SessionInv'
  BY <1>18, SessionKeeps DEF OpenedDoes, Moves, Turns, Uses, outside
<1>19. ASSUME NEW c \in Call, RotationAnsweredDoes(c)  PROVE SessionInv'
  BY <1>19, SessionKeeps DEF RotationAnsweredDoes, Moves, Over, Turns, Asks, Goes, Uses
<1>20. ASSUME NEW c \in Call, RotationGivenUpDoes(c)  PROVE SessionInv'
  BY <1>20, SessionKeeps DEF RotationGivenUpDoes, Moves, Over, Turns, Asks, Goes, Uses
<1>21. ASSUME NEW c \in Call, ActivateDoes(c)  PROVE SessionInv'
  BY <1>21, SessionKeeps DEF ActivateDoes, Moves, Turns, Uses, outside
<1>22. ASSUME NEW c \in Call, SavedDoes(c)  PROVE SessionInv'
  <2>1. task[c].next.session <= generation /\ (Fresh(c) => task[c].next.session >= era)
    <3>1. CASE task[c].kind = "login"
      <4>1. task[c].next = First(c[2]) /\ c[2] <= generation
        BY <1>22, <3>1, TokenTypes DEF SavedDoes, ResultInv, StageInv
      <4>2. QED
        BY <4>1, TokenTypes DEF First, Fresh
    <3>2. CASE task[c].kind # "login"
      <4>1. Uses(c) /\ task[c].next = Second(task[c].from)
        BY <1>22, <3>2 DEF SavedDoes, ResultInv, Unsaved, Uses, StageInv, Stage, Clearing
      <4>2. Second(task[c].from).session = task[c].from.session
        BY Tokens DEF TypeOK, TaskType
      <4>3. QED
        BY <4>1, <4>2 DEF SessionInv
    <3>3. QED
      BY <3>1, <3>2
  <2>2. ASSUME ~Fresh(c)  PROVE era = 0 \/ Latest'.at = "clear"
    <3>1. Transits(c) /\ c # Main(generation) /\ Main(generation) \in Call
      BY <1>22, <2>2, HeadTransits, Calls DEF SavedDoes, Fresh, Main, TypeOK
    <3>2. Latest' = Latest
      BY <1>22, <3>1 DEF SavedDoes, Moves, Turns, Latest
    <3>3. QED
      BY <2>2, <3>1, <3>2 DEF TakenOver
  <2>3. /\ UNCHANGED <<generation, era>> /\ store' = task[c].next /\ ~Uses(c)'
        /\ payload' \in {task[c].next, NoToken} /\ (payload' # NoToken => Fresh(c))
        /\ \A d \in Call \ {c} : task'[d] = task[d]
    BY <1>22 DEF SavedDoes, Moves, Turns, Uses
  <2>4. ASSUME store' # NoToken, store'.session < era  PROVE Latest'.at \in {"clear", "clearing"}
    BY <2>1, <2>2, <2>3, <2>4, TokenTypes
  <2>5. payload' # NoToken => payload'.session \in era .. generation
    BY <2>1, <2>3, TokenTypes
  <2>6. store'.session <= generation
    BY <2>1, <2>3
  <2>7. QED
    BY <2>3, <2>4, <2>5, <2>6, SessionTurns
<1>23. ASSUME NEW c \in Call, SaveFailsDoes(c)  PROVE SessionInv'
  BY <1>23, SessionKeeps DEF SaveFailsDoes, Moves, Turns, Uses
<1>24. ASSUME NEW c \in Call, StartSyncDoes(c)  PROVE SessionInv'
  BY <1>24, SessionKeeps DEF StartSyncDoes, Over, Turns, Uses, outside
<1>25. ASSUME NEW c \in Call, StartOfflineDoes(c)  PROVE SessionInv'
  BY <1>25, SessionKeeps DEF StartOfflineDoes, Over, Turns, Uses, outside
<1>26. ASSUME NEW c \in Call, PermissionsReadDoes(c)  PROVE SessionInv'
  BY <1>26, SessionKeeps DEF PermissionsReadDoes, Moves, Over, Turns, Uses
<1>27. ASSUME NEW c \in Call, FailsDoes(c)  PROVE SessionInv'
  BY <1>27, SessionKeeps DEF FailsDoes, Moves, Over, Turns, Fresh, Main, Uses
<1>28. QED
  BY <1>1, <1>2, <1>3, <1>4, <1>5, <1>6, <1>7, <1>8, <1>9, <1>10, <1>11, <1>12, <1>13, <1>14, <1>15,
     <1>16, <1>17, <1>18, <1>19, <1>20, <1>21, <1>22, <1>23, <1>24, <1>25, <1>26, <1>27
     DEF Effects

-----------------------------------------------------------------------------
(* Who uses which session.                                                 *)

LEMMA UserKeeps ==
  ASSUME OneUser, NEW c \in Call, generation' = generation,
         \A d \in Call \ {c} : task'[d] = task[d],
         payload' \in {payload, NoToken},
         Uses(c)' => Uses(c) /\ task'[c].from = task[c].from
  PROVE  OneUser'
<1>1. \A d \in Call : Uses(d)' => Uses(d) /\ task'[d].from = task[d].from
  BY DEF Uses
<1>2. QED
  BY <1>1 DEF OneUser, Fresh

\* A call of a new application has nobody beside it.
LEMMA StartsAlone ==
  ASSUME TypeOK, StageInv, StartInv, NEW c \in Call, IsHead(c), task[c].at = "load", Fresh(c)
  PROVE  /\ c = Main(generation) /\ task[c].kind = "restore"
         /\ \A d \in Call \ {c} : task[d].kind = "none"
<1>1. task[c].kind = "restore" /\ c = Main(generation)
  BY Calls DEF StageInv, Stage, Clearing, Fresh, Main, Rotation
<1>2. \A d \in Call \ {c} : task[d].kind = "none" \/ d = Rotation(generation)
  BY <1>1, Calls DEF StartInv, Latest, Fresh
<1>3. QED
  BY <1>1, <1>2 DEF StartInv, Latest

\* A rotation that begins is the only call of its generation with a token.
LEMMA RotatesAlone ==
  ASSUME TypeOK, StageInv, StartInv, RotatesDoes, NEW d \in Call, Uses(d), d # Rotation(generation)
  PROVE  ~Fresh(d)
<1> SUFFICES ASSUME Fresh(d)  PROVE FALSE
  OBVIOUS
<1>1. d = Main(generation)
  BY Calls DEF Fresh
<1>2. Latest.kind = "restore" /\ Latest.at # "starting_offline"
  BY <1>1 DEF Uses, StageInv, Latest, Main
<1>3. QED
  BY <1>2 DEF StartInv, RotatesDoes

LEMMA UserStep ==
  ASSUME TypeOK, StageInv, StartInv, ResultInv, OneUser, LoginInv, Effects
  PROVE  OneUser'
<1>1. CASE UNCHANGED vars
  BY <1>1 DEF vars, OneUser, Uses, Fresh, memory
<1>2. CASE CycleOnly
  BY <1>2 DEF CycleOnly, OneUser, Uses, Fresh, memory
<1>3. CASE RotatesDoes
  <2>1. PICK c \in Call : c = Rotation(generation) /\ Fresh(c)
    BY Calls DEF TypeOK, Rotation, Fresh
  <2>2. /\ task'[c].from = payload /\ \A d \in Call \ {c} : task'[d] = task[d]
        /\ UNCHANGED <<generation, payload>> /\ payload # NoToken
    BY <1>3, <2>1 DEF RotatesDoes, Turns
  <2>3. \A d \in Call \ {c} : (Uses(d)' <=> Uses(d)) /\ (Fresh(d)' <=> Fresh(d))
    BY <2>2 DEF Uses, Fresh
  <2>4. \A d \in Call \ {c} : Uses(d) => ~Fresh(d) /\ task[d].from.session # payload.session
    BY <1>3, <2>1, <2>2, RotatesAlone DEF OneUser
  <2>5. Fresh(c)'
    BY <2>1, <2>2 DEF Fresh
  <2>6. QED
    BY <2>2, <2>3, <2>4, <2>5 DEF OneUser
<1>4. ASSUME NEW kind \in {"login", "logout"}, UserBeginsDoes(kind)  PROVE OneUser'
  <2>1. PICK c \in Call : c = Main(generation + 1)
    BY <1>4, NextMain DEF UserBeginsDoes
  <2>2. payload' = NoToken /\ ~Uses(c)' /\ \A d \in Call \ {c} : task'[d] = task[d]
    BY <1>4, <2>1 DEF UserBeginsDoes, Turns, Uses
  <2>3. \A d \in Call : Uses(d)' => d # c /\ Uses(d)
    BY <2>2 DEF Uses
  <2>4. QED
    BY <2>2, <2>3 DEF OneUser
<1>5. CASE QuitDoes
  <2>1. PICK c \in Call : c = Main(generation + 1)
    BY <1>5, NextMain DEF QuitDoes
  <2>2. payload' = NoToken /\ ~Uses(c)' /\ \A d \in Call \ {c} : task'[d] = task[d]
    BY <1>5, <2>1 DEF QuitDoes, Turns, Uses
  <2>3. \A d \in Call : Uses(d)' => d # c /\ Uses(d)
    BY <2>2 DEF Uses
  <2>4. QED
    BY <2>2, <2>3 DEF OneUser
<1>6. CASE RestartsDoes
  <2>1. \A d \in Call : ~Uses(d)'
    BY <1>6 DEF RestartsDoes, Uses
  <2>2. QED
    BY <2>1 DEF OneUser
<1>7. CASE SessionEndsDoes
  BY <1>7 DEF SessionEndsDoes, OneUser, Uses, Fresh, memory
<1>8. CASE LateRefreshDoes
  BY <1>8 DEF LateRefreshDoes, OneUser, Uses, Fresh, memory
<1>9. ASSUME NEW c \in Call, SupersededDoes(c)  PROVE OneUser'
  BY <1>9, UserKeeps DEF SupersededDoes, Over, Turns, Uses
<1>10. ASSUME NEW c \in Call, ClearDoes(c)  PROVE OneUser'
  BY <1>10, UserKeeps DEF ClearDoes, Moves, Turns, Uses
<1>11. ASSUME NEW c \in Call, ForgetDoes(c)  PROVE OneUser'
  BY <1>11, UserKeeps DEF ForgetDoes, Moves, Over, Turns, Uses
<1>12. ASSUME NEW c \in Call, CloseDoes(c)  PROVE OneUser'
  BY <1>12, UserKeeps DEF CloseDoes, Moves, Over, Turns, StageInv, Uses
<1>13. ASSUME NEW c \in Call, LoginAnsweredDoes(c)  PROVE OneUser'
  BY <1>13, UserKeeps DEF LoginAnsweredDoes, Over, Turns, Uses
<1>14. ASSUME NEW c \in Call, LoginFailsDoes(c)  PROVE OneUser'
  BY <1>14, UserKeeps DEF LoginFailsDoes, Moves, Over, Turns, Uses
<1>15. ASSUME NEW c \in Call, OpenTenantDoes(c)  PROVE OneUser'
  BY <1>15, UserKeeps DEF OpenTenantDoes, Moves, Turns, StageInv, Stage, Clearing, Uses
<1>16. ASSUME NEW c \in Call, LoadNothingDoes(c)  PROVE OneUser'
  BY <1>16, UserKeeps DEF LoadNothingDoes, Over, Turns, Uses
<1>17. ASSUME NEW c \in Call, LoadDoes(c)  PROVE OneUser'
  <2>1. \A d \in Call \ {c} : task[d].kind = "none" /\ task'[d] = task[d]
    BY <1>17, StartsAlone DEF LoadDoes, Turns
  <2>2. Fresh(c)' /\ \A d \in Call \ {c} : ~Uses(d)'
    BY <1>17, <2>1 DEF LoadDoes, Uses, Fresh
  <2>3. QED
    BY <2>2 DEF OneUser
<1>18. ASSUME NEW c \in Call, OpenedDoes(c)  PROVE OneUser'
  BY <1>18, UserKeeps DEF OpenedDoes, Moves, Turns, Uses
<1>19. ASSUME NEW c \in Call, RotationAnsweredDoes(c)  PROVE OneUser'
  BY <1>19, UserKeeps DEF RotationAnsweredDoes, Moves, Over, Turns, Asks, Goes, Uses
<1>20. ASSUME NEW c \in Call, RotationGivenUpDoes(c)  PROVE OneUser'
  BY <1>20, UserKeeps DEF RotationGivenUpDoes, Moves, Over, Turns, Asks, Goes, Uses
<1>21. ASSUME NEW c \in Call, ActivateDoes(c)  PROVE OneUser'
  BY <1>21, UserKeeps DEF ActivateDoes, Moves, Turns, Uses
<1>22. ASSUME NEW c \in Call, SavedDoes(c)  PROVE OneUser'
  <2>1. ASSUME NEW d \in Call \ {c}, Uses(d)  PROVE task[d].from.session # task[c].next.session
    <3>1. CASE task[c].kind = "login"
      <4>1. task[c].next = First(c[2]) /\ task[c].then = "asking" /\ task[c].at = "saving"
        BY <1>22, <3>1 DEF SavedDoes, ResultInv, StageInv, Clearing
      <4>2. task[c].next.session = c[2]
        BY <4>1 DEF First
      <4>3. QED
        BY <2>1, <4>1, <4>2 DEF LoginInv
    <3>2. CASE task[c].kind # "login"
      <4>1. Uses(c) /\ task[c].next = Second(task[c].from)
        BY <1>22, <3>2 DEF SavedDoes, ResultInv, Unsaved, Uses, StageInv, Stage, Clearing
      <4>2. Second(task[c].from).session = task[c].from.session
        BY Tokens DEF TypeOK, TaskType
      <4>3. QED
        BY <2>1, <4>1, <4>2 DEF OneUser
    <3>3. QED
      BY <3>1, <3>2
  <2>2. /\ generation' = generation /\ payload' \in {task[c].next, NoToken} /\ ~Uses(c)'
        /\ \A d \in Call \ {c} : task'[d] = task[d]
    BY <1>22 DEF SavedDoes, Moves, Turns, Uses
  <2>3. \A d \in Call \ {c} : Uses(d)' => Uses(d)
    BY <2>2 DEF Uses
  <2>4. QED
    BY <2>1, <2>2, <2>3 DEF OneUser
<1>23. ASSUME NEW c \in Call, SaveFailsDoes(c)  PROVE OneUser'
  BY <1>23, UserKeeps DEF SaveFailsDoes, Moves, Turns, Uses
<1>24. ASSUME NEW c \in Call, StartSyncDoes(c)  PROVE OneUser'
  BY <1>24, UserKeeps DEF StartSyncDoes, Over, Turns, Uses
<1>25. ASSUME NEW c \in Call, StartOfflineDoes(c)  PROVE OneUser'
  BY <1>25, UserKeeps DEF StartOfflineDoes, Over, Turns, Uses
<1>26. ASSUME NEW c \in Call, PermissionsReadDoes(c)  PROVE OneUser'
  BY <1>26, UserKeeps DEF PermissionsReadDoes, Moves, Over, Turns, Uses
<1>27. ASSUME NEW c \in Call, FailsDoes(c)  PROVE OneUser'
  BY <1>27, UserKeeps DEF FailsDoes, Moves, Over, Turns, Uses
<1>28. QED
  BY <1>1, <1>2, <1>3, <1>4, <1>5, <1>6, <1>7, <1>8, <1>9, <1>10, <1>11, <1>12, <1>13, <1>14, <1>15,
     <1>16, <1>17, <1>18, <1>19, <1>20, <1>21, <1>22, <1>23, <1>24, <1>25, <1>26, <1>27
     DEF Effects

\* A login of its own generation.
LEMMA OneLogin ==
  ASSUME StageInv, NEW c \in Call, NEW d \in Call, task[c].kind = "login", task[d].kind = "login", c[2] = d[2]
  PROVE  c = d
BY Calls DEF StageInv, Main, Rotation

LEMMA LoginTurns ==
  ASSUME TypeOK, LoginInv, NEW c \in Call, \A d \in Call \ {c} : task'[d] = task[d],
         payload' \in {payload, NoToken}, store' \in {store, NoToken}, lost \subseteq lost',
         Uses(c)' => Uses(c) /\ task'[c].from = task[c].from,
         \A d \in Call \ {c} : task[d].then = "asking" /\ task[d].at \in {"reading", "open", "opened", "saving"} =>
           d[2] \in lost' \/ server'[d[2]].n = server[d[2]].n,
         task'[c].then = "asking" /\ task'[c].at # "starting" =>
           /\ task[c].then = "asking" /\ task[c].at # "starting"
           /\ task'[c].at \in {"reading", "open", "opened", "saving"} =>
                \/ c[2] \in lost' \/ server'[c[2]].n = 1
                \/ task[c].at \in {"reading", "open", "opened", "saving"} /\ server' = server
  PROVE  LoginInv'
<1>1. \A d \in Call : Uses(d)' => Uses(d) /\ task'[d].from = task[d].from
  BY DEF Uses
<1>2. \A d \in Call : d[2] # NoToken.session
  BY Calls, TokenTypes
<1>3. ASSUME NEW d \in Call, task'[d].then = "asking", task'[d].at # "starting"
      PROVE  /\ store'.session # d[2] /\ payload'.session # d[2]
             /\ \A f \in Call : Uses(f)' => task'[f].from.session # d[2]
  <2>1. task[d].then = "asking" /\ task[d].at # "starting"
    BY <1>3
  <2>2. QED
    BY <1>1, <1>2, <2>1 DEF LoginInv
<1>4. ASSUME NEW d \in Call, task'[d].then = "asking", task'[d].at \in {"reading", "open", "opened", "saving"}
      PROVE  d[2] \in lost' \/ server'[d[2]].n = 1
  <2>1. CASE d # c
    BY <1>4, <2>1 DEF LoginInv
  <2>2. CASE d = c
    BY <1>4, <2>2 DEF LoginInv
  <2>3. QED
    BY <2>1, <2>2
<1>5. QED
  BY <1>3, <1>4 DEF LoginInv

LEMMA LoginStep ==
  ASSUME TypeOK, StageInv, StartInv, ResultInv, SessionInv, LoginInv, NewestInv, Effects
  PROVE  LoginInv'
<1>1. CASE UNCHANGED vars
  BY <1>1 DEF vars, LoginInv, Uses, memory, outside
<1>2. CASE CycleOnly
  BY <1>2 DEF CycleOnly, LoginInv, Uses, memory, outside
<1>3. CASE RotatesDoes
  <2>1. PICK c \in Call : c = Rotation(generation)
    BY Calls DEF TypeOK
  <2>2. /\ task'[c].from = payload /\ task'[c].then = "done" /\ \A d \in Call \ {c} : task'[d] = task[d]
        /\ UNCHANGED <<payload, outside>>
    BY <1>3, <2>1 DEF RotatesDoes, Turns
  <2>3. \A d \in Call \ {c} : Uses(d)' <=> Uses(d)
    BY <2>2 DEF Uses
  <2>4. ASSUME NEW d \in Call \ {c}, task[d].then = "asking", task[d].at # "starting"
        PROVE  /\ store.session # d[2] /\ payload.session # d[2]
               /\ \A f \in Call : Uses(f)' => task'[f].from.session # d[2]
               /\ task[d].at \in {"reading", "open", "opened", "saving"} => d[2] \in lost \/ server[d[2]].n = 1
    BY <2>2, <2>3, <2>4 DEF LoginInv
  <2>5. QED
    BY <2>2, <2>4 DEF LoginInv, outside
<1>4. ASSUME NEW kind \in {"login", "logout"}, UserBeginsDoes(kind)  PROVE LoginInv'
  <2>1. PICK c \in Call : c = Main(generation + 1) /\ c[2] = generation + 1
    BY <1>4, NextMain DEF UserBeginsDoes, Main
  <2>2. /\ payload' = NoToken /\ task'[c].at = "clear" /\ ~Uses(c)' /\ UNCHANGED outside
        /\ \A d \in Call \ {c} : task'[d] = task[d]
    BY <1>4, <2>1 DEF UserBeginsDoes, Turns, Uses
  <2>3. \A d \in Call : Uses(d)' => d # c /\ Uses(d) /\ task'[d].from = task[d].from
    BY <2>2 DEF Uses
  <2>4. \A d \in Call : d[2] # NoToken.session
    BY Calls, TokenTypes
  <2>5. store.session # c[2] /\ \A d \in Call : Uses(d) => task[d].from.session # c[2]
    BY <2>1, TokenTypes DEF SessionInv
  <2>6. ASSUME NEW d \in Call \ {c}, task'[d].then = "asking", task'[d].at # "starting"
        PROVE  /\ store'.session # d[2] /\ payload'.session # d[2]
               /\ \A f \in Call : Uses(f)' => task'[f].from.session # d[2]
               /\ task'[d].at \in {"reading", "open", "opened", "saving"} => d[2] \in lost' \/ server'[d[2]].n = 1
    BY <2>2, <2>3, <2>4, <2>6 DEF LoginInv, outside
  <2>7. /\ store'.session # c[2] /\ payload'.session # c[2]
        /\ \A f \in Call : Uses(f)' => task'[f].from.session # c[2]
    BY <2>2, <2>3, <2>4, <2>5 DEF outside
  <2>8. QED
    BY <2>2, <2>6, <2>7 DEF LoginInv
<1>5. CASE QuitDoes
  <2>1. PICK c \in Call : c = Main(generation + 1)
    BY <1>5, NextMain DEF QuitDoes
  <2>2. QED
    BY <1>5, <2>1, LoginTurns DEF QuitDoes, Turns, Uses, outside
<1>6. CASE RestartsDoes
  BY <1>6 DEF RestartsDoes, LoginInv
<1>7. CASE SessionEndsDoes
  BY <1>7, Calls, Constants DEF SessionEndsDoes, LoginInv, Uses, memory, Session
<1>8. CASE LateRefreshDoes
  <2>1. PICK token \in late : Asked(token)
    BY <1>8 DEF LateRefreshDoes
  <2>2. token.session \in lost /\ UNCHANGED <<memory, store, lost>>
    BY <1>8 DEF LateRefreshDoes, NewestInv
  <2>3. \A s \in Session \ lost : server'[s] = server[s]
    BY <2>1, <2>2 DEF Asked, OtherSessions
  <2>4. \A d \in Call : d[2] \in Session
    BY Calls DEF Session
  <2>5. QED
    BY <2>2, <2>3, <2>4 DEF LoginInv, Uses, memory
<1>9. ASSUME NEW c \in Call, SupersededDoes(c)  PROVE LoginInv'
  BY <1>9, LoginTurns DEF SupersededDoes, Over, Turns, Loses, Uses
<1>10. ASSUME NEW c \in Call, ClearDoes(c)  PROVE LoginInv'
  BY <1>10, LoginTurns DEF ClearDoes, Moves, Turns, Uses, outside
<1>11. ASSUME NEW c \in Call, ForgetDoes(c)  PROVE LoginInv'
  BY <1>11, LoginTurns DEF ForgetDoes, Moves, Over, Turns, Uses
<1>12. ASSUME NEW c \in Call, CloseDoes(c)  PROVE LoginInv'
  BY <1>12, LoginTurns DEF CloseDoes, Moves, Over, Turns, StageInv, Uses, outside
<1>13. ASSUME NEW c \in Call, LoginAnsweredDoes(c)  PROVE LoginInv'
  <2>1. \A d \in Call \ {c} : task[d].then = "asking" => d[2] # c[2] /\ d[2] \in Session
    BY <1>13, OneLogin, Calls DEF LoginAnsweredDoes, StageInv, Session
  <2>2. \A d \in Call \ {c} : task[d].then = "asking" => server'[d[2]] = server[d[2]]
    BY <1>13, <2>1 DEF LoginAnsweredDoes, OtherSessions
  <2>3. QED
    BY <1>13, <2>2, LoginTurns DEF LoginAnsweredDoes, Over, Turns, Uses, Woken, outside
<1>14. ASSUME NEW c \in Call, LoginFailsDoes(c)  PROVE LoginInv'
  BY <1>14, LoginTurns DEF LoginFailsDoes, Moves, Over, Turns, Uses, outside
<1>15. ASSUME NEW c \in Call, OpenTenantDoes(c)  PROVE LoginInv'
  BY <1>15, LoginTurns DEF OpenTenantDoes, Moves, Turns, StageInv, Stage, Clearing, Uses, outside
<1>16. ASSUME NEW c \in Call, LoadNothingDoes(c)  PROVE LoginInv'
  BY <1>16, LoginTurns DEF LoadNothingDoes, Over, Turns, Uses, outside
<1>17. ASSUME NEW c \in Call, LoadDoes(c)  PROVE LoginInv'
  <2>1. task[c].kind = "restore" /\ \A d \in Call \ {c} : task[d].kind = "none" /\ task'[d] = task[d]
    BY <1>17, StartsAlone DEF LoadDoes, Turns
  <2>2. task'[c].then = task[c].then
    BY <1>17 DEF LoadDoes, Turns
  <2>3. \A d \in Call : task'[d].then # "asking"
    BY <2>1, <2>2 DEF StageInv
  <2>4. QED
    BY <2>3 DEF LoginInv
<1>18. ASSUME NEW c \in Call, OpenedDoes(c)  PROVE LoginInv'
  BY <1>18, LoginTurns DEF OpenedDoes, Moves, Turns, Uses, outside
<1>19. ASSUME NEW c \in Call, RotationAnsweredDoes(c)  PROVE LoginInv'
  <2>1. Uses(c) /\ task[c].then # "asking"
    BY <1>19 DEF RotationAnsweredDoes, Asks, Goes, Uses, StageInv, Stage, Clearing
  <2>2. \A d \in Call \ {c} : task[d].then = "asking" /\ task[d].at \in {"reading", "open", "opened", "saving"} =>
          server'[d[2]] = server[d[2]]
    BY <1>19, <2>1, Calls DEF RotationAnsweredDoes, Asked, OtherSessions, LoginInv, Session
  <2>3. lost \subseteq lost'
    BY <1>19 DEF RotationAnsweredDoes, Loses
  <2>4. QED
    BY <1>19, <2>1, <2>2, <2>3, LoginTurns DEF RotationAnsweredDoes, Moves, Over, Turns, Uses
<1>20. ASSUME NEW c \in Call, RotationGivenUpDoes(c)  PROVE LoginInv'
  BY <1>20, LoginTurns DEF RotationGivenUpDoes, Moves, Over, Turns, Asks, Goes, Loses, Uses
<1>21. ASSUME NEW c \in Call, ActivateDoes(c)  PROVE LoginInv'
  BY <1>21, LoginTurns DEF ActivateDoes, Moves, Turns, StageInv, Stage, Clearing, Uses, outside
<1>22. ASSUME NEW c \in Call, SavedDoes(c)  PROVE LoginInv'
  <2>1. ASSUME NEW d \in Call \ {c}, task[d].then = "asking", task[d].at # "starting"
        PROVE  task[c].next.session # d[2]
    <3>1. CASE task[c].kind = "login"
      <4>1. task[c].next = First(c[2])
        BY <1>22, <3>1 DEF SavedDoes, ResultInv
      <4>2. c[2] # d[2]
        BY <2>1, <3>1, OneLogin DEF StageInv
      <4>3. QED
        BY <4>1, <4>2 DEF First
    <3>2. CASE task[c].kind # "login"
      <4>1. Uses(c) /\ task[c].next = Second(task[c].from)
        BY <1>22, <3>2 DEF SavedDoes, ResultInv, Unsaved, Uses, StageInv, Stage, Clearing
      <4>2. Second(task[c].from).session = task[c].from.session
        BY Tokens DEF TypeOK, TaskType
      <4>3. QED
        BY <2>1, <4>1, <4>2 DEF LoginInv
    <3>3. QED
      BY <3>1, <3>2
  <2>2. /\ store' = task[c].next /\ payload' \in {task[c].next, NoToken} /\ ~Uses(c)'
        /\ (task'[c].then = "asking" => task'[c].at = "starting")
        /\ UNCHANGED <<server, lost>> /\ \A d \in Call \ {c} : task'[d] = task[d]
    BY <1>22 DEF SavedDoes, Moves, Turns, Uses
  <2>3. \A d \in Call : Uses(d)' => Uses(d) /\ task'[d].from = task[d].from
    BY <2>2 DEF Uses
  <2>4. \A d \in Call : d[2] # NoToken.session
    BY Calls, TokenTypes
  <2>5. ASSUME NEW d \in Call, task'[d].then = "asking", task'[d].at # "starting"
        PROVE  /\ store'.session # d[2] /\ payload'.session # d[2]
               /\ \A f \in Call : Uses(f)' => task'[f].from.session # d[2]
               /\ task'[d].at \in {"reading", "open", "opened", "saving"} => d[2] \in lost' \/ server'[d[2]].n = 1
    <3>1. d # c /\ task'[d] = task[d]
      BY <2>2, <2>5
    <3>2. QED
      BY <2>1, <2>2, <2>3, <2>4, <2>5, <3>1 DEF LoginInv
  <2>6. QED
    BY <2>5 DEF LoginInv
<1>23. ASSUME NEW c \in Call, SaveFailsDoes(c)  PROVE LoginInv'
  BY <1>23, LoginTurns DEF SaveFailsDoes, Moves, Turns, Loses, Uses
<1>24. ASSUME NEW c \in Call, StartSyncDoes(c)  PROVE LoginInv'
  BY <1>24, LoginTurns DEF StartSyncDoes, Over, Turns, Uses, outside
<1>25. ASSUME NEW c \in Call, StartOfflineDoes(c)  PROVE LoginInv'
  BY <1>25, LoginTurns DEF StartOfflineDoes, Over, Turns, Uses, outside
<1>26. ASSUME NEW c \in Call, PermissionsReadDoes(c)  PROVE LoginInv'
  BY <1>26, LoginTurns DEF PermissionsReadDoes, Moves, Over, Turns, Loses, Uses
<1>27. ASSUME NEW c \in Call, FailsDoes(c)  PROVE LoginInv'
  BY <1>27, LoginTurns DEF FailsDoes, Moves, Over, Turns, Uses
<1>28. QED
  BY <1>1, <1>2, <1>3, <1>4, <1>5, <1>6, <1>7, <1>8, <1>9, <1>10, <1>11, <1>12, <1>13, <1>14, <1>15,
     <1>16, <1>17, <1>18, <1>19, <1>20, <1>21, <1>22, <1>23, <1>24, <1>25, <1>26, <1>27
     DEF Effects

-----------------------------------------------------------------------------
(* The last token of a session.                                            *)

LEMMA UnsavedUses ==
  ASSUME StageInv, NEW c \in Call, Unsaved(c)
  PROVE  Uses(c) /\ task[c].at # "opened"
BY DEF StageInv, Stage, Clearing, Unsaved, Uses

Unowned(s) ==
  /\ store.session # s /\ payload.session # s
  /\ \A d \in Call : Uses(d) => task[d].from.session # s

\* A step of one call that issues no token.
LEMMA NewestTurns ==
  ASSUME TypeOK, StageInv, NewestInv, NEW c \in Call, \A d \in Call \ {c} : task'[d] = task[d],
         payload' = NoToken \/ UNCHANGED <<payload, generation>>, store' \in {store, NoToken},
         lost \subseteq lost', \A token \in late' : token \in late \/ token.session \in lost',
         \A s \in Session : s \in lost' \/ server'[s].n = server[s].n \/ Unowned(s),
         Unsaved(c) => (Unsaved(c)' /\ task'[c].from = task[c].from) \/ task[c].from.session \in lost',
         Uses(c)' => Uses(c) /\ task'[c].from = task[c].from /\ (Unsaved(c)' <=> Unsaved(c))
  PROVE  NewestInv'
<1>1. \A d \in Call : Unsaved(d) =>
        (Unsaved(d)' /\ task'[d].from = task[d].from) \/ task[d].from.session \in lost'
  BY DEF Unsaved
<1>2. \A d \in Call : Uses(d)' => Uses(d) /\ task'[d].from = task[d].from /\ (Unsaved(d)' <=> Unsaved(d))
  BY DEF Uses, Unsaved
<1>3. ASSUME store' # NoToken, store'.session \notin lost'
      PROVE  \/ server'[store'.session].n = store'.n
             \/ \E d \in Call : Unsaved(d)' /\ task'[d].from.session = store'.session
  <2>1. store' = store /\ store # NoToken /\ store.session \notin lost /\ store.session \in Session
    BY <1>3, TokenTypes
  <2>2. server'[store.session].n = server[store.session].n
    BY <1>3, <2>1 DEF Unowned
  <2>3. QED
    BY <1>1, <1>3, <2>1, <2>2 DEF NewestInv
<1>4. ASSUME payload' # NoToken, payload'.session \notin lost'
      PROVE  \/ server'[payload'.session].n = payload'.n
             \/ \E d \in Call : Fresh(d)' /\ Unsaved(d)' /\ task'[d].from.session = payload'.session
  <2>1. /\ UNCHANGED <<payload, generation>> /\ payload # NoToken
        /\ payload.session \notin lost /\ payload.session \in Session
    BY <1>4, TokenTypes
  <2>2. server'[payload.session].n = server[payload.session].n
    BY <1>4, <2>1 DEF Unowned
  <2>3. \A d \in Call : Fresh(d)' <=> Fresh(d)
    BY <2>1 DEF Fresh
  <2>4. QED
    BY <1>1, <1>4, <2>1, <2>2, <2>3 DEF NewestInv
<1>5. ASSUME NEW d \in Call, Uses(d)', task'[d].from.session \notin lost'
      PROVE  server'[task'[d].from.session].n = IF Unsaved(d)' THEN task'[d].from.n + 1 ELSE task'[d].from.n
  <2>1. Uses(d) /\ task'[d].from = task[d].from /\ (Unsaved(d)' <=> Unsaved(d)) /\ task[d].from.session \notin lost
    BY <1>2, <1>5
  <2>2. task[d].from.session \in Session
    BY TokenTypes
  <2>3. server'[task[d].from.session].n = server[task[d].from.session].n
    BY <1>5, <2>1, <2>2 DEF Unowned
  <2>4. QED
    BY <2>1, <2>3 DEF NewestInv
<1>6. \A token \in late' : token.session \in lost'
  BY DEF NewestInv
<1>7. QED
  BY <1>3, <1>4, <1>5, <1>6 DEF NewestInv

LEMMA NewestStep ==
  ASSUME TypeOK, StageInv, StartInv, RotationInv, ResultInv, OneUser, LoginInv, NewestInv, Effects
  PROVE  NewestInv'
<1>1. CASE UNCHANGED vars
  BY <1>1 DEF vars, NewestInv, Uses, Unsaved, Fresh, memory, outside
<1>2. CASE CycleOnly
  BY <1>2 DEF CycleOnly, NewestInv, Uses, Unsaved, Fresh, memory, outside
<1>3. CASE RotatesDoes
  <2>1. PICK c \in Call : c = Rotation(generation)
    BY Calls DEF TypeOK
  <2>2. /\ task'[c].from = payload /\ ~Unsaved(c)' /\ \A d \in Call \ {c} : task'[d] = task[d]
        /\ UNCHANGED <<generation, payload, outside>> /\ payload # NoToken
    BY <1>3, <2>1 DEF RotatesDoes, Turns, Unsaved
  <2>3. ~Unsaved(c)
    BY <1>3, <2>1 DEF RotatesDoes, RotationInv, Unsaved, StageInv, Stage
  <2>4. \A d \in Call \ {c} : (Uses(d)' <=> Uses(d)) /\ (Unsaved(d)' <=> Unsaved(d))
    BY <2>2 DEF Uses, Unsaved
  <2>5. \A d \in Call : ~(Fresh(d) /\ Unsaved(d))
    BY <1>3, <2>1, <2>3, RotatesAlone, UnsavedUses
  <2>6. payload.session \notin lost => server[payload.session].n = payload.n
    BY <2>2, <2>5 DEF NewestInv
  <2>7. ASSUME NEW d \in Call, Uses(d)', task'[d].from.session \notin lost
        PROVE  server[task'[d].from.session].n = IF Unsaved(d)' THEN task'[d].from.n + 1 ELSE task'[d].from.n
    <3>1. CASE d = c
      BY <2>2, <2>6, <2>7, <3>1
    <3>2. CASE d # c
      BY <2>2, <2>4, <2>7, <3>2 DEF NewestInv
    <3>3. QED
      BY <3>1, <3>2
  <2>8. store # NoToken /\ store.session \notin lost =>
          \/ server[store.session].n = store.n
          \/ \E d \in Call : Unsaved(d)' /\ task'[d].from.session = store.session
    BY <2>2, <2>3, <2>4 DEF NewestInv
  <2>9. QED
    BY <2>2, <2>6, <2>7, <2>8 DEF NewestInv, outside
<1>4. ASSUME NEW kind \in {"login", "logout"}, UserBeginsDoes(kind)  PROVE NewestInv'
  <2>1. PICK c \in Call : c = Main(generation + 1) /\ c[2] = generation + 1
    BY <1>4, NextMain DEF UserBeginsDoes, Main
  <2>2. ~Unsaved(c)
    BY <2>1 DEF Unsaved, StageInv, Stage, TypeOK
  <2>3. QED
    BY <1>4, <2>1, <2>2, NewestTurns DEF UserBeginsDoes, Turns, Uses, Unsaved, outside
<1>5. CASE QuitDoes
  <2>1. PICK c \in Call : c = Main(generation + 1) /\ c[2] = generation + 1
    BY <1>5, NextMain DEF QuitDoes, Main
  <2>2. ~Unsaved(c)
    BY <2>1 DEF Unsaved, StageInv, Stage, TypeOK
  <2>3. QED
    BY <1>5, <2>1, <2>2, NewestTurns DEF QuitDoes, Turns, Uses, Unsaved, outside
<1>6. CASE RestartsDoes
  <2>1. payload' = NoToken /\ UNCHANGED <<store, server>> /\ \A d \in Call : ~Uses(d)'
    BY <1>6 DEF RestartsDoes, Uses
  <2>2. /\ lost \subseteq lost' /\ \A c \in Call : Asks(c) \/ Unsaved(c) => task[c].from.session \in lost'
        /\ \A token \in late' : token \in late \/ \E c \in Call : Asks(c) /\ token = task[c].from
    BY <1>6 DEF RestartsDoes
  <2>3. \A token \in late' : token.session \in lost'
    BY <2>2 DEF NewestInv
  <2>4. store # NoToken /\ store.session \notin lost' => server[store.session].n = store.n
    BY <2>2 DEF NewestInv
  <2>5. QED
    BY <2>1, <2>3, <2>4 DEF NewestInv
<1>7. CASE SessionEndsDoes
  BY <1>7, TokenTypes DEF SessionEndsDoes, NewestInv, Uses, Unsaved, Fresh, memory
<1>8. CASE LateRefreshDoes
  <2>1. PICK token \in late : Asked(token) /\ late' = late \ {token}
    BY <1>8 DEF LateRefreshDoes
  <2>2. token.session \in lost /\ UNCHANGED <<memory, store, lost>>
    BY <1>8 DEF LateRefreshDoes, NewestInv
  <2>3. \A s \in Session \ lost : server'[s] = server[s]
    BY <2>1, <2>2 DEF Asked, OtherSessions
  <2>4. QED
    BY <2>1, <2>2, <2>3, TokenTypes DEF NewestInv, Uses, Unsaved, Fresh, memory
<1>9. ASSUME NEW c \in Call, SupersededDoes(c)  PROVE NewestInv'
  BY <1>9, NewestTurns, UnsavedUses DEF SupersededDoes, Over, Turns, Loses, Uses, Unsaved
<1>10. ASSUME NEW c \in Call, ClearDoes(c)  PROVE NewestInv'
  BY <1>10, NewestTurns DEF ClearDoes, Moves, Turns, Uses, Unsaved, outside
<1>11. ASSUME NEW c \in Call, ForgetDoes(c)  PROVE NewestInv'
  BY <1>11, NewestTurns DEF ForgetDoes, Moves, Over, Turns, Uses, Unsaved
<1>12. ASSUME NEW c \in Call, CloseDoes(c)  PROVE NewestInv'
  BY <1>12, NewestTurns DEF CloseDoes, Moves, Over, Turns, StageInv, Uses, Unsaved, outside
<1>13. ASSUME NEW c \in Call, LoginAnsweredDoes(c)  PROVE NewestInv'
  <2>1. task[c].then = "asking" /\ ~Unsaved(c) /\ ~Uses(c)
    BY <1>13 DEF LoginAnsweredDoes, StageInv, Clearing, Unsaved, Uses
  <2>2. Unowned(c[2])
    BY <1>13, <2>1 DEF LoginAnsweredDoes, LoginInv, Unowned
  <2>3. \A s \in Session : server'[s].n = server[s].n \/ Unowned(s)
    BY <1>13, <2>2 DEF LoginAnsweredDoes, OtherSessions
  <2>4. /\ UNCHANGED <<payload, generation, store, late, lost>> /\ ~Uses(c)'
        /\ \A d \in Call \ {c} : task'[d] = task[d]
    BY <1>13 DEF LoginAnsweredDoes, Over, Turns, Uses
  <2>5. QED
    BY <2>1, <2>3, <2>4, NewestTurns
<1>14. ASSUME NEW c \in Call, LoginFailsDoes(c)  PROVE NewestInv'
  BY <1>14, NewestTurns DEF LoginFailsDoes, Moves, Over, Turns, Uses, Unsaved, outside
<1>15. ASSUME NEW c \in Call, OpenTenantDoes(c)  PROVE NewestInv'
  BY <1>15, NewestTurns DEF OpenTenantDoes, Moves, Turns, StageInv, Stage, Clearing, Uses, Unsaved, outside
<1>16. ASSUME NEW c \in Call, LoadNothingDoes(c)  PROVE NewestInv'
  BY <1>16, NewestTurns DEF LoadNothingDoes, Over, Turns, Uses, Unsaved, outside
<1>17. ASSUME NEW c \in Call, LoadDoes(c)  PROVE NewestInv'
  <2>1. task[c].kind = "restore" /\ \A d \in Call \ {c} : task[d].kind = "none" /\ task'[d] = task[d]
    BY <1>17, StartsAlone DEF LoadDoes, Turns
  <2>2. \A d \in Call : ~Unsaved(d)
    BY <1>17, <2>1 DEF LoadDoes, Unsaved, StageInv, Stage
  <2>3. ~Unsaved(c)' /\ task'[c].from = store /\ \A d \in Call \ {c} : ~Uses(d)'
    BY <1>17, <2>1 DEF LoadDoes, Turns, Unsaved, Uses
  <2>4. store # NoToken /\ store.session \notin lost => server[store.session].n = store.n
    BY <2>2 DEF NewestInv
  <2>5. payload' = store /\ UNCHANGED outside
    BY <1>17 DEF LoadDoes
  <2>6. store # NoToken
    BY <1>17 DEF LoadDoes
  <2>7. QED
    BY <2>3, <2>4, <2>5, <2>6 DEF NewestInv, outside
<1>18. ASSUME NEW c \in Call, OpenedDoes(c)  PROVE NewestInv'
  BY <1>18, NewestTurns DEF OpenedDoes, Moves, Turns, Uses, Unsaved, outside
<1>19. ASSUME NEW c \in Call, RotationAnsweredDoes(c)  PROVE NewestInv'
  <2> DEFINE s == task[c].from.session
  <2>1. Uses(c) /\ ~Unsaved(c) /\ task[c].at = "asking" /\ s \in Session
    BY <1>19, TokenTypes DEF RotationAnsweredDoes, Asks, Goes, Uses, Unsaved, StageInv, Stage, Clearing
  <2>2. UNCHANGED <<payload, generation, store, late>> /\ \A d \in Call \ {c} : task'[d] = task[d]
    BY <1>19 DEF RotationAnsweredDoes, Moves, Over, Turns
  <2>3. CASE Fresh(c) /\ Accepted(task[c].from)
    <3>1. /\ task'[c].at = "reading" /\ task'[c].kind = task[c].kind /\ task'[c].from = task[c].from /\ lost' = lost
          /\ server'[s].n = task[c].from.n + 1 /\ \A other \in Session \ {s} : server'[other] = server[other]
      BY <1>19, <2>3 DEF RotationAnsweredDoes, Over, Turns, Asked, OtherSessions
    <3>2. Unsaved(c)' /\ Fresh(c)'
      BY <1>19, <2>2, <2>3, <3>1 DEF Unsaved, RotationAnsweredDoes, Asks, Fresh
    <3>3. \A d \in Call \ {c} : /\ (Uses(d)' <=> Uses(d)) /\ (Unsaved(d)' <=> Unsaved(d)) /\ (Fresh(d)' <=> Fresh(d))
                                /\ Uses(d) => task[d].from.session # s
      BY <2>1, <2>2 DEF Uses, Unsaved, Fresh, OneUser
    <3>4. ASSUME NEW d \in Call, Uses(d)', task'[d].from.session \notin lost
          PROVE  server'[task'[d].from.session].n = IF Unsaved(d)' THEN task'[d].from.n + 1 ELSE task'[d].from.n
      <4>1. CASE d = c
        BY <3>1, <3>2, <4>1
      <4>2. CASE d # c
        BY <2>2, <3>1, <3>3, <3>4, <4>2, TokenTypes DEF NewestInv
      <4>3. QED
        BY <4>1, <4>2
    <3>5. store # NoToken /\ store.session \notin lost =>
            \/ server'[store.session].n = store.n
            \/ \E d \in Call : Unsaved(d)' /\ task'[d].from.session = store.session
      <4>1. CASE store.session = s
        BY <3>1, <3>2, <4>1
      <4>2. CASE store.session # s
        BY <2>1, <2>2, <3>1, <3>3, <4>2, TokenTypes DEF NewestInv
      <4>3. QED
        BY <4>1, <4>2
    <3>6. payload # NoToken /\ payload.session \notin lost =>
            \/ server'[payload.session].n = payload.n
            \/ \E d \in Call : Fresh(d)' /\ Unsaved(d)' /\ task'[d].from.session = payload.session
      <4>1. CASE payload.session = s
        BY <3>1, <3>2, <4>1
      <4>2. CASE payload.session # s
        BY <2>1, <2>2, <3>1, <3>3, <4>2, TokenTypes DEF NewestInv
      <4>3. QED
        BY <4>1, <4>2
    <3>7. QED
      BY <2>2, <3>1, <3>4, <3>5, <3>6 DEF NewestInv
  <2>4. CASE ~(Fresh(c) /\ Accepted(task[c].from))
    <3>1. ~Uses(c)' /\ lost \subseteq lost' /\ (lost' = lost \/ s \in lost')
      BY <1>19, <2>1, <2>4 DEF RotationAnsweredDoes, Moves, Over, Turns, Uses, Loses
    <3>2. \A other \in Session : other \in lost' \/ server'[other].n = server[other].n
      BY <1>19, <2>1, <2>4, <3>1 DEF RotationAnsweredDoes, Asked, OtherSessions, Loses
    <3>3. QED
      BY <2>1, <2>2, <3>1, <3>2, NewestTurns
  <2>5. QED
    BY <2>3, <2>4
<1>20. ASSUME NEW c \in Call, RotationGivenUpDoes(c)  PROVE NewestInv'
  <2>1. Uses(c) /\ ~Unsaved(c) /\ ~Unsaved(c)' /\ ~Uses(c)'
    BY <1>20 DEF RotationGivenUpDoes, Asks, Goes, Uses, Unsaved, StageInv, Stage, Clearing, Moves, Over, Turns
  <2>2. lost \subseteq lost' /\ task[c].from.session \in lost' /\ task[c].at # "opened"
    BY <1>20, <2>1 DEF RotationGivenUpDoes, Asks, Goes, Loses
  <2>3. /\ UNCHANGED <<payload, generation, store, server>> /\ late' = late \cup {task[c].from}
        /\ \A d \in Call \ {c} : task'[d] = task[d]
    BY <1>20 DEF RotationGivenUpDoes, Moves, Over, Turns
  <2>4. QED
    BY <2>1, <2>2, <2>3, NewestTurns
<1>21. ASSUME NEW c \in Call, ActivateDoes(c)  PROVE NewestInv'
  BY <1>21, NewestTurns DEF ActivateDoes, Moves, Turns, Uses, Unsaved, outside
<1>22. ASSUME NEW c \in Call, SavedDoes(c)  PROVE NewestInv'
  <2>1. task[c].next.session \notin lost => server[task[c].next.session].n = task[c].next.n
    <3>1. CASE task[c].kind = "login"
      <4>1. task[c].next = First(c[2]) /\ task[c].then = "asking"
        BY <1>22, <3>1 DEF SavedDoes, ResultInv, StageInv, Clearing
      <4>2. QED
        BY <1>22, <4>1 DEF SavedDoes, LoginInv, First
    <3>2. CASE task[c].kind # "login"
      <4>1. Uses(c) /\ Unsaved(c) /\ task[c].next = Second(task[c].from)
        BY <1>22, <3>2 DEF SavedDoes, ResultInv, Unsaved, Uses, StageInv, Stage, Clearing
      <4>2. Second(task[c].from).session = task[c].from.session /\ Second(task[c].from).n = task[c].from.n + 1
        BY Tokens DEF TypeOK, TaskType
      <4>3. QED
        BY <4>1, <4>2 DEF NewestInv
    <3>3. QED
      BY <3>1, <3>2
  <2>2. /\ store' = task[c].next /\ payload' \in {task[c].next, NoToken} /\ ~Uses(c)'
        /\ UNCHANGED <<server, late, lost>> /\ \A d \in Call \ {c} : task'[d] = task[d]
    BY <1>22 DEF SavedDoes, Moves, Turns, Uses
  <2>3. \A d \in Call : Uses(d)' => Uses(d) /\ task'[d] = task[d] /\ (Unsaved(d)' <=> Unsaved(d))
    BY <2>2 DEF Uses, Unsaved
  <2>4. ASSUME NEW d \in Call, Uses(d)', task'[d].from.session \notin lost
        PROVE  server[task'[d].from.session].n = IF Unsaved(d)' THEN task'[d].from.n + 1 ELSE task'[d].from.n
    BY <2>3, <2>4 DEF NewestInv
  <2>5. QED
    BY <2>1, <2>2, <2>4 DEF NewestInv
<1>23. ASSUME NEW c \in Call, SaveFailsDoes(c)  PROVE NewestInv'
  BY <1>23, NewestTurns, UnsavedUses DEF SaveFailsDoes, Moves, Turns, Loses, Uses, Unsaved
<1>24. ASSUME NEW c \in Call, StartSyncDoes(c)  PROVE NewestInv'
  BY <1>24, NewestTurns DEF StartSyncDoes, Over, Turns, Uses, Unsaved, outside
<1>25. ASSUME NEW c \in Call, StartOfflineDoes(c)  PROVE NewestInv'
  BY <1>25, NewestTurns DEF StartOfflineDoes, Over, Turns, Uses, Unsaved, outside
<1>26. ASSUME NEW c \in Call, PermissionsReadDoes(c)  PROVE NewestInv'
  BY <1>26, NewestTurns, UnsavedUses DEF PermissionsReadDoes, Moves, Over, Turns, Loses, Uses, Unsaved
<1>27. ASSUME NEW c \in Call, FailsDoes(c)  PROVE NewestInv'
  BY <1>27, NewestTurns DEF FailsDoes, Moves, Over, Turns, Uses, Unsaved
<1>28. QED
  BY <1>1, <1>2, <1>3, <1>4, <1>5, <1>6, <1>7, <1>8, <1>9, <1>10, <1>11, <1>12, <1>13, <1>14, <1>15,
     <1>16, <1>17, <1>18, <1>19, <1>20, <1>21, <1>22, <1>23, <1>24, <1>25, <1>26, <1>27
     DEF Effects

-----------------------------------------------------------------------------
(* Sessions taken for stolen ones.                                         *)

LEMMA AskedLooksReused ==
  ASSUME NEW token \in Token, Asked(token), OnlyLossLooksReused, lost \subseteq lost',
         server[token.session].n = token.n \/ token.session \in lost'
  PROVE  OnlyLossLooksReused'
<1>1. token.session \in Session
  BY DEF Token
<1>2. QED
  BY <1>1 DEF Asked, OtherSessions, OnlyLossLooksReused

LEMMA ReusedStep ==
  ASSUME TypeOK, StageInv, NewestInv, OnlyLossLooksReused, Effects
  PROVE  OnlyLossLooksReused'
<1>1. CASE UNCHANGED vars
  BY <1>1 DEF vars, OnlyLossLooksReused, outside
<1>2. CASE CycleOnly
  BY <1>2 DEF CycleOnly, OnlyLossLooksReused, outside
<1>3. CASE RotatesDoes
  BY <1>3 DEF RotatesDoes, OnlyLossLooksReused, outside
<1>4. ASSUME NEW kind \in {"login", "logout"}, UserBeginsDoes(kind)  PROVE OnlyLossLooksReused'
  BY <1>4 DEF UserBeginsDoes, OnlyLossLooksReused, outside
<1>5. CASE QuitDoes
  BY <1>5 DEF QuitDoes, OnlyLossLooksReused, outside
<1>6. CASE RestartsDoes
  BY <1>6 DEF RestartsDoes, OnlyLossLooksReused
<1>7. CASE SessionEndsDoes
  BY <1>7 DEF SessionEndsDoes, OnlyLossLooksReused
<1>8. CASE LateRefreshDoes
  <2>1. PICK token \in late : Asked(token)
    BY <1>8 DEF LateRefreshDoes
  <2>2. token \in Token /\ token.session \in lost /\ lost' = lost
    BY <1>8 DEF LateRefreshDoes, NewestInv, TypeOK
  <2>3. QED
    BY <2>1, <2>2, AskedLooksReused
<1>9. ASSUME NEW c \in Call, SupersededDoes(c)  PROVE OnlyLossLooksReused'
  BY <1>9 DEF SupersededDoes, Loses, OnlyLossLooksReused
<1>10. ASSUME NEW c \in Call, ClearDoes(c)  PROVE OnlyLossLooksReused'
  BY <1>10 DEF ClearDoes, OnlyLossLooksReused, outside
<1>11. ASSUME NEW c \in Call, ForgetDoes(c)  PROVE OnlyLossLooksReused'
  BY <1>11 DEF ForgetDoes, OnlyLossLooksReused
<1>12. ASSUME NEW c \in Call, CloseDoes(c)  PROVE OnlyLossLooksReused'
  BY <1>12 DEF CloseDoes, OnlyLossLooksReused, outside
<1>13. ASSUME NEW c \in Call, LoginAnsweredDoes(c)  PROVE OnlyLossLooksReused'
  <2>1. \A s \in Session : server'[s].status = server[s].status
    BY <1>13 DEF LoginAnsweredDoes, OtherSessions
  <2>2. QED
    BY <1>13, <2>1 DEF LoginAnsweredDoes, OnlyLossLooksReused
<1>14. ASSUME NEW c \in Call, LoginFailsDoes(c)  PROVE OnlyLossLooksReused'
  BY <1>14 DEF LoginFailsDoes, OnlyLossLooksReused, outside
<1>15. ASSUME NEW c \in Call, OpenTenantDoes(c)  PROVE OnlyLossLooksReused'
  BY <1>15 DEF OpenTenantDoes, OnlyLossLooksReused, outside
<1>16. ASSUME NEW c \in Call, LoadNothingDoes(c)  PROVE OnlyLossLooksReused'
  BY <1>16 DEF LoadNothingDoes, OnlyLossLooksReused, outside
<1>17. ASSUME NEW c \in Call, LoadDoes(c)  PROVE OnlyLossLooksReused'
  BY <1>17 DEF LoadDoes, OnlyLossLooksReused, outside
<1>18. ASSUME NEW c \in Call, OpenedDoes(c)  PROVE OnlyLossLooksReused'
  BY <1>18 DEF OpenedDoes, OnlyLossLooksReused, outside
<1>19. ASSUME NEW c \in Call, RotationAnsweredDoes(c)  PROVE OnlyLossLooksReused'
  <2>1. Uses(c) /\ ~Unsaved(c) /\ task[c].from \in Token
    BY <1>19 DEF RotationAnsweredDoes, Asks, Goes, Uses, Unsaved, StageInv, Stage, Clearing, TypeOK, TaskType
  <2>2. server[task[c].from.session].n = task[c].from.n \/ task[c].from.session \in lost
    BY <2>1 DEF NewestInv
  <2>3. lost \subseteq lost' /\ Asked(task[c].from)
    BY <1>19 DEF RotationAnsweredDoes, Loses
  <2>4. QED
    BY <2>1, <2>2, <2>3, AskedLooksReused
<1>20. ASSUME NEW c \in Call, RotationGivenUpDoes(c)  PROVE OnlyLossLooksReused'
  BY <1>20 DEF RotationGivenUpDoes, Loses, OnlyLossLooksReused
<1>21. ASSUME NEW c \in Call, ActivateDoes(c)  PROVE OnlyLossLooksReused'
  BY <1>21 DEF ActivateDoes, OnlyLossLooksReused, outside
<1>22. ASSUME NEW c \in Call, SavedDoes(c)  PROVE OnlyLossLooksReused'
  BY <1>22 DEF SavedDoes, OnlyLossLooksReused
<1>23. ASSUME NEW c \in Call, SaveFailsDoes(c)  PROVE OnlyLossLooksReused'
  BY <1>23 DEF SaveFailsDoes, Loses, OnlyLossLooksReused
<1>24. ASSUME NEW c \in Call, StartSyncDoes(c)  PROVE OnlyLossLooksReused'
  BY <1>24 DEF StartSyncDoes, OnlyLossLooksReused, outside
<1>25. ASSUME NEW c \in Call, StartOfflineDoes(c)  PROVE OnlyLossLooksReused'
  BY <1>25 DEF StartOfflineDoes, OnlyLossLooksReused, outside
<1>26. ASSUME NEW c \in Call, PermissionsReadDoes(c)  PROVE OnlyLossLooksReused'
  BY <1>26 DEF PermissionsReadDoes, Loses, OnlyLossLooksReused
<1>27. ASSUME NEW c \in Call, FailsDoes(c)  PROVE OnlyLossLooksReused'
  BY <1>27 DEF FailsDoes, OnlyLossLooksReused
<1>28. QED
  BY <1>1, <1>2, <1>3, <1>4, <1>5, <1>6, <1>7, <1>8, <1>9, <1>10, <1>11, <1>12, <1>13, <1>14, <1>15,
     <1>16, <1>17, <1>18, <1>19, <1>20, <1>21, <1>22, <1>23, <1>24, <1>25, <1>26, <1>27
     DEF Effects

-----------------------------------------------------------------------------
(* The database and the engine of the session.                             *)

LEMMA NextIssued ==
  ASSUME TypeOK, ResultInv, NEW c \in Call, task[c].at = "saving"
  PROVE  task[c].next # NoToken
<1>1. task[c].kind = "login" => task[c].next = First(c[2])
  BY DEF ResultInv
<1>2. task[c].kind # "login" => task[c].next = Second(task[c].from)
  BY DEF ResultInv, Unsaved
<1>3. Second(task[c].from).n = task[c].from.n + 1 /\ task[c].from.n \in Nat
  BY Tokens, TokenTypes DEF TypeOK, TaskType
<1>4. task[c].next.n # 0
  BY <1>1, <1>2, <1>3 DEF First
<1>5. QED
  BY <1>4 DEF NoToken

LEMMA EngineStays ==
  ASSUME TypeOK, DatabaseInv,
         UNCHANGED <<engine, current>> \/ Woken \/ Dropped \/ Cycles \/ \E database : Installs(database)
  PROVE  current' # 0 => ~engine'[current'].disposed
<1>1. current = 0 \/ current \in Engine
  BY DEF TypeOK
<1>2. current # 0 => ~engine[current].disposed
  BY DEF DatabaseInv
<1>3. QED
  BY <1>1, <1>2 DEF Woken, Dropped, Cycles, Installs

\* A step of one call, within its generation.
LEMMA DatabaseTurns ==
  ASSUME TypeOK, DatabaseInv, NEW c \in Call, generation' = generation, \A d \in Call \ {c} : task'[d] = task[d],
         payload' # NoToken /\ handle' = 0 => task'[Rotation(generation)].at \in {"starting", "clear"},
         task'[c].at \in {"opened", "saving", "starting"} /\ task'[c].kind # "rotation" => handle' # 0,
         task'[c].at = "starting" => task'[c].waits = handle' /\ (Fresh(c) => payload' # NoToken),
         handle' = handle \/ \A d \in Call \ {c} : task[d].at \notin {"opened", "saving", "starting"},
         \/ payload' # NoToken \/ payload = NoToken
         \/ \A d \in Call \ {c} : Fresh(d) => task[d].at # "starting",
         \A d \in Call : Uses(d)' /\ Fresh(d) /\ payload' = NoToken =>
           /\ task'[d].kind = "rotation"
           /\ handle' = 0 \/ (Latest'.kind = "login" /\ Latest'.at \in {"clearing", "waiting"}),
         SignedOut(Latest)' => payload' = NoToken /\ task'[Rotation(generation)].kind = "none",
         current' # 0 => ~engine'[current'].disposed
  PROVE  DatabaseInv'
<1>1. ASSUME NEW d \in Call
      PROVE  /\ task'[d].at \in {"opened", "saving", "starting"} /\ task'[d].kind # "rotation" => handle' # 0
             /\ task'[d].at = "starting" => task'[d].waits = handle' /\ (Fresh(d)' => payload' # NoToken)
  <2>1. CASE d = c
    BY <2>1 DEF Fresh
  <2>2. CASE d # c
    BY <2>2 DEF DatabaseInv, Fresh
  <2>3. QED
    BY <2>1, <2>2
<1>2. \A d \in Call : Fresh(d)' <=> Fresh(d)
  BY DEF Fresh
<1>3. QED
  BY <1>1, <1>2 DEF DatabaseInv

\* Neither the session in memory nor the database changes.
LEMMA DatabaseKeeps ==
  ASSUME TypeOK, DatabaseInv, NEW c \in Call, generation' = generation, \A d \in Call \ {c} : task'[d] = task[d],
         UNCHANGED <<payload, handle>>, Uses(c)' => Uses(c), task'[c].at # "starting",
         task[c].at \in {"starting", "clear"} =>
           handle # 0 \/ payload = NoToken \/ task'[c].at \in {"starting", "clear"} \/ c # Rotation(generation),
         task'[c].at \in {"opened", "saving"} =>
           \/ task[c].at \in {"opened", "saving"} /\ task'[c].kind = task[c].kind
           \/ task'[c].kind = "rotation" \/ handle # 0,
         task'[c].kind \in {"none", task[c].kind},
         task[c].kind = "login" /\ task[c].at \in {"clearing", "waiting"} =>
           task'[c].kind = "login" /\ task'[c].at \in {"clearing", "waiting"},
         SignedOut(task'[c]) => SignedOut(task[c]),
         UNCHANGED <<engine, current>> \/ Woken \/ Dropped \/ \E database : Installs(database)
  PROVE  DatabaseInv'
<1>1. current' # 0 => ~engine'[current'].disposed
  BY EngineStays
<1>2. Main(generation) \in Call /\ Rotation(generation) \in Call /\ Latest' = task'[Main(generation)]
  BY Calls DEF TypeOK, Latest
<1>3. payload' # NoToken /\ handle' = 0 => task'[Rotation(generation)].at \in {"starting", "clear"}
  BY <1>2 DEF DatabaseInv
<1>4. task'[c].at \in {"opened", "saving"} /\ task'[c].kind # "rotation" => handle # 0
  BY DEF DatabaseInv
<1>5. ASSUME NEW d \in Call, Uses(d)', Fresh(d), payload' = NoToken
      PROVE  /\ task'[d].kind = "rotation"
             /\ handle' = 0 \/ (Latest'.kind = "login" /\ Latest'.at \in {"clearing", "waiting"})
  <2>1. Uses(d) /\ task'[d].kind = task[d].kind
    BY <1>5 DEF Uses
  <2>2. task[d].kind = "rotation" /\ (handle = 0 \/ (Latest.kind = "login" /\ Latest.at \in {"clearing", "waiting"}))
    BY <1>5, <2>1 DEF DatabaseInv
  <2>3. QED
    BY <1>2, <2>1, <2>2 DEF Latest
<1>6. SignedOut(Latest') => payload' = NoToken /\ task'[Rotation(generation)].kind = "none"
  <2>1. SignedOut(Latest') => SignedOut(Latest)
    BY <1>2 DEF Latest
  <2>2. QED
    BY <1>2, <2>1 DEF DatabaseInv
<1>7. SignedOut(Latest)' => payload' = NoToken /\ task'[Rotation(generation)].kind = "none"
  BY <1>6 DEF SignedOut
<1>8. QED
  BY <1>1, <1>3, <1>4, <1>5, <1>7, DatabaseTurns

\* Of the calls of the latest generation, one has a token, unless a login has failed.
LEMMA FreshAlone ==
  ASSUME StartInv, StageInv, DatabaseInv, NEW c \in Call, NEW d \in Call, c # d, Fresh(c), Fresh(d),
         task[c].kind # "none", Uses(d)
  PROVE  /\ c = Main(generation) /\ task[d].kind = "rotation"
         /\ \/ task[c].at \in {"starting", "starting_offline"}
            \/ task[c].kind = "login" /\ task[c].then = "failed" /\ task[c].at \in Clearing
<1>1. CASE c = Main(generation) /\ d = Rotation(generation)
  <2>1. task[d].kind = "rotation" /\ task[c].kind # "rotation" /\ Latest = task[c]
    BY <1>1 DEF StageInv, Uses, Main, Rotation, Latest
  <2>2. CASE task[c].kind = "restore"
    BY <1>1, <2>1, <2>2 DEF StartInv
  <2>3. CASE task[c].kind \in {"login", "logout", "quit"}
    <3>1. ~SignedOut(task[c])
      BY <1>1, <2>1 DEF DatabaseInv
    <3>2. QED
      BY <1>1, <2>1, <2>3, <3>1 DEF SignedOut, StageInv
  <2>4. QED
    BY <2>1, <2>2, <2>3 DEF StageInv, Stage
<1>2. CASE c = Rotation(generation) /\ d = Main(generation)
  BY <1>2 DEF StartInv, StageInv, Uses, Latest, Main
<1>3. QED
  BY <1>1, <1>2, Calls DEF Fresh

\* A call that has been overtaken has nobody with a token after it.
LEMMA OvertakenAlone ==
  ASSUME TypeOK, StageInv, TakenOver, DatabaseInv, NEW c \in Call, Transits(c), ~Fresh(c), NEW d \in Call, Fresh(d)
  PROVE  ~Uses(d) /\ task[d].at # "starting" /\ payload = NoToken
<1>1. Latest.kind = "quit" \/ (Latest.kind \in {"login", "logout"} /\ Latest.at = "clear" /\ Latest.then # "failed")
  BY DEF TakenOver
<1>2. payload = NoToken /\ task[Rotation(generation)].kind = "none"
  BY <1>1 DEF SignedOut, DatabaseInv
<1>3. d = Main(generation) \/ d = Rotation(generation)
  BY Calls DEF Fresh
<1>4. QED
  BY <1>1, <1>2, <1>3 DEF Uses, Latest, StageInv, Stage

\* Whoever clears what is in memory takes it from nobody, except for a failed login.
LEMMA ClearsNobody ==
  ASSUME TypeOK, StageInv, QueueInv, TakenOver, StartInv, DatabaseInv, NEW c \in Call, IsHead(c),
         task[c].at \in {"clear", "saving"}
  PROVE  \A d \in Call \ {c} : Fresh(d) =>
           /\ task[d].at # "starting"
           /\ Uses(d) => /\ c = Main(generation) /\ task[d].kind = "rotation"
                         /\ task[c].kind = "login" /\ task[c].at = "clear"
<1>1. Transits(c)
  BY HeadTransits
<1>2. CASE ~Fresh(c)
  BY <1>1, <1>2, OvertakenAlone
<1>3. CASE Fresh(c)
  <2>1. task[c].kind # "none"
    BY DEF StageInv, Stage
  <2>2. \A d \in Call \ {c} : task[d].at # "starting"
    BY InsideIsHead DEF Inside, IsHead, StageInv, Stage
  <2>3. QED
    BY <1>3, <2>1, <2>2, FreshAlone DEF Clearing
<1>4. QED
  BY <1>2, <1>3

LEMMA NobodyInside ==
  ASSUME TypeOK, StageInv, QueueInv, NEW c \in Call, IsHead(c), NEW d \in Call \ {c}
  PROVE  /\ task[d].at \notin {"clearing", "opened", "saving", "starting"}
         /\ task[d].at = "waiting" => task[d].kind = "quit"
BY InsideIsHead DEF Inside, IsHead, StageInv, Stage

LEMMA DatabaseStep ==
  ASSUME TypeOK, StageInv, QueueInv, TakenOver, StartInv, RotationInv, MemoryInv, ResultInv, DatabaseInv, Effects
  PROVE  DatabaseInv'
<1> USE DEF SignedOut
<1>1. CASE UNCHANGED vars
  BY <1>1 DEF vars, DatabaseInv, Uses, Fresh, Latest, memory, runtime
<1>2. CASE CycleOnly
  <2>1. current' # 0 => ~engine'[current'].disposed
    BY <1>2, EngineStays DEF CycleOnly
  <2>2. QED
    BY <1>2, <2>1 DEF CycleOnly, Cycles, DatabaseInv, Uses, Fresh, Latest, memory
<1>3. CASE RotatesDoes
  <2>1. PICK c \in Call : c = Rotation(generation) /\ c # Main(generation)
    BY Calls DEF TypeOK, Main, Rotation
  <2>2. /\ task'[c].at = "asking" /\ payload # NoToken /\ \A d \in Call \ {c} : task'[d] = task[d]
        /\ UNCHANGED <<generation, payload, handle, current>> /\ Cycles
    BY <1>3, <2>1 DEF RotatesDoes, Turns, Cycles
  <2>3. Latest' = Latest /\ (current' # 0 => ~engine'[current'].disposed)
    BY <2>1, <2>2, EngineStays, Calls DEF Latest, TypeOK
  <2>4. task[c].at = "none"
    BY <1>3, <2>1 DEF RotatesDoes, RotationInv, StageInv, Stage
  <2>5. handle # 0 /\ ~SignedOut(Latest)
    BY <2>1, <2>2, <2>4 DEF DatabaseInv
  <2>6. \A d \in Call : /\ task'[d].at \in {"opened", "saving", "starting"} => task'[d] = task[d]
                        /\ Fresh(d)' <=> Fresh(d)
    BY <2>2 DEF Fresh
  <2>7. QED
    BY <2>2, <2>3, <2>5, <2>6 DEF DatabaseInv
<1>4. ASSUME NEW kind \in {"login", "logout"}, UserBeginsDoes(kind)  PROVE DatabaseInv'
  <2>1. PICK c \in Call : c = Main(generation + 1) /\ c[2] = generation + 1
    BY <1>4, NextMain DEF UserBeginsDoes, Main
  <2>2. /\ generation' = generation + 1 /\ payload' = NoToken /\ handle' = handle /\ ~(Uses(c)')
        /\ task'[c].at \in {"clear", "waiting"} /\ \A d \in Call \ {c} : task'[d] = task[d]
    BY <1>4, <2>1 DEF UserBeginsDoes, Turns, Uses, runtime
  <2>3. \A d \in Call \ {c} : task[d].kind # "none" => ~(Fresh(d)')
    BY <2>2 DEF StageInv, Fresh, TypeOK
  <2>4. task'[Rotation(generation')].kind = "none"
    BY <1>4, <2>1, <2>2, NextRotation DEF UserBeginsDoes
  <2>5. current' # 0 => ~engine'[current'].disposed
    BY <1>4, EngineStays DEF UserBeginsDoes, runtime
  <2>6. ASSUME NEW d \in Call
        PROVE  /\ task'[d].at \in {"opened", "saving", "starting"} /\ task'[d].kind # "rotation" => handle' # 0
               /\ task'[d].at = "starting" => task'[d].waits = handle' /\ ~(Fresh(d)')
               /\ ~(Uses(d)' /\ Fresh(d)')
    <3>1. CASE d = c
      BY <2>2, <3>1
    <3>2. CASE d # c
      <4>1. task'[d] = task[d]
        BY <2>2, <3>2
      <4>2. Uses(d) \/ task[d].at = "starting" => ~(Fresh(d)')
        BY <2>3, <3>2 DEF Uses, StageInv, Stage
      <4>3. QED
        BY <2>2, <4>1, <4>2 DEF DatabaseInv, Uses
    <3>3. QED
      BY <3>1, <3>2
  <2>7. QED
    BY <2>2, <2>4, <2>5, <2>6 DEF DatabaseInv
<1>5. CASE QuitDoes
  <2>1. PICK c \in Call : c = Main(generation + 1) /\ c[2] = generation + 1
    BY <1>5, NextMain DEF QuitDoes, Main
  <2>2. /\ generation' = generation + 1 /\ payload' = NoToken /\ handle' = handle /\ ~(Uses(c)')
        /\ task'[c].at \in {"clear", "waiting"} /\ \A d \in Call \ {c} : task'[d] = task[d]
    BY <1>5, <2>1 DEF QuitDoes, Turns, Uses, runtime
  <2>3. \A d \in Call \ {c} : task[d].kind # "none" => ~(Fresh(d)')
    BY <2>2 DEF StageInv, Fresh, TypeOK
  <2>4. task'[Rotation(generation')].kind = "none"
    BY <1>5, <2>1, <2>2, NextRotation DEF QuitDoes
  <2>5. current' # 0 => ~engine'[current'].disposed
    BY <1>5, EngineStays DEF QuitDoes, runtime
  <2>6. ASSUME NEW d \in Call
        PROVE  /\ task'[d].at \in {"opened", "saving", "starting"} /\ task'[d].kind # "rotation" => handle' # 0
               /\ task'[d].at = "starting" => task'[d].waits = handle' /\ ~(Fresh(d)')
               /\ ~(Uses(d)' /\ Fresh(d)')
    <3>1. CASE d = c
      BY <2>2, <3>1
    <3>2. CASE d # c
      <4>1. task'[d] = task[d]
        BY <2>2, <3>2
      <4>2. Uses(d) \/ task[d].at = "starting" => ~(Fresh(d)')
        BY <2>3, <3>2 DEF Uses, StageInv, Stage
      <4>3. QED
        BY <2>2, <4>1, <4>2 DEF DatabaseInv, Uses
    <3>3. QED
      BY <3>1, <3>2
  <2>7. QED
    BY <2>2, <2>4, <2>5, <2>6 DEF DatabaseInv
<1>6. CASE RestartsDoes
  <2>1. Main(generation + 1) \in Call /\ generation' = generation + 1
    BY <1>6, NextMain DEF RestartsDoes
  <2>2. /\ payload' = NoToken /\ current' = 0 /\ Latest'.kind = "restore"
        /\ \A d \in Call : ~(Uses(d)') /\ task'[d].at \notin {"opened", "saving", "starting"}
    BY <1>6, <2>1 DEF RestartsDoes, Latest, Uses
  <2>3. QED
    BY <2>2 DEF DatabaseInv
<1>7. CASE SessionEndsDoes
  BY <1>7 DEF SessionEndsDoes, DatabaseInv, Uses, Fresh, Latest, memory, runtime
<1>8. CASE LateRefreshDoes
  BY <1>8 DEF LateRefreshDoes, DatabaseInv, Uses, Fresh, Latest, memory, runtime
<1>9. ASSUME NEW c \in Call, SupersededDoes(c)  PROVE DatabaseInv'
  BY <1>9, DatabaseKeeps DEF SupersededDoes, Over, Turns, Woken, StageInv, Stage, Clearing, Uses, Fresh, Rotation
<1>10. ASSUME NEW c \in Call, ClearDoes(c)  PROVE DatabaseInv'
  <2>1. current' # 0 => ~engine'[current'].disposed
    BY <1>10, EngineStays DEF ClearDoes, runtime
  <2>2. /\ generation' = generation /\ payload' = NoToken /\ handle' = handle
        /\ task'[c].at = "clearing" /\ task'[c].kind = task[c].kind /\ task'[c].then = task[c].then
        /\ task[c].at = "clear" /\ \A d \in Call \ {c} : task'[d] = task[d]
    BY <1>10 DEF ClearDoes, Moves, Turns, runtime
  <2>3. \A d \in Call \ {c} : Fresh(d) => task[d].at # "starting"
    BY <1>10, ClearsNobody DEF ClearDoes
  <2>4. ASSUME NEW d \in Call, Uses(d)', Fresh(d)
        PROVE  task'[d].kind = "rotation" /\ Latest'.kind = "login" /\ Latest'.at \in {"clearing", "waiting"}
    <3>1. d # c /\ Uses(d)
      BY <2>2, <2>4 DEF Uses
    <3>2. c = Main(generation) /\ task[d].kind = "rotation" /\ task[c].kind = "login"
      BY <1>10, <2>2, <2>4, <3>1, ClearsNobody DEF ClearDoes
    <3>3. QED
      BY <2>2, <3>1, <3>2 DEF Latest
  <2>5. SignedOut(Latest') => task'[Rotation(generation)].kind = "none"
    <3>1. Main(generation) \in Call /\ Rotation(generation) \in Call
      BY Calls DEF TypeOK
    <3>2. SignedOut(Latest') => SignedOut(Latest)
      BY <2>2, <3>1 DEF Latest
    <3>3. task'[Rotation(generation)].kind = task[Rotation(generation)].kind
      BY <2>2, <3>1
    <3>4. QED
      BY <3>2, <3>3 DEF DatabaseInv
  <2>6. QED
    BY <2>1, <2>2, <2>3, <2>4, <2>5, DatabaseTurns
<1>11. ASSUME NEW c \in Call, ForgetDoes(c)  PROVE DatabaseInv'
  BY <1>11, DatabaseKeeps DEF ForgetDoes, Moves, Over, Turns, DroppedOnly, StageInv, Stage, Clearing, Uses
<1>12. ASSUME NEW c \in Call, CloseDoes(c)  PROVE DatabaseInv'
  <2>1. payload = NoToken
    BY <1>12, HeadTransits DEF CloseDoes, MemoryInv, Transits
  <2>2. \A d \in Call \ {c} : task[d].at \notin {"opened", "saving", "starting"}
    BY <1>12, NobodyInside DEF CloseDoes
  <2>3. current' # 0 => ~engine'[current'].disposed
    BY <1>12, EngineStays DEF CloseDoes
  <2>4. /\ UNCHANGED <<generation, payload>> /\ task'[c].at \in {"asking", "none"} /\ ~(Uses(c)')
        /\ task'[c].kind \in {"none", task[c].kind} /\ task[c].at = "waiting" /\ handle' = 0
        /\ task'[c].kind = "none" \/ task'[c].then = task[c].then
        /\ \A d \in Call \ {c} : task'[d] = task[d]
    BY <1>12 DEF CloseDoes, Moves, Over, Turns, Uses, StageInv
  <2>5. \A d \in Call : Uses(d)' /\ Fresh(d) => task'[d].kind = "rotation"
    BY <2>1, <2>4 DEF Uses, DatabaseInv
  <2>6. SignedOut(Latest') => task'[Rotation(generation)].kind = "none"
    <3>1. Main(generation) \in Call /\ Rotation(generation) \in Call
      BY Calls DEF TypeOK
    <3>2. SignedOut(Latest') => SignedOut(Latest)
      BY <2>4, <3>1 DEF Latest
    <3>3. task'[Rotation(generation)].kind \in {"none", task[Rotation(generation)].kind}
      BY <2>4, <3>1
    <3>4. QED
      BY <3>2, <3>3 DEF DatabaseInv
  <2>7. QED
    BY <2>1, <2>2, <2>3, <2>4, <2>5, <2>6, DatabaseTurns
<1>13. ASSUME NEW c \in Call, LoginAnsweredDoes(c)  PROVE DatabaseInv'
  BY <1>13, DatabaseKeeps DEF LoginAnsweredDoes, Over, Turns, Woken, StageInv, Stage, Clearing, Uses
<1>14. ASSUME NEW c \in Call, LoginFailsDoes(c)  PROVE DatabaseInv'
  BY <1>14, DatabaseKeeps DEF LoginFailsDoes, Moves, Over, Turns, Woken, StageInv, Stage, Clearing, Uses
<1>15. ASSUME NEW c \in Call, OpenTenantDoes(c)  PROVE DatabaseInv'
  <2>1. \A d \in Call \ {c} : task[d].at \notin {"opened", "saving", "starting"}
    BY <1>15, NobodyInside DEF OpenTenantDoes
  <2>2. handle' # 0
    BY <1>15 DEF OpenTenantDoes, TypeOK
  <2>3. /\ UNCHANGED <<generation, payload, engine, current>> /\ task'[c].at = "opened" /\ ~(Uses(c)')
        /\ task'[c].kind = task[c].kind /\ task[c].at = "open"
        /\ \A d \in Call \ {c} : task'[d] = task[d]
    BY <1>15 DEF OpenTenantDoes, Moves, Turns, Uses, StageInv, Stage, Clearing
  <2>4. current' # 0 => ~engine'[current'].disposed
    BY <2>3, EngineStays
  <2>5. Fresh(c) /\ c = Main(generation) /\ SignedOut(task[c])
    BY <1>15, <2>3, Calls DEF OpenTenantDoes, StageInv, Stage, Clearing, Fresh, Main, Rotation
  <2>6. payload = NoToken /\ task[Rotation(generation)].kind = "none"
    BY <2>5 DEF DatabaseInv, Latest
  <2>7. Rotation(generation) # c /\ Rotation(generation) \in Call
    BY <2>5, Calls DEF Main, Rotation, TypeOK
  <2>8. \A d \in Call : Fresh(d) => ~(Uses(d)')
    BY <2>3, <2>5, <2>6, Calls DEF Uses, Fresh
  <2>9. QED
    BY <2>1, <2>2, <2>3, <2>4, <2>6, <2>7, <2>8, DatabaseTurns
<1>16. ASSUME NEW c \in Call, LoadNothingDoes(c)  PROVE DatabaseInv'
  <2>1. payload = NoToken
    BY <1>16, HeadTransits DEF LoadNothingDoes, MemoryInv, Transits
  <2>2. \A d \in Call \ {c} : task[d].at \notin {"opened", "saving", "starting"}
    BY <1>16, NobodyInside DEF LoadNothingDoes
  <2>3. current' # 0 => ~engine'[current'].disposed
    BY <1>16, EngineStays DEF LoadNothingDoes
  <2>4. c = Main(generation) /\ task[c].kind = "restore"
    BY <1>16, StartsAlone DEF LoadNothingDoes
  <2>5. /\ UNCHANGED <<generation, payload>> /\ task'[c].at = "none" /\ task'[c].kind = "none"
        /\ \A d \in Call \ {c} : task'[d] = task[d]
    BY <1>16 DEF LoadNothingDoes, Over, Turns
  <2>6. \A d \in Call : Fresh(d) => ~(Uses(d)')
    BY <2>4, <2>5, <1>16, StartsAlone DEF Uses, LoadNothingDoes
  <2>7. Latest'.kind = "none"
    BY <2>4, <2>5 DEF Latest
  <2>8. QED
    BY <2>1, <2>2, <2>3, <2>5, <2>6, <2>7, DatabaseTurns
<1>17. ASSUME NEW c \in Call, LoadDoes(c)  PROVE DatabaseInv'
  <2>1. \A d \in Call \ {c} : task[d].at \notin {"opened", "saving", "starting"}
    BY <1>17, NobodyInside DEF LoadDoes
  <2>2. handle' # 0 /\ payload' # NoToken
    BY <1>17 DEF LoadDoes, TypeOK
  <2>3. c = Main(generation) /\ task[c].kind = "restore"
    BY <1>17, StartsAlone DEF LoadDoes
  <2>4. /\ UNCHANGED <<generation, engine, current>> /\ task'[c].at = "opened" /\ task[c].at = "load"
        /\ task'[c].kind = task[c].kind /\ \A d \in Call \ {c} : task'[d] = task[d]
    BY <1>17 DEF LoadDoes, Turns
  <2>5. Latest'.kind = "restore"
    BY <2>3, <2>4 DEF Latest
  <2>6. current' # 0 => ~engine'[current'].disposed
    BY <2>4, EngineStays
  <2>7. QED
    BY <2>1, <2>2, <2>4, <2>5, <2>6, DatabaseTurns
<1>18. ASSUME NEW c \in Call, OpenedDoes(c)  PROVE DatabaseInv'
  BY <1>18, DatabaseKeeps DEF OpenedDoes, Moves, Turns, StageInv, Stage, Clearing, Uses, runtime
<1>19. ASSUME NEW c \in Call, RotationAnsweredDoes(c)  PROVE DatabaseInv'
  BY <1>19, DatabaseKeeps DEF RotationAnsweredDoes, Moves, Over, Turns, Asks, Goes, StageInv, Stage, Clearing, Uses
<1>20. ASSUME NEW c \in Call, RotationGivenUpDoes(c)  PROVE DatabaseInv'
  BY <1>20, DatabaseKeeps DEF RotationGivenUpDoes, Moves, Over, Turns, Asks, Goes, StageInv, Stage, Clearing, Uses
<1>21. ASSUME NEW c \in Call, ActivateDoes(c)  PROVE DatabaseInv'
  <2>1. Uses(c) /\ Fresh(c)
    BY <1>21 DEF ActivateDoes, StageInv, Stage, Clearing, Uses
  <2>2. task[c].kind = "restore" => handle # 0
    <3>1. SUFFICES ASSUME task[c].kind = "restore"  PROVE handle # 0
      OBVIOUS
    <3>2. payload # NoToken
      BY <2>1, <3>1 DEF DatabaseInv
    <3>3. Latest = task[c]
      BY <2>1, <3>1, Calls DEF StageInv, Fresh, Latest, Main, Rotation
    <3>4. task[Rotation(generation)].kind = "none" /\ Rotation(generation) \in Call
      BY <1>21, <3>1, <3>3, Calls DEF StartInv, ActivateDoes, TypeOK
    <3>5. QED
      BY <3>2, <3>4 DEF DatabaseInv, StageInv, Stage
  <2>3. task[c].kind \in {"restore", "rotation"}
    BY <2>1 DEF Uses
  <2>4. QED
    BY <1>21, <2>1, <2>2, <2>3, DatabaseKeeps DEF ActivateDoes, Moves, Turns, Uses, runtime
<1>22. ASSUME NEW c \in Call, SavedDoes(c)  PROVE DatabaseInv'
  <2>1. current' # 0 => ~engine'[current'].disposed
    BY <1>22, EngineStays DEF SavedDoes, runtime
  <2>2. task[c].kind # "rotation" => handle # 0
    BY <1>22 DEF SavedDoes, DatabaseInv
  <2>3. CASE Fresh(c)
    <3>1. task[c].next # NoToken
      BY <1>22, NextIssued DEF SavedDoes
    <3>2. /\ generation' = generation /\ payload' # NoToken /\ handle' = handle
          /\ task'[c].at = "starting" /\ task'[c].waits = handle
          /\ task'[c].kind = task[c].kind /\ task[c].at = "saving"
          /\ \A d \in Call \ {c} : task'[d] = task[d]
      BY <1>22, <2>3, <3>1 DEF SavedDoes, Moves, Turns, runtime
    <3>3. task[c].kind = "rotation" => c = Rotation(generation)
      BY <2>3, Calls DEF StageInv, Fresh, Main, Rotation
    <3>4. ~SignedOut(Latest')
      <4>1. CASE c = Main(generation)
        BY <3>2, <4>1 DEF Latest, StageInv, Stage, Clearing
      <4>2. CASE c = Rotation(generation)
        <5>1. ~SignedOut(Latest)
          BY <3>2, <4>2 DEF DatabaseInv, StageInv, Stage
        <5>2. Latest' = Latest
          BY <3>2, <4>2, Calls DEF Latest, Main, Rotation, TypeOK
        <5>3. QED
          BY <5>1, <5>2
      <4>3. QED
        BY <2>3, <4>1, <4>2, Calls DEF Fresh
    <3>5. QED
      BY <2>1, <2>2, <3>2, <3>3, <3>4, DatabaseTurns
  <2>4. CASE ~Fresh(c)
    <3>1. /\ generation' = generation /\ payload' = NoToken /\ handle' = handle
          /\ task'[c].at = "clearing" /\ task'[c].kind = task[c].kind /\ task[c].at = "saving"
          /\ \A d \in Call \ {c} : task'[d] = task[d]
      BY <1>22, <2>4 DEF SavedDoes, Moves, Turns, runtime
    <3>2. \A d \in Call \ {c} : Fresh(d) => ~Uses(d) /\ task[d].at # "starting"
      BY <1>22, ClearsNobody DEF SavedDoes
    <3>3. \A d \in Call : Fresh(d) => ~(Uses(d)')
      BY <2>4, <3>1, <3>2 DEF Uses
    <3>4. Latest' = Latest /\ task'[Rotation(generation)] = task[Rotation(generation)]
      BY <2>4, <3>1, Calls DEF Latest, Fresh, Main, Rotation, TypeOK
    <3>5. QED
      BY <2>1, <3>1, <3>2, <3>3, <3>4, DatabaseTurns DEF DatabaseInv
  <2>5. QED
    BY <2>3, <2>4
<1>23. ASSUME NEW c \in Call, SaveFailsDoes(c)  PROVE DatabaseInv'
  <2>1. current' # 0 => ~engine'[current'].disposed
    BY <1>23, EngineStays DEF SaveFailsDoes, runtime
  <2>2. /\ generation' = generation /\ payload' = NoToken /\ handle' = handle
        /\ task'[c].at = "clearing" /\ task'[c].kind = task[c].kind /\ task[c].at = "saving"
        /\ \A d \in Call \ {c} : task'[d] = task[d]
    BY <1>23 DEF SaveFailsDoes, Moves, Turns, runtime
  <2>3. \A d \in Call \ {c} : Fresh(d) => ~Uses(d) /\ task[d].at # "starting"
    BY <1>23, ClearsNobody DEF SaveFailsDoes
  <2>4. \A d \in Call : Fresh(d) => ~(Uses(d)')
    BY <2>2, <2>3 DEF Uses
  <2>5. SignedOut(Latest') => task'[Rotation(generation)].kind = "none"
    <3>1. Main(generation) \in Call /\ Rotation(generation) \in Call
      BY Calls DEF TypeOK
    <3>2. SignedOut(Latest') => SignedOut(Latest)
      BY <2>2, <3>1 DEF Latest, StageInv, Stage, Clearing
    <3>3. task'[Rotation(generation)].kind = task[Rotation(generation)].kind
      BY <2>2, <3>1
    <3>4. QED
      BY <3>2, <3>3 DEF DatabaseInv
  <2>6. QED
    BY <2>1, <2>2, <2>3, <2>4, <2>5, DatabaseTurns
<1>24. ASSUME NEW c \in Call, StartSyncDoes(c)  PROVE DatabaseInv'
  <2>1. handle # 0
    BY <1>24 DEF StartSyncDoes, DatabaseInv
  <2>2. QED
    BY <1>24, <2>1, DatabaseKeeps DEF StartSyncDoes, Over, Turns, StageInv, Stage, Clearing, Uses
<1>25. ASSUME NEW c \in Call, StartOfflineDoes(c)  PROVE DatabaseInv'
  BY <1>25, DatabaseKeeps DEF StartOfflineDoes, Over, Turns, StageInv, Stage, Clearing, Uses
<1>26. ASSUME NEW c \in Call, PermissionsReadDoes(c)  PROVE DatabaseInv'
  BY <1>26, DatabaseKeeps DEF PermissionsReadDoes, Moves, Over, Turns, Woken, StageInv, Stage, Clearing, Uses
<1>27. ASSUME NEW c \in Call, FailsDoes(c)  PROVE DatabaseInv'
  BY <1>27, DatabaseKeeps DEF FailsDoes, Moves, Over, Turns, Woken, StageInv, Stage, Clearing, Uses, Fresh, Rotation
<1>28. QED
  BY <1>1, <1>2, <1>3, <1>4, <1>5, <1>6, <1>7, <1>8, <1>9, <1>10, <1>11, <1>12, <1>13, <1>14, <1>15,
     <1>16, <1>17, <1>18, <1>19, <1>20, <1>21, <1>22, <1>23, <1>24, <1>25, <1>26, <1>27
     DEF Effects

\* An engine started offline leaves nobody else in the application.
LEMMA OfflineAlone ==
  ASSUME TypeOK, StageInv, StartInv, EngineInv, NEW c \in Call, task[c].at = "starting_offline"
  PROVE  c = Main(generation) /\ task[c].kind = "restore" /\ \A d \in Call \ {c} : task[d].kind = "none"
<1>1. Fresh(c) /\ task[Rotation(generation)].kind = "none"
  BY DEF EngineInv
<1>2. task[c].kind = "restore" /\ c = Main(generation)
  BY <1>1, Calls DEF StageInv, Stage, Clearing, Fresh, Main, Rotation
<1>3. QED
  BY <1>1, <1>2, Calls DEF StartInv, Latest, Fresh

\* A step of one call, within its generation.
LEMMA EngineTurns ==
  ASSUME TypeOK, StageInv, StartInv, EngineInv, NEW c \in Call,
         generation' = generation, \A d \in Call \ {c} : task'[d] = task[d],
         task[c].kind \notin {"none", "quit"}, task'[c].at # "starting_offline",
         current' # 0 => engine'[current'].handle = handle' /\ handle' # 0,
         \/ current' \in {current, 0}
         \/ \A d \in Call \ {c} : task[d].at = "waiting" => task[d].kind = "quit",
         task'[c].at = "waiting" => current' = 0,
         payload' = NoToken /\ current' # 0 =>
           \/ payload = NoToken /\ current # 0
           \/ \E d \in Call :
                task'[d].kind = "quit" \/ task'[d].at = "clearing" \/ (task'[d].at = "clear" /\ Fresh(d)),
         \/ current' = 0
         \/ task[c].at = "clearing" => task'[c].at = "clearing"
         \/ \E d \in Call : task'[d].at = "clearing",
         task[c].at = "clear" /\ Fresh(c) => task'[c].at \in {"clear", "clearing"}
  PROVE  EngineInv'
<1>1. \A d \in Call : /\ Fresh(d)' <=> Fresh(d)
                      /\ task[d].kind = "quit" => task'[d].kind = "quit"
  BY DEF Fresh
<1>2. \A d \in Call : task'[d].at # "starting_offline"
  BY OfflineAlone
<1>3. \A d \in Call : task'[d].at = "waiting" /\ task'[d].kind # "quit" => current' = 0
  BY DEF EngineInv
<1>4. ASSUME payload' = NoToken, current' # 0, ~Quits'
      PROVE  \E d \in Call : task'[d].at = "clearing" \/ (task'[d].at = "clear" /\ Fresh(d)')
  <2>1. CASE payload = NoToken /\ current # 0
    <3>1. ~Quits
      BY <1>1, <1>4 DEF Quits
    <3>2. PICK d \in Call : task[d].at = "clearing" \/ (task[d].at = "clear" /\ Fresh(d))
      BY <2>1, <3>1 DEF EngineInv
    <3>3. CASE d = c
      BY <1>1, <1>4, <3>2, <3>3
    <3>4. CASE d # c
      BY <1>1, <3>2, <3>4
    <3>5. QED
      BY <3>3, <3>4
  <2>2. CASE \E d \in Call : task'[d].at = "clearing" \/ (task'[d].at = "clear" /\ Fresh(d))
    BY <1>1, <2>2
  <2>3. QED
    BY <1>4, <2>1, <2>2 DEF Quits
<1>5. QED
  BY <1>2, <1>3, <1>4 DEF EngineInv

\* Neither the engine nor its database changes.
LEMMA EngineKeeps ==
  ASSUME TypeOK, StageInv, StartInv, EngineInv, NEW c \in Call,
         generation' = generation, \A d \in Call \ {c} : task'[d] = task[d],
         task[c].kind \notin {"none", "quit"}, task'[c].at \notin {"starting_offline", "waiting"},
         UNCHANGED <<engine, current>> \/ Woken \/ Dropped, current' = 0 \/ handle' = handle,
         payload' # NoToken \/ payload = NoToken \/ task'[c].at = "clearing",
         current' = 0 \/ (task[c].at = "clearing" => task'[c].at = "clearing"),
         task[c].at = "clear" /\ Fresh(c) => task'[c].at \in {"clear", "clearing"}
  PROVE  EngineInv'
<1>1. current = 0 \/ current \in Engine
  BY DEF TypeOK
<1>2. current' # 0 => current' = current /\ engine'[current'].handle = handle' /\ handle' # 0
  BY <1>1 DEF EngineInv, Woken, Dropped
<1>3. current' \in {current, 0}
  BY DEF Woken, Dropped
<1>4. payload' = NoToken /\ current' # 0 => (payload = NoToken /\ current # 0) \/ task'[c].at = "clearing"
  BY <1>2
<1>5. QED
  BY <1>2, <1>3, <1>4, EngineTurns

\* A call in its transition is not the end of the application.
LEMMA HeadKind ==
  ASSUME TypeOK, StageInv, QueueInv, NEW c \in Call, IsHead(c)
  PROVE  task[c].kind \notin {"none", "quit"}
BY HeadTransits DEF Transits, StageInv, Stage, Entries, Inside

LEMMA EngineStep ==
  ASSUME "start" \notin Overlaps, TypeOK, StageInv, QueueInv, TakenOver, StartInv, ResultInv, DatabaseInv,
         EngineInv, Effects
  PROVE  EngineInv'
<1>1. CASE UNCHANGED vars
  BY <1>1 DEF vars, EngineInv, Unused, Running, Fresh, Quits, memory, runtime
<1>2. CASE CycleOnly
  <2>1. current # 0 => current \in Engine /\ ~engine[current].disposed
    BY DEF TypeOK, DatabaseInv
  <2>2. \A e \in Engine : Unused(e) => Unused(e)'
    BY <1>2 DEF CycleOnly, Cycles, Unused, Running
  <2>3. current' # 0 => engine'[current'].handle = handle' /\ handle' # 0
    BY <1>2, <2>1 DEF CycleOnly, Cycles, EngineInv
  <2>4. QED
    BY <1>2, <2>2, <2>3 DEF CycleOnly, Cycles, EngineInv, Fresh, Quits, memory
<1>3. CASE RotatesDoes
  <2>1. PICK c \in Call : c = Rotation(generation)
    BY Calls DEF TypeOK
  <2>2. current # 0 => current \in Engine /\ ~engine[current].disposed
    BY DEF TypeOK, DatabaseInv
  <2>3. /\ UNCHANGED <<generation, payload>> /\ payload # NoToken /\ task'[c].at = "asking"
        /\ \A d \in Call \ {c} : task'[d] = task[d]
    BY <1>3, <2>1 DEF RotatesDoes, Turns
  <2>4. current' # 0 => engine'[current'].handle = handle' /\ handle' # 0
    BY <1>3, <2>2 DEF RotatesDoes, Cycles, EngineInv
  <2>5. \A d \in Call : task[d].at # "starting_offline"
    BY <1>3 DEF RotatesDoes, EngineInv, UserActs, Goes
  <2>6. \A d \in Call : task'[d].at # "starting_offline"
    BY <2>3, <2>5
  <2>7. \A d \in Call : task'[d].at = "waiting" /\ task'[d].kind # "quit" => current' = 0
    BY <1>3, <2>3 DEF RotatesDoes, Cycles, EngineInv
  <2>8. QED
    BY <2>3, <2>4, <2>6, <2>7 DEF EngineInv
<1>4. ASSUME NEW kind \in {"login", "logout"}, UserBeginsDoes(kind)  PROVE EngineInv'
  <2>1. PICK c \in Call : c = Main(generation + 1)
    BY <1>4, NextMain DEF UserBeginsDoes
  <2>2. /\ task'[c].at = "clear" /\ UNCHANGED runtime /\ \A d \in Call \ {c} : task'[d] = task[d]
    BY <1>4, <2>1 DEF UserBeginsDoes, Turns
  <2>3. Fresh(c)'
    BY <1>4, <2>1 DEF UserBeginsDoes, Fresh, Main
  <2>4. \A d \in Call : task'[d].at # "starting_offline"
    BY <1>4, <2>2 DEF UserBeginsDoes, UserActs, Goes
  <2>5. QED
    BY <2>2, <2>3, <2>4 DEF EngineInv, runtime
<1>5. CASE QuitDoes
  <2>1. PICK c \in Call : c = Main(generation + 1)
    BY <1>5, NextMain DEF QuitDoes
  <2>2. /\ task'[c].kind = "quit" /\ task'[c].at = "waiting" /\ current' = 0
        /\ \A d \in Call \ {c} : task'[d] = task[d]
    BY <1>5, <2>1 DEF QuitDoes, Turns, Dropped
  <2>3. \A d \in Call : task'[d].at # "starting_offline"
    BY <1>5, <2>2 DEF QuitDoes, UserActs, Goes
  <2>4. QED
    BY <2>2, <2>3 DEF EngineInv
<1>6. CASE RestartsDoes
  <2>1. current' = 0 /\ \A d \in Call : task'[d].at # "starting_offline"
    BY <1>6 DEF RestartsDoes
  <2>2. QED
    BY <2>1 DEF EngineInv
<1>7. CASE SessionEndsDoes
  BY <1>7 DEF SessionEndsDoes, EngineInv, Unused, Running, Fresh, Quits, memory, runtime
<1>8. CASE LateRefreshDoes
  BY <1>8 DEF LateRefreshDoes, EngineInv, Unused, Running, Fresh, Quits, memory, runtime
<1>9. ASSUME NEW c \in Call, SupersededDoes(c)  PROVE EngineInv'
  BY <1>9, EngineKeeps, HeadKind DEF SupersededDoes, Over, Turns, Woken
<1>10. ASSUME NEW c \in Call, ClearDoes(c)  PROVE EngineInv'
  BY <1>10, EngineKeeps, HeadKind DEF ClearDoes, Moves, Turns, runtime
<1>11. ASSUME NEW c \in Call, ForgetDoes(c)  PROVE EngineInv'
  <2>1. task[c].kind \notin {"none", "quit"} /\ current' = 0 /\ task[c].at = "clearing"
    BY <1>11, HeadKind DEF ForgetDoes, DroppedOnly, Dropped
  <2>2. /\ UNCHANGED <<generation, payload>> /\ task'[c].at \in {"waiting", "none"}
        /\ \A d \in Call \ {c} : task'[d] = task[d]
    BY <1>11 DEF ForgetDoes, Moves, Over, Turns
  <2>3. QED
    BY <2>1, <2>2, EngineTurns
<1>12. ASSUME NEW c \in Call, CloseDoes(c)  PROVE EngineInv'
  <2>1. current = 0 /\ task[c].kind \notin {"none", "quit"} /\ task[c].at = "waiting"
    BY <1>12, HeadKind DEF CloseDoes, EngineInv
  <2>2. UNCHANGED <<engine, current>> \/ Woken
    BY <1>12 DEF CloseDoes
  <2>3. current' = 0
    BY <2>1, <2>2 DEF Woken
  <2>4. /\ UNCHANGED <<generation, payload>> /\ task'[c].at \in {"asking", "none"}
        /\ \A d \in Call \ {c} : task'[d] = task[d]
    BY <1>12 DEF CloseDoes, Moves, Over, Turns
  <2>5. QED
    BY <2>1, <2>2, <2>3, <2>4, EngineKeeps
<1>13. ASSUME NEW c \in Call, LoginAnsweredDoes(c)  PROVE EngineInv'
  BY <1>13, EngineKeeps DEF LoginAnsweredDoes, Over, Turns, Woken
<1>14. ASSUME NEW c \in Call, LoginFailsDoes(c)  PROVE EngineInv'
  BY <1>14, EngineKeeps DEF LoginFailsDoes, Moves, Over, Turns, Woken
<1>15. ASSUME NEW c \in Call, OpenTenantDoes(c)  PROVE EngineInv'
  <2>1. task[c].kind \notin {"none", "quit"}
    BY <1>15, HeadKind DEF OpenTenantDoes
  <2>2. current = 0 \/ handle' = handle
    BY <1>15 DEF OpenTenantDoes, EngineInv
  <2>3. QED
    BY <1>15, <2>1, <2>2, EngineKeeps DEF OpenTenantDoes, Moves, Turns
<1>16. ASSUME NEW c \in Call, LoadNothingDoes(c)  PROVE EngineInv'
  <2>1. task[c].kind \notin {"none", "quit"} /\ current' = 0
    BY <1>16, HeadKind DEF LoadNothingDoes, Dropped
  <2>2. QED
    BY <1>16, <2>1, EngineKeeps DEF LoadNothingDoes, Over, Turns
<1>17. ASSUME NEW c \in Call, LoadDoes(c)  PROVE EngineInv'
  <2>1. task[c].kind \notin {"none", "quit"}
    BY <1>17, HeadKind DEF LoadDoes
  <2>2. current = 0 \/ handle' = handle
    BY <1>17 DEF LoadDoes, EngineInv
  <2>3. QED
    BY <1>17, <2>1, <2>2, EngineKeeps DEF LoadDoes, Turns
<1>18. ASSUME NEW c \in Call, OpenedDoes(c)  PROVE EngineInv'
  BY <1>18, EngineKeeps, HeadKind DEF OpenedDoes, Moves, Turns, runtime
<1>19. ASSUME NEW c \in Call, RotationAnsweredDoes(c)  PROVE EngineInv'
  BY <1>19, EngineKeeps DEF RotationAnsweredDoes, Moves, Over, Turns, Asks, Goes, StageInv, Stage
<1>20. ASSUME NEW c \in Call, RotationGivenUpDoes(c)  PROVE EngineInv'
  <2>1. task[c].kind \notin {"none", "quit"} /\ task[c].at = "asking" /\ Uses(c)
    BY <1>20 DEF RotationGivenUpDoes, Asks, Goes, StageInv, Stage, Clearing, Uses
  <2>2. CASE Fresh(c) /\ task[c].kind = "restore"
    <3>1. c = Main(generation) /\ Rotation(generation) \in Call /\ c # Rotation(generation)
      BY <2>2, Calls DEF StageInv, Fresh, Main, Rotation, TypeOK
    <3>2. Latest.kind = "restore" /\ Latest.at = "asking"
      BY <2>1, <2>2, <3>1 DEF Latest
    <3>3. /\ \A d \in Call \ {c} : task[d].kind = "none"
          /\ \A e \in Engine : Unused(e)
      BY <3>1, <3>2, Calls DEF StartInv, Fresh
    <3>4. /\ UNCHANGED <<generation, payload, handle, engine, current>> /\ task'[c].at = "starting_offline"
          /\ task'[c].waits = handle /\ \A d \in Call \ {c} : task'[d] = task[d]
      BY <1>20, <2>2 DEF RotationGivenUpDoes, Moves, Over, Turns
    <3>5. payload # NoToken
      BY <2>1, <2>2 DEF DatabaseInv
    <3>6. \A d \in Call \ {c} : task'[d].kind = "none" /\ task'[d].at = "none"
      BY <3>3, <3>4 DEF StageInv, Stage
    <3>7. \A e \in Engine : Unused(e)'
      BY <3>3, <3>4 DEF Unused, Running
    <3>8. Fresh(c)'
      BY <2>2, <3>4 DEF Fresh
    <3>9. QED
      BY <3>1, <3>4, <3>5, <3>6, <3>7, <3>8 DEF EngineInv
  <2>3. CASE ~(Fresh(c) /\ task[c].kind = "restore")
    BY <1>20, <2>1, <2>3, EngineKeeps DEF RotationGivenUpDoes, Over, Turns
  <2>4. QED
    BY <2>2, <2>3
<1>21. ASSUME NEW c \in Call, ActivateDoes(c)  PROVE EngineInv'
  BY <1>21, EngineKeeps, HeadKind DEF ActivateDoes, Moves, Turns, runtime
<1>22. ASSUME NEW c \in Call, SavedDoes(c)  PROVE EngineInv'
  <2>1. task[c].kind \notin {"none", "quit"}
    BY <1>22, HeadKind DEF SavedDoes
  <2>2. task[c].next # NoToken
    BY <1>22, NextIssued DEF SavedDoes
  <2>3. QED
    BY <1>22, <2>1, <2>2, EngineKeeps DEF SavedDoes, Moves, Turns, runtime
<1>23. ASSUME NEW c \in Call, SaveFailsDoes(c)  PROVE EngineInv'
  BY <1>23, EngineKeeps, HeadKind DEF SaveFailsDoes, Moves, Turns, runtime
<1>24. ASSUME NEW c \in Call, StartSyncDoes(c)  PROVE EngineInv'
  <2>1. task[c].kind \notin {"none", "quit"} /\ Transits(c)
    BY <1>24, HeadKind, HeadTransits DEF StartSyncDoes
  <2>2. task[c].waits = handle /\ handle # 0 /\ (Fresh(c) => payload # NoToken)
    BY <1>24 DEF StartSyncDoes, DatabaseInv
  <2>3. \A d \in Call \ {c} : task[d].at = "waiting" => task[d].kind = "quit"
    BY <1>24, NobodyInside DEF StartSyncDoes
  <2>4. /\ UNCHANGED <<generation, payload, handle>> /\ task'[c].at = "none" /\ task[c].at = "starting"
        /\ \A d \in Call \ {c} : task'[d] = task[d]
    BY <1>24 DEF StartSyncDoes, Over, Turns
  <2>5. ASSUME ~Fresh(c)
        PROVE  \E d \in Call : task'[d].kind = "quit" \/ (task'[d].at = "clear" /\ Fresh(d))
    <3>1. Latest.kind = "quit" \/ Latest.at = "clear"
      BY <2>1, <2>5 DEF TakenOver
    <3>2. Main(generation) \in Call \ {c} /\ Fresh(Main(generation))
      BY <2>5, Calls DEF Fresh, Main, TypeOK
    <3>3. QED
      BY <2>4, <3>1, <3>2 DEF Latest
  <2>6. CASE Woken
    BY <2>1, <2>4, <2>6, EngineKeeps
  <2>7. CASE Installs(task[c].waits)
    <3>1. engine'[current'].handle = handle
      BY <2>2, <2>7 DEF Installs
    <3>2. QED
      BY <2>1, <2>2, <2>3, <2>4, <2>5, <3>1, EngineTurns
  <2>8. QED
    BY <1>24, <2>6, <2>7 DEF StartSyncDoes
<1>25. ASSUME NEW c \in Call, StartOfflineDoes(c)  PROVE EngineInv'
  <2>1. task[c].kind = "restore" /\ \A d \in Call \ {c} : task[d].kind = "none"
    BY <1>25, OfflineAlone DEF StartOfflineDoes
  <2>2. payload # NoToken /\ task[c].waits = handle /\ handle # 0
    <3>1. payload # NoToken /\ task[c].waits = handle /\ task[Rotation(generation)].kind = "none"
      BY <1>25 DEF StartOfflineDoes, EngineInv
    <3>2. task[Rotation(generation)].at = "none"
      BY <3>1, Calls DEF StageInv, Stage, TypeOK
    <3>3. QED
      BY <3>1, <3>2 DEF DatabaseInv
  <2>3. \A d \in Call \ {c} : task[d].at # "waiting"
    BY <2>1 DEF StageInv, Stage
  <2>4. /\ UNCHANGED <<generation, payload, handle>> /\ task'[c].at = "none" /\ task[c].at = "starting_offline"
        /\ \A d \in Call \ {c} : task'[d] = task[d]
    BY <1>25 DEF StartOfflineDoes, Over, Turns
  <2>5. CASE Woken
    BY <2>1, <2>4, <2>5, EngineKeeps
  <2>6. CASE Installs(task[c].waits)
    <3>1. engine'[current'].handle = handle
      BY <2>2, <2>6 DEF Installs
    <3>2. QED
      BY <2>1, <2>2, <2>3, <2>4, <3>1, EngineTurns
  <2>7. QED
    BY <1>25, <2>5, <2>6 DEF StartOfflineDoes
<1>26. ASSUME NEW c \in Call, PermissionsReadDoes(c)  PROVE EngineInv'
  BY <1>26, EngineKeeps DEF PermissionsReadDoes, Over, Moves, Turns, Woken, StageInv, Stage
<1>27. ASSUME NEW c \in Call, FailsDoes(c)  PROVE EngineInv'
  BY <1>27, EngineKeeps, HeadKind DEF FailsDoes, Over, Moves, Turns, Woken
<1>28. QED
  BY <1>1, <1>2, <1>3, <1>4, <1>5, <1>6, <1>7, <1>8, <1>9, <1>10, <1>11, <1>12, <1>13, <1>14, <1>15,
     <1>16, <1>17, <1>18, <1>19, <1>20, <1>21, <1>22, <1>23, <1>24, <1>25, <1>26, <1>27
     DEF Effects

-----------------------------------------------------------------------------
(* The inductive invariant.                                                *)

LEMMA InitTasks ==
  ASSUME Init
  PROVE  /\ Main(1) \in Call /\ Rotation(1) \in Call /\ Main(1) # Rotation(1)
         /\ task \in [Call -> TaskType]
         /\ task[Main(1)].kind = "restore" /\ task[Main(1)].at = "load" /\ task[Main(1)].then = "done"
         /\ \A c \in Call \ {Main(1)} : task[c].kind = "none" /\ task[c].at = "none" /\ task[c].then = "done"
<1>1. 1 \in 1 .. MaxGeneration
  BY DesktopSessionAssumption
<1>2. Main(1) \in Call /\ Rotation(1) \in Call /\ Main(1) # Rotation(1)
  BY <1>1, Calls DEF Main, Rotation
<1>3. PICK t : t = NewTask("restore", "load", "done", NoToken)
  OBVIOUS
<1>4. t \in TaskType /\ t.kind = "restore" /\ t.at = "load" /\ t.then = "done"
  BY <1>3, NewTasks, Constants DEF Kinds, AllStages, Entries
<1>5. task = [c \in Call |-> IF c = Main(1) THEN t ELSE NoTask]
  BY <1>3 DEF Init, Main
<1>6. QED
  BY <1>2, <1>4, <1>5, Constants

LEMMA InitType == Init => TypeOK
<1> SUFFICES ASSUME Init  PROVE TypeOK
  OBVIOUS
<1>1. 0 \in Session /\ First(0) \in Token /\ NoToken \in Token
  BY Constants, Tokens DEF Session
<1>2. access \in Token /\ payload \in Token /\ store \in Token
  BY <1>1 DEF Init
<1>3. queue \in Seq(Call) /\ task \in [Call -> TaskType]
  BY InitTasks DEF Init, Main
<1>4. engine \in [Engine -> EngineType]
  BY Constants DEF Init
<1>5. server \in [Session -> [n : Nat, status : {"LIVE", "REUSED", "ENDED"}]]
  BY DEF Init
<1>6. generation \in 1 .. MaxGeneration
  BY DesktopSessionAssumption DEF Init
<1>7. QED
  BY <1>2, <1>3, <1>4, <1>5, <1>6 DEF Init, TypeOK

LEMMA InitIInv == Init => IInv /\ EngineInv
<1> SUFFICES ASSUME Init  PROVE IInv /\ EngineInv
  OBVIOUS
<1>1. TypeOK
  BY InitType
<1>2. /\ generation = 1 /\ era = 0 /\ access = NoToken /\ payload = NoToken /\ queue = <<Main(1)>>
      /\ handle = 0 /\ current = 0 /\ late = {}
      /\ state # "OFFLINE_SESSION_PENDING" /\ \A e \in Engine : Unused(e)
      /\ \A s \in Session : server[s].status = "LIVE"
  BY Constants DEF Init, Main, Unused, Running
<1>3. \A c \in Call : ~Uses(c) /\ ~Unsaved(c)
  BY InitTasks DEF Uses, Unsaved
<1>4. store # NoToken => store.session = 0 /\ store.n = server[store.session].n
  BY Constants DEF Init, First, Session
<1>5. StageInv
  BY <1>2, InitTasks DEF StageInv, Stage, Main, Clearing
<1>6. QueueInv
  <2>1. Len(queue) = 1 /\ queue[1] = Main(1)
    BY <1>2
  <2>2. \A c \in Call : Transits(c) <=> c = Main(1)
    BY InitTasks DEF Transits, Entries, Inside
  <2>3. QED
    BY <2>1, <2>2, InitTasks DEF QueueInv
<1>7. TakenOver /\ StartInv /\ RotationInv /\ MemoryInv
  BY <1>2, InitTasks DEF TakenOver, StartInv, RotationInv, MemoryInv, Latest, Fresh, Transits, Main, Entries, Inside
<1>8. ResultInv /\ OneUser /\ LoginInv
  BY <1>3, InitTasks DEF ResultInv, OneUser, LoginInv
<1>9. SessionInv
  BY <1>2, <1>3, <1>4, Constants DEF SessionInv
<1>10. NewestInv
  BY <1>2, <1>3, <1>4 DEF NewestInv
<1>11. DatabaseInv
  BY <1>2, <1>3, InitTasks DEF DatabaseInv, Latest
<1>12. TokenIsSaved /\ OnlyLossLooksReused
  BY <1>2 DEF TokenIsSaved, OnlyLossLooksReused
<1>13. EngineInv
  BY <1>2, InitTasks DEF EngineInv
<1>14. QED
  BY <1>1, <1>5, <1>6, <1>7, <1>8, <1>9, <1>10, <1>11, <1>12, <1>13 DEF IInv

LEMMA NextIInv == IInv /\ [Next]_vars => IInv'
<1> SUFFICES ASSUME IInv, [Next]_vars  PROVE IInv'
  OBVIOUS
<1>1. /\ TypeOK /\ StageInv /\ QueueInv /\ TakenOver /\ StartInv /\ RotationInv /\ MemoryInv
      /\ ResultInv /\ SessionInv /\ OneUser /\ LoginInv /\ NewestInv /\ DatabaseInv
      /\ TokenIsSaved /\ OnlyLossLooksReused
  BY DEF IInv
<1>2. Effects
  BY <1>1, NextEffects
<1>3. TypeOK' /\ StageInv' /\ QueueInv' /\ TakenOver' /\ RotationInv' /\ MemoryInv' /\ ResultInv'
  BY <1>1, <1>2, TypeStep, StageStep, QueueStep, TakenOverStep, RotationStep, MemoryStep, ResultStep
<1>4. StartInv' /\ SessionInv' /\ OneUser' /\ LoginInv' /\ NewestInv' /\ DatabaseInv'
  BY <1>1, <1>2, StartStep, SessionStep, UserStep, LoginStep, NewestStep, DatabaseStep
<1>5. TokenIsSaved' /\ OnlyLossLooksReused'
  BY <1>1, <1>2, TokenStep, ReusedStep
<1>6. QED
  BY <1>3, <1>4, <1>5 DEF IInv

\* Every reachable state satisfies the inductive invariant of the session.
THEOREM SessionInvariant == Spec => []IInv
<1>1. Init => IInv
  BY InitIInv
<1>2. IInv /\ [Next]_vars => IInv'
  BY NextIInv
<1>3. QED
  BY <1>1, <1>2, PTL DEF Spec

-----------------------------------------------------------------------------
(* What it implies.                                                        *)

\* Variables keep their types: among them, the rotation in progress is one of the
\* current generation.
THEOREM SessionTypeCorrect == Spec => []TypeOK
<1>1. IInv => TypeOK
  BY DEF IInv
<1>2. QED
  BY <1>1, SessionInvariant, PTL

\* The access token that requests carry belongs to a refresh token that is saved:
\* activate writes the store before it sets accessTokenValue, and everything that
\* deletes or replaces what is saved has left the memory before.
THEOREM UsedTokenIsSaved == Spec => []TokenIsSaved
<1>1. IInv => TokenIsSaved
  BY DEF IInv
<1>2. QED
  BY <1>1, SessionInvariant, PTL

LEMMA QueueOfCall ==
  ASSUME TypeOK, StageInv, QueueInv, queue = <<>>, NEW c \in Call
  PROVE  task[c].at \notin {"clear", "clearing"}
BY DEF QueueInv, Transits, Entries, Inside, StageInv, Stage

LEMMA LeftFollows == IInv => LeftStaysLeft
<1> SUFFICES ASSUME IInv  PROVE LeftStaysLeft
  OBVIOUS
<1>1. TypeOK /\ StageInv /\ QueueInv /\ SessionInv /\ TokenIsSaved
  BY DEF IInv
<1>2. payload # NoToken => payload.session >= era
  BY <1>1, TokenTypes DEF SessionInv
<1>3. access # NoToken => access.session >= era
  BY <1>1, <1>2 DEF TokenIsSaved
<1>4. queue = <<>> /\ store # NoToken => store.session >= era
  <2>1. Main(generation) \in Call
    BY <1>1, Calls DEF TypeOK
  <2>2. QED
    BY <1>1, <2>1, QueueOfCall, TokenTypes DEF SessionInv, Latest
<1>5. QED
  BY <1>2, <1>3, <1>4 DEF LeftStaysLeft

\* A rotation or a login that ends after the user has left its session brings
\* nothing of it back, although it may write the store: what it writes is deleted by
\* the call that took over, which is queued behind it.
THEOREM WhatWasLeftStaysLeft == Spec => []LeftStaysLeft
<1>1. QED
  BY LeftFollows, SessionInvariant, PTL

\* The server never takes a token for a stolen one unless a token it had issued was
\* not saved: no token is sent twice, by cycles refused at once or by a restart.
THEOREM OnlyLossEndsSessions == Spec => []OnlyLossLooksReused
<1>1. IInv => OnlyLossLooksReused
  BY DEF IInv
<1>2. QED
  BY <1>1, SessionInvariant, PTL

LEMMA NextEngine == "start" \notin Overlaps /\ IInv /\ EngineInv /\ [Next]_vars => EngineInv'
<1> SUFFICES ASSUME "start" \notin Overlaps, IInv, EngineInv, [Next]_vars  PROVE EngineInv'
  OBVIOUS
<1>1. TypeOK /\ StageInv /\ QueueInv /\ TakenOver /\ StartInv /\ ResultInv /\ DatabaseInv
  BY DEF IInv
<1>2. Effects
  BY <1>1, NextEffects
<1>3. QED
  BY <1>1, <1>2, EngineStep

LEMMA EngineFollows == IInv /\ EngineInv => EngineMatchesSession
<1> SUFFICES ASSUME IInv, EngineInv, queue = <<>>, current # 0, \A c \in Call : task[c].kind # "quit"
             PROVE  handle # 0 /\ engine[current].handle = handle /\ payload # NoToken
  BY DEF EngineMatchesSession
<1>1. TypeOK /\ StageInv /\ QueueInv
  BY DEF IInv
<1>2. payload # NoToken
  BY <1>1, QueueOfCall DEF EngineInv, Quits
<1>3. QED
  BY <1>2 DEF EngineInv

\* While the user does not act during the start of an engine outside of the queue,
\* the engine of the registry works, between transitions, on the open database and
\* for the session in memory.  With that overlap it does not hold.
THEOREM EngineHasTheDatabase ==
  ASSUME "start" \notin Overlaps
  PROVE  Spec => []EngineMatchesSession
<1>1. Init => EngineInv
  BY InitIInv
<1>2. IInv /\ EngineInv /\ [Next]_vars => EngineInv'
  BY NextEngine
<1>3. IInv /\ EngineInv => EngineMatchesSession
  BY EngineFollows
<1>4. QED
  BY <1>1, <1>2, <1>3, SessionInvariant, PTL DEF Spec
=============================================================================
