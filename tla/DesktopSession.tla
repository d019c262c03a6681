--------------------------- MODULE DesktopSession ---------------------------
(***************************************************************************)
(* Signing in and out of a tenant on one device: DesktopAuthService        *)
(* (desktop-auth.service.ts), the tenant runtime it drives                 *)
(* (desktop-tenant-runtime.ts: the open database and the sync engine), the *)
(* cycles of sync engines that ask it for tokens and for new ones after a  *)
(* 401 (authenticated-http-client.ts), and the sessions on the server that *)
(* the refresh tokens rotate (tenant-auth.service.ts).                     *)
(*                                                                         *)
(* The application is one thread: a step is what runs between two awaits.  *)
(* login, logout, restoreSession and the rotation of a session are         *)
(* asynchronous calls which check, after an await, that operationGeneration *)
(* is still theirs; their changes of the store and the database are queued *)
(* one after the other (runTransition).                                    *)
(*                                                                         *)
(* Every login is to the same company: a login clears the previous         *)
(* database before it opens one, whichever it is.  A session is named by   *)
(* the generation of the login that created it, an access token by the     *)
(* refresh token issued with it.  Permissions, timezone and the device's   *)
(* identity are left out, and the file of the store can be deleted.        *)
(***************************************************************************)
EXTENDS Integers, Sequences, FiniteSets

CONSTANTS
  Engine,         \* sync engines alive at the same time
  Overlaps,       \* what the user acts during: the "save" of a rotated token, the
                  \* "start" of an engine outside of the queue
  MaxGeneration,  \* bound on logins, logouts and starts of the application
  MaxToken,       \* bound on the refresh tokens of a session
  MaxFaults       \* bound on lost replies, failed writes, crashes and expired sessions

ASSUME DesktopSessionAssumption ==
  /\ Overlaps \subseteq {"save", "start"} /\ Engine \subseteq Nat \ {0}
  /\ MaxGeneration \in Nat \ {0} /\ MaxToken \in Nat \ {0} /\ MaxFaults \in Nat

VARIABLES
  \* DesktopAuthService.
  generation,  \* operationGeneration
  era,         \* the generation of the last login or logout of this run, or 0
  state,       \* authState
  access,      \* accessTokenValue
  payload,     \* sessionPayload
  refreshing,  \* refreshInFlight
  task,        \* calls in progress
  queue,       \* transitions from the running one to transitionTail
  \* DesktopTenantRuntime, SyncEngineRegistry.
  handle,      \* the open database, 0 when none is
  current,     \* the engine of the registry, 0 when there is none
  engine,      \* the engines
  \* What outlives the application.
  store,       \* the saved session
  server,      \* the sessions on the server
  late,        \* refresh requests the device has given up
  lost,        \* sessions of which a token the server issued was not saved
  faults

memory == <<generation, era, state, access, payload, refreshing, task, queue>>
runtime == <<handle, current, engine>>
outside == <<store, server, late, lost, faults>>
vars == <<memory, runtime, outside>>

Session == 0 .. MaxGeneration
NoToken == [session |-> 0, n |-> 0]
First(s) == [session |-> s, n |-> 1]
Second(token) == [token EXCEPT !.n = @ + 1]

Call == {"main", "rotation"} \X (1 .. MaxGeneration)
NoCall == <<"none", 0>>
NoTask == [kind |-> "none", at |-> "none", then |-> "done", from |-> NoToken, next |-> NoToken, waits |-> 0]
NewTask(kind, at, then, from) ==
  [NoTask EXCEPT !.kind = kind, !.at = at, !.then = then, !.from = from]

\* An engine of the pool that does not exist.
NoEngine == [at |-> "idle", disposed |-> TRUE, handle |-> 0, token |-> NoToken, joins |-> NoCall]

Running(e) == engine[e].at # "idle"

Init ==
  /\ generation = 1 /\ era = 0 /\ state = "REFRESHING"
  /\ access = NoToken /\ payload = NoToken /\ refreshing = NoCall
  /\ task = [c \in Call |-> IF c = <<"main", 1>> THEN NewTask("restore", "load", "done", NoToken) ELSE NoTask]
  /\ queue = <<<<"main", 1>>>>
  /\ handle = 0 /\ current = 0 /\ engine = [e \in Engine |-> NoEngine]
  /\ store \in {NoToken, First(0)}
  /\ server = [s \in Session |-> [n |-> IF s = 0 THEN 1 ELSE 0, status |-> "LIVE"]]
  /\ late = {} /\ lost = {} /\ faults = 0

(***************************************************************************)
(* Calls, transitions and the cycles that wait for them.                   *)
(***************************************************************************)
Fresh(c) == c[2] = generation
Goes(c, at) == task[c].at = at
Enters(c, at) == queue # <<>> /\ Head(queue) = c /\ Goes(c, at)
At(c, at) == [task EXCEPT ![c].at = at]

\* Cycles that await the rotation c go on with its result: with a request that
\* got a 401 again, or with one that waited for a token.
Resumed(c, ok, engines) ==
  [e \in Engine |->
    IF engines[e].joins # c THEN engines[e]
    ELSE [engines[e] EXCEPT !.joins = NoCall,
            !.at = IF ~ok \/ access = NoToken THEN "failing"
                   ELSE IF @ = "rejected" THEN "again" ELSE "sent",
            !.token = IF ok THEN access ELSE NoToken]]

\* The call c is over; ok is what a rotation returns.
Ends(c, ok, engines) ==
  /\ task' = [task EXCEPT ![c] = NoTask]
  /\ refreshing' = IF refreshing = c THEN NoCall ELSE refreshing
  /\ engine' = Resumed(c, ok, engines)

\* A refresh is on its way to the server; its answer has come and is not saved yet.
Asks(c) == Goes(c, "asking") /\ task[c].kind # "login"
Unsaved(c) == task[c].at \in {"reading", "activate", "saving"} /\ task[c].kind # "login"
Losing(c) == lost' = IF Asks(c) \/ Unsaved(c) THEN lost \cup {task[c].from.session} ELSE lost

\* c leaves its transition, and is over.
Leaves(c, ok, engines) == queue' = Tail(queue) /\ Ends(c, ok, engines)

\* A transition finds that a later call has taken over.
Superseded(c) ==
  /\ queue # <<>> /\ Head(queue) = c /\ ~Fresh(c)
  /\ \/ task[c].at \in {"load", "open", "opened", "activate"}
     \/ task[c].at = "clear" /\ task[c].kind # "logout"
  /\ Leaves(c, FALSE, engine)
  /\ Losing(c)
  /\ UNCHANGED <<generation, era, state, access, payload, handle, current, store, server, late, faults>>

\* c queues its transition, which begins at `at`.
Queues(c, at, changed) ==
  /\ task' = [changed EXCEPT ![c].at = at]
  /\ queue' = Append(queue, c)

Dispose(engines) ==
  IF current = 0 THEN engines ELSE [engines EXCEPT ![current].disposed = TRUE]

(***************************************************************************)
(* What the user does.                                                     *)
(***************************************************************************)
UserActs ==
  /\ "save" \in Overlaps \/ \A c \in Call : c[1] = "rotation" => ~Goes(c, "saving")
  /\ "start" \in Overlaps \/ \A c \in Call : ~Goes(c, "starting_offline")

\* login, logout: whatever was in progress belongs to an older generation.
Begin(kind, newState, then) ==
  /\ UserActs /\ generation < MaxGeneration
  /\ generation' = generation + 1 /\ era' = generation + 1
  /\ state' = newState
  /\ access' = NoToken /\ payload' = NoToken /\ refreshing' = NoCall
  /\ Queues(<<"main", generation + 1>>, "clear",
            [task EXCEPT ![<<"main", generation + 1>>] = NewTask(kind, "clear", then, NoToken)])
  /\ UNCHANGED <<runtime, outside>>

\* Bound: a call finds an engine to install.
Unused(e) == engine[e].disposed /\ ~Running(e)
Installing == {c \in Call : task[c].kind \in {"login", "restore", "rotation"}}
Room == Cardinality(Installing) < Cardinality({e \in Engine : Unused(e)})

\* A login that has failed is no longer in progress while it waits to clear up:
\* it returns that transition without awaiting it.
LoginInProgress == \E c \in Call : task[c].kind = "login" /\ task[c].then # "failed"

Login == Room /\ ~LoginInProgress /\ Begin("login", "AUTHENTICATING", "asking")
Logout == Begin("logout", "SIGNED_OUT", "done")

\* prepareForShutdown and clearTenant, which do not queue (before-quit).
Quit ==
  /\ UserActs /\ generation < MaxGeneration
  /\ \A c \in Call : task[c].kind # "quit"
  /\ generation' = generation + 1 /\ era' = 0 /\ state' = "SIGNED_OUT"
  /\ access' = NoToken /\ payload' = NoToken /\ refreshing' = NoCall
  /\ task' = [task EXCEPT ![<<"main", generation + 1>>] =
       [NewTask("quit", "waiting", "done", NoToken) EXCEPT !.waits = current]]
  /\ engine' = Dispose(engine) /\ current' = 0
  /\ UNCHANGED <<queue, handle, outside>>

\* The application starts again with what was saved.
Restart ==
  /\ store.n < MaxToken
  /\ generation' = generation + 1 /\ era' = 0 /\ state' = "REFRESHING"
  /\ access' = NoToken /\ payload' = NoToken /\ refreshing' = NoCall
  /\ task' = [c \in Call |-> IF c = <<"main", generation + 1>>
                             THEN NewTask("restore", "load", "done", NoToken) ELSE NoTask]
  /\ queue' = <<<<"main", generation + 1>>>>
  /\ handle' = 0 /\ current' = 0 /\ engine' = [e \in Engine |-> NoEngine]
  /\ late' = late \cup {task[c].from : c \in {c \in Call : Asks(c)}}
  /\ lost' = lost \cup {task[c].from.session : c \in {c \in Call : Asks(c) \/ Unsaved(c)}}
  /\ UNCHANGED <<store, server>>

Exit ==
  /\ generation < MaxGeneration
  /\ \E c \in Call : /\ task[c].kind = "quit"
                     /\ task[c].waits # 0 => ~Running(task[c].waits)
  /\ Restart
  /\ UNCHANGED faults

Crash ==
  /\ generation < MaxGeneration /\ faults < MaxFaults
  /\ faults' = faults + 1
  /\ Restart

(***************************************************************************)
(* clearLocalSession.                                                      *)
(***************************************************************************)
\* Only logout clears whoever has taken over.
Clear(c) ==
  /\ Enters(c, "clear") /\ (Fresh(c) \/ task[c].kind = "logout")
  /\ access' = NoToken /\ payload' = NoToken
  /\ task' = At(c, "clearing")
  /\ UNCHANGED <<generation, era, state, refreshing, queue, runtime, outside>>

\* What follows the clearing in each call.
AfterClear(c, engines) ==
  /\ queue' = Tail(queue)
  /\ IF task[c].then = "asking" /\ Fresh(c)
     THEN task' = At(c, "asking") /\ engine' = engines /\ UNCHANGED refreshing
     ELSE Ends(c, FALSE, engines)
  /\ state' = CASE task[c].then \in {"error", "failed"} -> "ERROR"
                [] task[c].then = "out" -> "SIGNED_OUT"
                [] OTHER -> state

\* Mutant: a rotation that is rejected waits for the cycle that asked for it.
KeepsNothing(c) == task[c].kind = "restore" /\ task[c].then = "error"

\* A rotation keeps the database open and does not wait for the cycle it belongs to.
Keeps(c) ==
  \/ task[c].kind = "rotation" /\ task[c].then # "done"
  \/ task[c].kind = "restore" /\ task[c].then = "error"

\* Mutant: the engine survives a rejected rotation.
ForgetStoreOnly(c) ==
  /\ Enters(c, "clearing")
  /\ store' = NoToken
  /\ IF Keeps(c)
     THEN AfterClear(c, engine) /\ UNCHANGED current
     ELSE /\ engine' = Dispose(engine) /\ current' = 0
          /\ task' = [task EXCEPT ![c].at = "waiting", ![c].waits = current]
          /\ UNCHANGED <<state, refreshing, queue>>
  /\ UNCHANGED <<generation, era, access, payload, handle, server, late, lost, faults>>

\* The saved session is deleted, and the engine disposed.
Forget(c) ==
  /\ Enters(c, "clearing")
  /\ store' = NoToken
  /\ current' = 0
  /\ IF Keeps(c)
     THEN AfterClear(c, Dispose(engine))
     ELSE /\ engine' = Dispose(engine)
          /\ task' = [task EXCEPT ![c].at = "waiting", ![c].waits = current]
          /\ UNCHANGED <<state, refreshing, queue>>
  /\ UNCHANGED <<generation, era, access, payload, handle, server, late, lost, faults>>

\* The engine's cycle is over: the database is closed.
Close(c) ==
  /\ Enters(c, "waiting")
  /\ task[c].waits # 0 => ~Running(task[c].waits)
  /\ handle' = 0
  /\ AfterClear(c, engine)
  /\ UNCHANGED <<generation, era, access, payload, current, outside>>

(***************************************************************************)
(* login and restoreSession up to the open database.                       *)
(***************************************************************************)
\* The server creates the session.
LoginAnswered(c) ==
  /\ Goes(c, "asking") /\ task[c].kind = "login"
  /\ server' = [server EXCEPT ![c[2]].n = 1]
  /\ IF Fresh(c)
     THEN /\ task' = [task EXCEPT ![c].at = "reading", ![c].next = First(c[2])]
          /\ UNCHANGED <<refreshing, engine>>
     ELSE Ends(c, FALSE, engine)
  /\ UNCHANGED <<generation, era, state, access, payload, queue, handle, current, store, late, lost, faults>>

\* Refused, or not reached.
LoginFails(c) ==
  /\ Goes(c, "asking") /\ task[c].kind = "login"
  /\ IF Fresh(c)
     THEN /\ Queues(c, "clear", [task EXCEPT ![c].then = "failed"])
          /\ UNCHANGED <<refreshing, engine>>
     ELSE Ends(c, FALSE, engine) /\ UNCHANGED queue
  /\ UNCHANGED <<generation, era, state, access, payload, handle, current, outside>>

OpenTenant(c) ==
  /\ Enters(c, "open") /\ Fresh(c)
  /\ handle' = IF handle = 0 THEN generation ELSE handle
  /\ task' = At(c, "opened")
  /\ UNCHANGED <<generation, era, state, access, payload, refreshing, queue, current, engine, outside>>

\* restoreStoredSession with nothing stored.
LoadNothing(c) ==
  /\ Enters(c, "load") /\ Fresh(c) /\ store = NoToken
  /\ state' = "SIGNED_OUT"
  /\ Leaves(c, FALSE, Dispose(engine))
  /\ current' = 0 /\ handle' = 0
  /\ UNCHANGED <<generation, era, access, payload, outside>>

Load(c) ==
  /\ Enters(c, "load") /\ Fresh(c) /\ store # NoToken
  /\ payload' = store
  /\ handle' = IF handle = 0 THEN generation ELSE handle
  /\ task' = [task EXCEPT ![c].at = "opened", ![c].from = store]
  /\ UNCHANGED <<generation, era, state, access, refreshing, queue, current, engine, outside>>

Opened(c) ==
  /\ Enters(c, "opened") /\ Fresh(c)
  /\ IF task[c].kind = "login"
     THEN task' = At(c, "saving") /\ UNCHANGED queue
     ELSE task' = At(c, "asking") /\ queue' = Tail(queue)
  /\ UNCHANGED <<generation, era, state, access, payload, refreshing, runtime, outside>>

(***************************************************************************)
(* Rotation: the refresh token is sent to the server once.                 *)
(***************************************************************************)
\* refreshAccessToken.  The caller waits for the rotation that is in progress.
BeginRotation ==
  IF refreshing # NoCall
  THEN UNCHANGED <<refreshing, task, state>>
  ELSE /\ payload.n < MaxToken /\ Room
       /\ refreshing' = <<"rotation", generation>>
       /\ task' = [task EXCEPT ![<<"rotation", generation>>] =
                     NewTask("rotation", "asking", "done", payload)]
       /\ state' = "REFRESHING"

Offline == state = "OFFLINE_SESSION_PENDING" /\ payload # NoToken

\* The retry timer of an interrupted start, or a manual synchronisation.
RetryRotation ==
  /\ UserActs /\ Offline /\ refreshing = NoCall
  /\ BeginRotation
  /\ UNCHANGED <<generation, era, access, payload, queue, runtime, outside>>

\* refresh, under FOR UPDATE of the session: a token other than the last issued ends it.
Accepted(token) ==
  server[token.session].status = "LIVE" /\ server[token.session].n = token.n
Refreshed(token) ==
  IF Accepted(token) THEN [server EXCEPT ![token.session].n = @ + 1]
  ELSE IF server[token.session].status = "LIVE"
       THEN [server EXCEPT ![token.session].status = "REUSED"]
       ELSE server

RotationAnswered(c) ==
  /\ Asks(c)
  /\ server' = Refreshed(task[c].from)
  /\ IF Fresh(c)
     THEN /\ IF Accepted(task[c].from)
             THEN /\ task' = [task EXCEPT ![c].at = "reading", ![c].next = Second(task[c].from)]
                  /\ UNCHANGED queue
             ELSE Queues(c, "clear", [task EXCEPT ![c].then = "out"])
          /\ UNCHANGED <<refreshing, engine>>
     ELSE Ends(c, FALSE, engine) /\ UNCHANGED queue
  /\ lost' = IF Fresh(c) THEN lost ELSE lost \cup {task[c].from.session}
  /\ UNCHANGED <<generation, era, state, access, payload, handle, current, store, late, faults>>

\* The permissions are read with the new access token, or taken from before.
PermissionsRead(c) ==
  /\ Goes(c, "reading")
  /\ IF Fresh(c)
     THEN /\ Queues(c, IF task[c].kind = "login" THEN "open" ELSE "activate", task)
          /\ UNCHANGED <<refreshing, engine, lost>>
     ELSE Ends(c, FALSE, engine) /\ UNCHANGED queue /\ Losing(c)
  /\ UNCHANGED <<generation, era, state, access, payload, handle, current, store, server, late, faults>>

\* No answer in 15 seconds, or a failure that may pass: the token is kept.
RotationGivenUp(c) ==
  /\ Asks(c) /\ faults < MaxFaults
  /\ faults' = faults + 1
  /\ late' = late \cup {task[c].from}
  /\ Losing(c)
  /\ state' = IF Fresh(c) THEN "OFFLINE_SESSION_PENDING" ELSE state
  /\ IF Fresh(c) /\ task[c].kind = "restore"
     THEN /\ task' = [task EXCEPT ![c].at = "starting_offline", ![c].waits = handle]
          /\ UNCHANGED <<refreshing, engine>>
     ELSE Ends(c, FALSE, engine)
  /\ UNCHANGED <<generation, era, access, payload, queue, handle, current, store, server>>

\* A request that was given up reaches the server after all.
LateRefresh ==
  /\ \E token \in late : late' = late \ {token} /\ server' = Refreshed(token)
  /\ UNCHANGED <<memory, runtime, store, lost, faults>>

\* The session expires, or its user is deactivated.
SessionEnds ==
  /\ faults < MaxFaults
  /\ faults' = faults + 1
  /\ \E s \in Session : /\ server[s].n # 0 /\ server[s].status = "LIVE"
                        /\ server' = [server EXCEPT ![s].status = "ENDED"]
  /\ UNCHANGED <<memory, runtime, store, late, lost>>

\* Mutant: the access token is used before the refresh token is saved.
ActivateUnsaved(c) ==
  /\ Enters(c, "activate") /\ Fresh(c)
  /\ access' = task[c].next /\ payload' = task[c].next
  /\ task' = At(c, "saving")
  /\ UNCHANGED <<generation, era, state, refreshing, queue, runtime, outside>>

Activate(c) ==
  /\ Enters(c, "activate") /\ Fresh(c)
  /\ task' = At(c, "saving")
  /\ UNCHANGED <<generation, era, state, access, payload, refreshing, queue, runtime, outside>>

\* Mutant: the generation is not checked again after the write.
SavedForWhoever(c) ==
  /\ Enters(c, "saving")
  /\ store' = task[c].next
  /\ payload' = task[c].next /\ access' = task[c].next
  /\ state' = "AUTHENTICATED"
  /\ task' = [task EXCEPT ![c].at = "starting", ![c].waits = handle]
  /\ UNCHANGED <<generation, era, refreshing, queue, runtime, server, late, lost, faults>>

\* Mutant: the refresh token in memory stays the one that was sent.
SavedOnlyToStore(c) ==
  /\ Enters(c, "saving") /\ Fresh(c)
  /\ store' = task[c].next
  /\ access' = task[c].next
  /\ payload' = IF payload = NoToken THEN task[c].next ELSE payload
  /\ state' = "AUTHENTICATED"
  /\ task' = [task EXCEPT ![c].at = "starting", ![c].waits = handle]
  /\ UNCHANGED <<generation, era, refreshing, queue, runtime, server, late, lost, faults>>

\* The payload is saved; only then the access token is used.
Saved(c) ==
  /\ Enters(c, "saving")
  /\ store' = task[c].next
  /\ IF Fresh(c)
     THEN /\ payload' = task[c].next /\ access' = task[c].next
          /\ state' = "AUTHENTICATED"
          /\ task' = [task EXCEPT ![c].at = "starting", ![c].waits = handle]
     ELSE /\ payload' = NoToken /\ access' = NoToken
          /\ task' = [task EXCEPT ![c].at = "clearing", ![c].then = "done"]
          /\ UNCHANGED state
  /\ UNCHANGED <<generation, era, refreshing, queue, runtime, server, late, lost, faults>>

SaveFails(c) ==
  /\ Enters(c, "saving") /\ faults < MaxFaults
  /\ faults' = faults + 1
  /\ access' = NoToken /\ payload' = NoToken
  /\ task' = [task EXCEPT ![c].at = "clearing", ![c].then = "error"]
  /\ Losing(c)
  /\ UNCHANGED <<generation, era, state, refreshing, queue, runtime, store, server, late>>

\* SyncEngineRegistry.install: the replaced engine is disposed, its cycle goes on,
\* and the new engine begins a cycle of its own.
NewEngine(e) == Unused(e) /\ \A f \in Engine : Unused(f) => e <= f
Installed(e, database) ==
  [Dispose(engine) EXCEPT ![e] = [NoEngine EXCEPT !.at = "asking", !.disposed = FALSE, !.handle = database]]

\* startSync has read the device's identity: there is an engine, or none when the
\* device is not configured.
StartSync(c) ==
  /\ Enters(c, "starting") /\ task[c].waits # 0
  /\ \/ \E e \in Engine :
          /\ NewEngine(e) /\ current' = e
          /\ Leaves(c, state = "AUTHENTICATED", Installed(e, task[c].waits))
     \/ Leaves(c, state = "AUTHENTICATED", engine) /\ UNCHANGED current
  /\ UNCHANGED <<generation, era, state, access, payload, handle, outside>>

\* restoreStoredSession starts the engine outside of the queue when the server is
\* not reached; that the start fails is only logged.
StartOffline(c) ==
  /\ Goes(c, "starting_offline")
  /\ \/ \E e \in Engine :
          /\ NewEngine(e) /\ current' = e
          /\ Ends(c, FALSE, Installed(e, task[c].waits))
     \/ Ends(c, FALSE, engine) /\ UNCHANGED current
  /\ UNCHANGED <<generation, era, state, access, payload, queue, handle, outside>>

\* load, openTenant or startSync throws, or there is no database to start on: the
\* call leaves its transition and queues one that clears what it has done.  (An
\* openTenant that throws in restoreSession does so at "opened".)
Fails(c, count) ==
  /\ queue # <<>> /\ Head(queue) = c
  /\ faults' = faults + count
  /\ IF Fresh(c)
     THEN /\ task' = [task EXCEPT ![c].at = "clear",
                        ![c].then = IF task[c].kind = "rotation" THEN "out" ELSE "failed"]
          /\ queue' = Append(Tail(queue), c)
          /\ UNCHANGED <<refreshing, engine>>
     ELSE Leaves(c, FALSE, engine)
  /\ UNCHANGED <<generation, era, state, access, payload, handle, current, store, server, late, lost>>

Throws(c) ==
  /\ task[c].at \in {"load", "open", "opened", "starting"} /\ faults < MaxFaults
  /\ Fails(c, 1)

NoDatabase(c) == Goes(c, "starting") /\ task[c].waits = 0 /\ Fails(c, 0)

(***************************************************************************)
(* The cycles of the engines.                                              *)
(***************************************************************************)
CycleAt(e, at) == [engine EXCEPT ![e].at = at, ![e].token = NoToken]
Awaits(e, at) ==
  /\ BeginRotation
  /\ engine' = [engine EXCEPT ![e].at = at, ![e].token = NoToken, ![e].joins = refreshing']

\* The poll timer, or runSync.
Poll(e) ==
  /\ ~engine[e].disposed /\ ~Running(e)
  /\ engine' = CycleAt(e, "asking")
  /\ UNCHANGED <<memory, handle, current, outside>>

\* accessToken before a request of the cycle.
TakeToken(e) ==
  /\ engine[e].at = "asking"
  /\ \/ Offline /\ Awaits(e, "offline")
     \/ /\ ~Offline
        /\ engine' = IF access = NoToken THEN CycleAt(e, "failing")
                     ELSE [engine EXCEPT ![e].at = "sent", ![e].token = access]
        /\ UNCHANGED <<refreshing, task, state>>
  /\ UNCHANGED <<generation, era, access, payload, queue, handle, current, outside>>

\* The request is answered, and the cycle goes on with the next.
Answered(e) ==
  /\ engine[e].at \in {"sent", "again"}
  /\ engine' = CycleAt(e, "asking")
  /\ UNCHANGED <<memory, handle, current, outside>>

\* 401: the token has expired, or its session was revoked.
Unauthorized(e) ==
  /\ engine[e].at = "sent"
  /\ \/ /\ access # NoToken /\ access # engine[e].token
        /\ engine' = [engine EXCEPT ![e].at = "again", ![e].token = access]
        /\ UNCHANGED <<refreshing, task, state>>
     \/ /\ access = NoToken \/ access = engine[e].token
        /\ refreshing # NoCall \/ payload # NoToken
        /\ Awaits(e, "rejected")
     \/ /\ access = NoToken /\ refreshing = NoCall /\ payload = NoToken
        /\ engine' = CycleAt(e, "failing")
        /\ UNCHANGED <<refreshing, task, state>>
  /\ UNCHANGED <<generation, era, access, payload, queue, handle, current, outside>>

\* A request is retried once.
UnauthorizedAgain(e) ==
  /\ engine[e].at = "again"
  /\ engine' = CycleAt(e, "failing")
  /\ UNCHANGED <<memory, handle, current, outside>>

\* The cycle is over: it has done its work or failed.
EndCycle(e) ==
  /\ engine[e].at \in {"asking", "sent", "again", "failing"}
  /\ engine' = [CycleAt(e, "idle") EXCEPT ![e].handle = IF engine[e].disposed THEN 0 ELSE @]
  /\ UNCHANGED <<memory, handle, current, outside>>

CallStep(c) ==
  \/ Superseded(c) \/ Clear(c) \/ Forget(c) \/ Close(c)
  \/ LoginAnswered(c) \/ LoginFails(c) \/ PermissionsRead(c)
  \/ OpenTenant(c) \/ LoadNothing(c) \/ Load(c) \/ Opened(c)
  \/ RotationAnswered(c) \/ Activate(c) \/ Saved(c) \/ StartSync(c) \/ StartOffline(c)
  \/ NoDatabase(c)

Fault ==
  \/ Crash \/ SessionEnds \/ LateRefresh
  \/ \E c \in Call : RotationGivenUp(c) \/ SaveFails(c) \/ Throws(c)

CycleStep(e) ==
  Poll(e) \/ TakeToken(e) \/ Answered(e) \/ Unauthorized(e) \/ UnauthorizedAgain(e) \/ EndCycle(e)

Next ==
  \/ Login \/ Logout \/ Quit \/ Exit \/ RetryRotation
  \/ \E c \in Call : CallStep(c)
  \/ \E e \in Engine : CycleStep(e)
  \/ Fault

Spec == Init /\ [][Next]_vars

\* Promises settle: files are written, a request is answered or times out, and a
\* cycle makes finitely many requests.
Fairness ==
  /\ \A c \in Call : WF_vars(CallStep(c))
  /\ \A e \in Engine : WF_vars(EndCycle(e))

FairSpec == Spec /\ Fairness

(***************************************************************************)
(* Properties.                                                             *)
(***************************************************************************)
\* An access token is used only once the refresh token that came with it, or a
\* later one of the session, is saved.
TokenIsSaved ==
  access # NoToken =>
    /\ store.session = access.session /\ store.n >= access.n
    /\ payload = access

\* Whatever was in progress when the user left a session brings nothing of it
\* back: neither into memory, nor, when no transition is running, into the store.
LeftStaysLeft ==
  \A token \in {access, payload} \cup (IF queue = <<>> THEN {store} ELSE {}) :
    token # NoToken => token.session >= era

\* The server takes a refresh token for stolen, and ends the session, only after
\* a token it had issued did not get into the store: cycles that are refused at
\* once, late refusals and a restart never send one token twice.
OnlyLossLooksReused ==
  \A s \in Session : server[s].status = "REUSED" => s \in lost

\* Between transitions the engine of the registry works on the open database,
\* for the session that is signed in.
EngineMatchesSession ==
  queue = <<>> /\ current # 0 /\ (\A c \in Call : task[c].kind # "quit") =>
    handle # 0 /\ engine[current].handle = handle /\ payload # NoToken

\* A logout deletes the saved session, ends the engine and closes the database,
\* unless the user signs in or leaves the application meanwhile.
LogoutClears ==
  \A g \in 1 .. MaxGeneration :
    task[<<"main", g>>].kind = "logout" ~>
      (store = NoToken /\ current = 0 /\ handle = 0) \/ generation # g

(***************************************************************************)
(* The inductive invariant.                                                *)
(***************************************************************************)
Token == [session : Session, n : Nat]

\* The stages of the calls: Entries wait in the queue for their turn, Inside are
\* the stages of the transition that runs.
Entries == {"load", "clear", "open", "activate"}
Inside == {"clearing", "waiting", "opened", "saving", "starting"}
Clearing == {"clear", "clearing", "waiting"}
Stage(kind, at) ==
  \/ kind = "none" /\ at = "none"
  \/ kind = "quit" /\ at = "waiting"
  \/ kind \in {"logout", "login", "restore", "rotation"} /\ at \in Clearing
  \/ kind = "login" /\ at \in {"asking", "reading", "open", "opened", "saving", "starting"}
  \/ kind = "rotation" /\ at \in {"asking", "reading", "activate", "saving", "starting"}
  \/ kind = "restore" /\ at \in {"load", "opened", "asking", "reading", "activate", "saving", "starting",
                                "starting_offline"}

AllStages == Entries \cup Inside \cup {"none", "asking", "reading", "starting_offline"}
Kinds == {"none", "quit", "logout", "login", "restore", "rotation"}
TaskType ==
  [kind : Kinds, at : AllStages,
   then : {"done", "asking", "error", "failed", "out"}, from : Token, next : Token, waits : Nat]
CycleStages == {"idle", "asking", "sent", "offline", "rejected", "again", "failing"}
EngineType ==
  [at : CycleStages, disposed : BOOLEAN, handle : Nat, token : Token, joins : Call \cup {NoCall}]

TypeOK ==
  /\ generation \in 1 .. MaxGeneration /\ era \in {0, generation}
  /\ state \in {"REFRESHING", "AUTHENTICATING", "SIGNED_OUT", "ERROR", "AUTHENTICATED", "OFFLINE_SESSION_PENDING"}
  /\ access \in Token /\ payload \in Token /\ store \in Token
  /\ refreshing \in {NoCall, <<"rotation", generation>>}
  /\ task \in [Call -> TaskType] /\ queue \in Seq(Call)
  /\ handle \in Nat /\ current \in Engine \cup {0} /\ engine \in [Engine -> EngineType]
  /\ server \in [Session -> [n : Nat, status : {"LIVE", "REUSED", "ENDED"}]]
  /\ late \subseteq Token /\ lost \subseteq Session /\ faults \in Nat

Main(g) == <<"main", g>>
Rotation(g) == <<"rotation", g>>

\* The call that took over last.
Latest == task[Main(generation)]

\* A call is at a stage of its kind, and begins with its generation.
StageInv ==
  \A c \in Call :
    /\ Stage(task[c].kind, task[c].at)
    /\ task[c].kind # "none" => (task[c].kind = "rotation" <=> c[1] = "rotation")
    /\ task[c].then = "asking" => task[c].kind = "login"
    /\ task[c].kind = "login" /\ task[c].at \notin Clearing => task[c].then = "asking"
    /\ c[2] > generation => task[c].kind = "none"

\* A call is queued while it changes the store and the database, once, in the
\* order of generations; the call of a transition that has begun is the first.
Transits(c) == task[c].at \in Entries \cup Inside /\ task[c].kind # "quit"
QueueInv ==
  /\ \A c \in Call : Transits(c) => \E i \in 1 .. Len(queue) : queue[i] = c
  /\ \A i \in 1 .. Len(queue) : Transits(queue[i])
  /\ \A i, j \in 1 .. Len(queue) : i < j =>
       queue[i] # queue[j] /\ queue[i][2] <= queue[j][2] /\ task[queue[j]].at \in Entries \ {"load"}

\* Queued calls of older generations come before the one that took over.
TakenOver ==
  /\ \A c \in Call : Transits(c) /\ ~Fresh(c) =>
       \/ Latest.kind = "quit"
       \/ Latest.kind \in {"login", "logout"} /\ Latest.at = "clear" /\ Latest.then # "failed"
  /\ Latest.kind \in {"restore", "quit"} => era = 0

\* An application starts with nothing but its restore call; no engine asks for a
\* rotation before that is over.
StartInv ==
  Latest.kind = "restore" =>
    /\ \A c \in Call : task[c].kind # "none" => Fresh(c)
    /\ Latest.at # "starting_offline" =>
         /\ task[Rotation(generation)].kind = "none"
         /\ state # "OFFLINE_SESSION_PENDING"
         /\ \A e \in Engine : Unused(e)

\* One rotation of a generation at a time.
RotationInv == refreshing = NoCall => task[Rotation(generation)].kind = "none"

\* What leaves a session, or has not loaded one, has none in memory.
MemoryInv ==
  \A c \in Call : task[c].at \in {"clearing", "waiting", "load"} /\ task[c].kind # "quit" =>
    access = NoToken /\ payload = NoToken

\* A call that has a token to rotate.
Uses(c) ==
  task[c].kind \in {"restore", "rotation"} /\ task[c].at \in {"opened", "asking", "reading", "activate", "saving"}

\* The token a call is about to save.
ResultInv ==
  \A c \in Call :
    /\ Unsaved(c) => task[c].next = Second(task[c].from)
    /\ task[c].kind = "login" /\ task[c].at \in {"reading", "open", "opened", "saving"} =>
         task[c].next = First(c[2])

\* Sessions are those of the generations so far; what the latest login or
\* logout has not cleared away belongs to a session of its own.
SessionInv ==
  /\ payload # NoToken => payload.session \in era .. generation
  /\ store.session <= generation
  /\ store # NoToken /\ store.session < era => Latest.at \in {"clear", "clearing"}
  /\ \A c \in Call : Uses(c) => task[c].from.session <= generation /\ (Fresh(c) => task[c].from.session >= era)

\* Two calls never use tokens of one session, nor an older call the session in memory.
OneUser ==
  /\ \A c, d \in Call : Uses(c) /\ Uses(d) /\ c # d => task[c].from.session # task[d].from.session
  /\ \A c \in Call : Uses(c) /\ ~Fresh(c) /\ payload # NoToken => task[c].from.session # payload.session

\* The session of a login that is not saved yet is nobody else's.
LoginInv ==
  \A c \in Call : task[c].then = "asking" /\ task[c].at # "starting" =>
    /\ store.session # c[2] /\ payload.session # c[2]
    /\ \A d \in Call : Uses(d) => task[d].from.session # c[2]
    /\ task[c].at \in {"reading", "open", "opened", "saving"} => c[2] \in lost \/ server[c[2]].n = 1

\* Unless a token of the session was lost, the last token the server issued is
\* the one that is saved, in memory and in use, or it is about to be.
NewestInv ==
  /\ store # NoToken /\ store.session \notin lost =>
       \/ server[store.session].n = store.n
       \/ \E c \in Call : Unsaved(c) /\ task[c].from.session = store.session
  /\ payload # NoToken /\ payload.session \notin lost =>
       \/ server[payload.session].n = payload.n
       \/ \E c \in Call : Fresh(c) /\ Unsaved(c) /\ task[c].from.session = payload.session
  /\ \A c \in Call : Uses(c) /\ task[c].from.session \notin lost =>
       server[task[c].from.session].n = IF Unsaved(c) THEN task[c].from.n + 1 ELSE task[c].from.n
  /\ \A token \in late : token.session \in lost

\* The user has left, or is signing in and has no session yet.
SignedOut(t) ==
  \/ t.kind \in {"logout", "quit"}
  \/ t.kind = "login" /\ t.at # "starting" /\ t.then # "failed"

\* A session in memory has its database open, except for that of a rotation which a
\* failed login has left behind: it finds no database to start an engine on, and
\* clears its session away.
DatabaseInv ==
  /\ payload # NoToken /\ handle = 0 => task[Rotation(generation)].at \in {"starting", "clear"}
  /\ \A c \in Call : task[c].at \in {"opened", "saving", "starting"} /\ task[c].kind # "rotation" => handle # 0
  /\ \A c \in Call : task[c].at = "starting" => task[c].waits = handle /\ (Fresh(c) => payload # NoToken)
  /\ \A c \in Call : Uses(c) /\ Fresh(c) /\ payload = NoToken =>
       /\ task[c].kind = "rotation"
       /\ handle = 0 \/ (Latest.kind = "login" /\ Latest.at \in {"clearing", "waiting"})
  /\ SignedOut(Latest) => payload = NoToken /\ task[Rotation(generation)].kind = "none"
  /\ current # 0 => ~engine[current].disposed

\* When nobody acts during the start of an engine, the engine of the registry has
\* the open database, and outlives its session only until a queued call clears both.
Quits == \E c \in Call : task[c].kind = "quit"
EngineInv ==
  /\ current # 0 => engine[current].handle = handle /\ handle # 0
  /\ \A c \in Call : task[c].at = "waiting" /\ task[c].kind # "quit" => current = 0
  /\ \A c \in Call : task[c].at = "starting_offline" =>
       /\ Fresh(c) /\ payload # NoToken /\ task[c].waits = handle
       /\ task[Rotation(generation)].kind = "none"
       /\ \A e \in Engine : Unused(e)
  /\ payload = NoToken /\ current # 0 /\ ~Quits =>
       \E c \in Call : task[c].at = "clearing" \/ (task[c].at = "clear" /\ Fresh(c))

IInv ==
  /\ TypeOK /\ StageInv /\ QueueInv /\ TakenOver /\ StartInv /\ RotationInv /\ MemoryInv
  /\ ResultInv /\ SessionInv /\ OneUser /\ LoginInv /\ NewestInv /\ DatabaseInv
  /\ TokenIsSaved /\ OnlyLossLooksReused
=============================================================================
