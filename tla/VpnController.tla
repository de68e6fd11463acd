--------------------------- MODULE VpnController ---------------------------
(* lib/core/vpn/vpn_controller.dart with the calls home_screen.dart makes   *)
(* of it, the session clock it owns, and the native side it talks to        *)
(* (MainActivity.kt; the OpenVPN engine, external).                         *)
(*                                                                          *)
(* Every asynchronous activity is a task with a program counter that names  *)
(* the await it is suspended in.  An action is one turn of the event loop:  *)
(* what runs between two awaits of a reply of the platform or of a timer.   *)
(* Nothing cancels a task, so disconnect(), a timer or another connect may  *)
(* run while an attempt is suspended.                                       *)
EXTENDS SessionManager, FiniteSets

CONSTANTS
  Connects,        \* taps on "Connect Fastest": connect()
  Selects,         \* choices in the server list: disconnect(), connectToServer()
  Offs,            \* taps on "Disconnect": disconnect()
  Resumes,         \* app resumed, or server refresh: refreshStage()
  Inits,           \* init() calls of one launch (provider and HomeScreen)
  Stages,          \* _handleNativeStage calls in flight
  Checkers,        \* callbacks of _connectionCheckTimer in flight
  Expiries,        \* session-expiry callbacks in flight: disconnect()
  Servers,
  ServerLists,     \* what a fetch may return, fastest first
  MaxPolls         \* bound: rounds of the confirmation loop (15 in the code)

Attempts == Connects \cup Selects
Disconnects == Offs \cup Selects \cup Expiries
Callbacks == Resumes \cup Stages \cup Checkers

States == {"disconnected", "connecting", "connected", "failed"}

ASSUME ControllerAssumption ==
  /\ Tasks = Attempts \cup Disconnects \cup Callbacks \cup Inits
  /\ Inits \cap (Attempts \cup Disconnects \cup Callbacks) = {}
  /\ Callbacks \cap (Attempts \cup Disconnects) = {}
  /\ Resumes \cap (Stages \cup Checkers) = {} /\ Stages \cap Checkers = {}
  /\ Connects \cap Disconnects = {}
  /\ Offs \cap (Selects \cup Expiries) = {} /\ Selects \cap Expiries = {}
  /\ ServerLists \subseteq Seq(Servers)
  /\ Null \notin Servers \cup States
  /\ MaxPolls \in Nat \ {0} /\ Inits # {} /\ IsFiniteSet(Inits)

VARIABLES
  state,               \* VpnState (reconnecting is never set)
  lastState,           \* 'vpn_last_state' in the in-memory preferences
  initialized,         \* _isInitialized
  currentServer,       \* _currentServer
  savedServer,         \* 'current_server_*' in the in-memory preferences
  connectionTimeout,   \* the 45 s _connectionTimeout is armed
  checkTimer,          \* the 2 s _connectionCheckTimer is running
  ownTimer,            \* check callbacks that the running timer started
  notificationShown,   \* _notificationShown
  notice,              \* the status notification last posted
  fetched,             \* _lastFetchedServers
  alive,               \* the Flutter engine is up
  tunnel,              \* the native VPN service
  dialed,              \* the server of the last engine.connect
  stageEvents,         \* stages emitted to Dart and not yet handled
  pc,                  \* [Tasks -> where the task is suspended]
  todo,                \* [Attempts -> servers connect() has still to try]
  target,              \* [Attempts -> the server being attempted]
  tries                \* [Attempts -> finished rounds of confirmation]

stateVars  == <<state, lastState>>
serverVars == <<currentServer, savedServer>>
timerVars  == <<connectionTimeout, checkTimer, ownTimer>>
noticeVars == <<notificationShown, notice>>
nativeVars == <<tunnel, dialed, stageEvents>>
lifeVars   == <<alive, initialized, inits, kills>>
planVars   == <<fetched, todo, target, tries>>
ctlVars    == <<stateVars, serverVars, timerVars, noticeVars, nativeVars,
                alive, initialized, planVars, pc>>
allVars    == <<vars, ctlVars>>

Tunnels == {"down", "starting", "up", "stopping"}

ControllerInit ==
  /\ disk = [key \in {"session", "lastState", "server"} |-> Null]
  /\ writes = <<>>
  /\ now = 0
  /\ sessionStartTime = Null /\ sessionTimer = FALSE
  /\ savedStart = Null /\ saving = {}
  /\ inits = 0 /\ kills = 0
  /\ state = "disconnected" /\ lastState = Null /\ initialized = FALSE
  /\ currentServer = Null /\ savedServer = Null
  /\ connectionTimeout = FALSE /\ checkTimer = FALSE /\ ownTimer = {}
  /\ notificationShown = FALSE /\ notice = "none"
  /\ fetched = <<>>
  /\ alive = FALSE
  /\ tunnel = "down" /\ dialed = Null /\ stageEvents = 0
  /\ pc = [t \in Tasks |-> "idle"]
  /\ todo = [t \in Attempts |-> <<>>]
  /\ target = [t \in Attempts |-> Null]
  /\ tries = [t \in Attempts |-> 0]

(* ------------------------------ building blocks ------------------------- *)
GoTo(t, label) == pc' = [pc EXCEPT ![t] = label]
At(t, label) == alive /\ pc[t] = label

\* _set: the new state is persisted, unawaited, when it differs.
SetState(v) == /\ state' = v
               /\ lastState' = IF state = v THEN lastState ELSE v
\* Fault: the state changes in memory only.
SetPutsNothing(v) == <<>>

SetPuts(v) == IF state = v THEN <<>> ELSE <<Put("lastState", v, Null)>>

StopTimers == connectionTimeout' = FALSE /\ checkTimer' = FALSE
                /\ ownTimer' = {}

\* What isVpnConnected answers: a tunnel being torn down is still there.
Reported == tunnel \in {"up", "stopping"}

\* Fault: the engine is not told to disconnect.
EngineDisconnectForgotten == UNCHANGED nativeVars

\* engine.disconnect() is not awaited: the tunnel goes down later.
EngineDisconnect ==
  /\ tunnel' = CASE tunnel = "up" -> "stopping"
                 [] tunnel = "starting" -> "down"
                 [] OTHER -> tunnel
  /\ UNCHANGED <<dialed, stageEvents>>

EngineConnect(server) == /\ tunnel' = "starting"
                         /\ dialed' = server
                         /\ UNCHANGED stageEvents

ShowConnected == IF notificationShown THEN UNCHANGED noticeVars
                 ELSE notificationShown' = TRUE /\ notice' = "connected"

\* init() has run twice and the server list is on screen.
Ready == alive /\ \A i \in Inits : pc[i] = "done"

\* The home screen's button: the list stays on top until disconnect() is over.
HomeOnTop == Ready /\ \A s \in Selects : pc[s] \notin {"ending", "clearing"}

(* --------------------------- launch and process end --------------------- *)
\* The provider and HomeScreen both call init(): neither finds it done.
LaunchApp ==
  /\ ~alive
  /\ alive' = TRUE
  /\ pc' = [t \in Tasks |-> IF t \in Inits THEN "engine" ELSE "idle"]
  /\ UNCHANGED <<vars, stateVars, serverVars, timerVars, noticeVars,
                 nativeVars, initialized, planVars>>

\* Fault: nothing persisted is restored as a state.
RestoreUnchecked(i) == /\ state' = lastState
                       /\ currentServer' = savedServer
                       /\ initialized' = TRUE
                       /\ GoTo(i, "done")
                       /\ UNCHANGED <<lastState, savedServer>>

Restore(i) == /\ state' = IF lastState = Null THEN state ELSE lastState
              /\ currentServer' = savedServer
              /\ initialized' = TRUE
              /\ GoTo(i, "done")
              /\ UNCHANGED <<lastState, savedServer>>

\* engine.initialize() has completed: listen (the native side answers with
\* its last stage), initialize the session, restore what was persisted.
InitEngineReady(i) ==
  /\ At(i, "engine")
  /\ inits' = inits + 1
  /\ stageEvents' = stageEvents + 1
  /\ Initialize(i)
  /\ IF SavedExpired
     THEN /\ GoTo(i, "ending")
          /\ UNCHANGED <<stateVars, serverVars, initialized>>
     ELSE Restore(i)
  /\ UNCHANGED <<now, kills, timerVars, noticeVars, tunnel, dialed, alive,
                 planVars>>

\* The expired session has been cleared: go on to restore.
InitSessionEnded(i) ==
  /\ At(i, "ending") /\ Landed(i)
  /\ Restore(i)
  /\ UNCHANGED <<vars, timerVars, noticeVars, nativeVars, alive, planVars>>

\* The engine of the app goes away; the tunnel is not its own.
KillApp ==
  /\ alive /\ kills < MaxKills
  /\ kills' = kills + 1
  /\ inits' = 0
  /\ ForgetSession
  /\ state' = "disconnected" /\ initialized' = FALSE /\ currentServer' = Null
  /\ lastState' = disk["lastState"] /\ savedServer' = disk["server"]
  /\ StopTimers
  /\ notificationShown' = FALSE
  /\ stageEvents' = 0
  /\ alive' = FALSE
  /\ pc' = [t \in Tasks |-> "idle"]
  /\ fetched' = <<>>
  /\ todo' = [t \in Attempts |-> <<>>]
  /\ target' = [t \in Attempts |-> Null]
  /\ tries' = [t \in Attempts |-> 0]
  /\ UNCHANGED <<now, notice, tunnel, dialed>>

(* -------------------------------- disconnect() -------------------------- *)
\* Up to the first await: everything but the notice and the saved server.
\* end is the session's part, EndSession or the expiry that calls it.
BeginDisconnect(t) ==
  /\ StopTimers
  /\ EngineDisconnect
  /\ SetState("disconnected")
  /\ GoTo(t, "ending")
  /\ UNCHANGED <<now, inits, kills, serverVars, noticeVars, alive,
                 initialized, fetched, todo, tries>>

TapDisconnect(t) ==
  /\ HomeOnTop /\ pc[t] = "idle" /\ state = "connected"
  /\ BeginDisconnect(t)
  /\ EndSession(SetPuts("disconnected"), <<t>>)
  /\ UNCHANGED target

\* A session tick finds no time left: the callback is disconnect().
ExpireSession(t) ==
  /\ alive /\ inits > 0 /\ pc[t] = "idle"
  /\ HandleSessionExpired(SetPuts("disconnected"), t)
  /\ BeginDisconnect(t)
  /\ UNCHANGED target

\* A tick before init() has registered the callback.
ExpireUnheard ==
  /\ alive /\ inits = 0
  /\ TickExpired
  /\ EndSession(<<>>, <<Null>>)
  /\ UNCHANGED <<now, inits, kills, ctlVars>>

DisconnectEnded(t) ==
  /\ At(t, "ending") /\ Landed(t)
  /\ notificationShown' = FALSE
  /\ currentServer' = Null /\ savedServer' = Null
  /\ Send(<<Put("server", Null, t)>>)
  /\ GoTo(t, "clearing")
  /\ UNCHANGED <<now, sessionVars, stateVars, timerVars, notice, nativeVars,
                 lifeVars, planVars>>

DisconnectCleared(t) ==
  /\ At(t, "clearing") /\ Landed(t)
  /\ notice' = "disconnected"
  /\ GoTo(t, "idle")
  /\ UNCHANGED <<vars, stateVars, serverVars, timerVars, notificationShown,
                 nativeVars, alive, initialized, planVars>>

(* ------------------------- connect, connectToServer --------------------- *)
\* The 2nd fastest first, then the fastest, then the 3rd.
AttemptOrder(ranked) ==
  CASE Len(ranked) <= 1 -> ranked
    [] Len(ranked) = 2  -> <<ranked[2], ranked[1]>>
    [] OTHER            -> <<ranked[2], ranked[1], ranked[3]>>

\* Fault: the server being attempted stays on the list of those to try.
PickServerAgain(t, list, puts) ==
  /\ list # <<>>
  /\ currentServer' = Head(list) /\ savedServer' = Head(list)
  /\ Send(puts \o <<Put("server", Head(list), t)>>)
  /\ todo' = [todo EXCEPT ![t] = list]
  /\ GoTo(t, "saving")

\* Adopt the first server of list and save it; puts came first in the turn.
PickServer(t, list, puts) ==
  /\ list # <<>>
  /\ currentServer' = Head(list) /\ savedServer' = Head(list)
  /\ Send(puts \o <<Put("server", Head(list), t)>>)
  /\ todo' = [todo EXCEPT ![t] = Tail(list)]
  /\ GoTo(t, "saving")

GiveUp(t) == /\ SetState("failed")
             /\ Send(SetPuts("failed"))
             /\ GoTo(t, "done")
             /\ UNCHANGED <<serverVars, todo>>

\* connect() goes on with the servers left, or fails.
NextServer(t, list) == \/ /\ PickServer(t, list, <<>>)
                          /\ UNCHANGED stateVars
                       \/ list = <<>> /\ GiveUp(t)

\* _attemptConnection returns false: connectToServer just returns false.
ReturnFalse(t) ==
  \/ t \in Connects /\ NextServer(t, todo[t])
  \/ /\ t \in Selects
     /\ GoTo(t, "done")
     /\ Send(<<>>)
     /\ UNCHANGED <<stateVars, serverVars, todo>>

\* _attemptConnection throws: connectToServer catches it and fails.
Throw(t) == \/ t \in Connects /\ NextServer(t, todo[t])
            \/ t \in Selects /\ GiveUp(t)

\* The button is live only in a state that is neither connected nor loading.
TapConnect(t) ==
  /\ HomeOnTop /\ pc[t] = "idle" /\ state \in {"disconnected", "failed"}
  /\ SetState("connecting")
  /\ \/ /\ Send(SetPuts("connecting"))
        /\ GoTo(t, "fetching")
        /\ UNCHANGED <<serverVars, todo>>
     \/ /\ fetched # <<>>
        /\ PickServer(t, AttemptOrder(fetched), SetPuts("connecting"))
  /\ UNCHANGED <<now, sessionVars, timerVars, noticeVars, nativeVars,
                 lifeVars, fetched, target, tries>>

FetchReply(t) ==
  /\ At(t, "fetching")
  /\ \E list \in ServerLists : /\ fetched' = list
                               /\ NextServer(t, AttemptOrder(list))
  /\ UNCHANGED <<now, sessionVars, timerVars, noticeVars, nativeVars,
                 lifeVars, target, tries>>

TapServer(t) ==
  /\ Ready /\ pc[t] = "idle"
  /\ \E server \in Servers : target' = [target EXCEPT ![t] = server]
  /\ BeginDisconnect(t)
  /\ EndSession(SetPuts("disconnected"), <<t>>)

\* disconnect() has returned: connectToServer(server) starts.
SelectCleared(t) ==
  /\ At(t, "clearing") /\ Landed(t)
  /\ notice' = "disconnected"
  /\ SetState("connecting")
  /\ PickServer(t, <<target[t]>>, SetPuts("connecting"))
  /\ UNCHANGED <<now, sessionVars, timerVars, notificationShown, nativeVars,
                 lifeVars, fetched, target, tries>>

(* ----------------------------- _attemptConnection ----------------------- *)
\* The server is saved: connect() attempts _currentServer as it is by now,
\* which throws when it is gone.
ServerSaved(t) ==
  /\ At(t, "saving") /\ Landed(t)
  /\ \/ /\ t \in Connects /\ currentServer = Null
        /\ Throw(t) /\ UNCHANGED target
     \/ /\ t \in Connects /\ currentServer # Null
        /\ target' = [target EXCEPT ![t] = currentServer]
        /\ GoTo(t, "preparing") /\ Send(<<>>)
        /\ UNCHANGED <<stateVars, serverVars, todo>>
     \/ /\ t \in Selects
        /\ GoTo(t, "preparing") /\ Send(<<>>)
        /\ UNCHANGED <<stateVars, serverVars, todo, target>>
  /\ UNCHANGED <<now, sessionVars, timerVars, noticeVars, nativeVars,
                 lifeVars, fetched, tries>>

\* No internet, no config, a config that does not decode or validate, or a
\* file that cannot be written.
PrepareThrows(t) ==
  /\ At(t, "preparing")
  /\ Throw(t)
  /\ UNCHANGED <<now, sessionVars, timerVars, noticeVars, nativeVars,
                 lifeVars, fetched, target, tries>>

\* Fault: the timeout starts when engine.connect has returned.
DialUntimed(t) ==
  /\ At(t, "preparing")
  /\ checkTimer' = TRUE /\ ownTimer' = {}
  /\ GoTo(t, "dialing")
  /\ UNCHANGED <<vars, connectionTimeout, stateVars, serverVars, noticeVars,
                 nativeVars, alive, initialized, planVars>>

\* The timers start before engine.connect is called.
Dial(t) ==
  /\ At(t, "preparing")
  /\ connectionTimeout' = TRUE
  /\ checkTimer' = TRUE /\ ownTimer' = {}
  /\ GoTo(t, "dialing")
  /\ UNCHANGED <<vars, stateVars, serverVars, noticeVars, nativeVars, alive,
                 initialized, planVars>>

\* engine.connect throws and both timers stay as they are.
DialThrows(t) ==
  /\ At(t, "dialing")
  /\ Throw(t)
  /\ UNCHANGED <<now, sessionVars, timerVars, noticeVars, nativeVars,
                 lifeVars, fetched, target, tries>>

DialReturns(t) ==
  /\ At(t, "dialing")
  /\ EngineConnect(target[t])
  /\ tries' = [tries EXCEPT ![t] = 0]
  /\ GoTo(t, "polling")
  /\ UNCHANGED <<vars, stateVars, serverVars, timerVars, noticeVars, alive,
                 initialized, fetched, todo, target>>

\* A round of the loop, or the final check, finds the service connected.
PollConnected(t) ==
  /\ At(t, "polling") /\ Reported
  /\ StopTimers
  /\ SetState("connected")
  /\ IF StartNeedsSave
     THEN /\ StartSession(SetPuts("connected"), t)
          /\ GoTo(t, "starting") /\ UNCHANGED savedServer
     ELSE /\ StartSession(SetPuts("connected")
                            \o <<Put("server", target[t], t)>>, t)
          /\ savedServer' = target[t] /\ GoTo(t, "recording")
  /\ UNCHANGED <<now, currentServer, noticeVars, nativeVars, lifeVars,
                 planVars>>

AttemptStarted(t) ==
  /\ At(t, "starting")
  /\ FinishStart(<<Put("server", target[t], t)>>, t)
  /\ savedServer' = target[t] /\ GoTo(t, "recording")
  /\ UNCHANGED <<now, stateVars, currentServer, timerVars, noticeVars,
                 nativeVars, lifeVars, planVars>>

AttemptRecorded(t) ==
  /\ At(t, "recording") /\ Landed(t)
  /\ GoTo(t, "done")
  /\ UNCHANGED <<vars, stateVars, serverVars, timerVars, noticeVars,
                 nativeVars, alive, initialized, planVars>>

\* A round finds no service: somebody else has set the state, or wait on.
PollRound(t) ==
  /\ At(t, "polling") /\ ~Reported /\ tries[t] < MaxPolls
  /\ \/ /\ state = "connected"
        /\ StopTimers
        /\ GoTo(t, "done") /\ Send(<<>>)
        /\ UNCHANGED <<stateVars, serverVars, todo, tries, nativeVars>>
     \/ /\ state = "failed"
        /\ StopTimers /\ EngineDisconnect
        /\ ReturnFalse(t) /\ UNCHANGED tries
     \/ /\ state \notin {"connected", "failed"}
        /\ tries' = [tries EXCEPT ![t] = @ + 1]
        /\ Send(<<>>)
        /\ UNCHANGED <<stateVars, serverVars, timerVars, nativeVars, pc, todo>>
  /\ UNCHANGED <<now, sessionVars, noticeVars, lifeVars, fetched, target>>

\* The final check fails: the check timer is left running.
PollExhausted(t) ==
  /\ At(t, "polling") /\ ~Reported /\ tries[t] = MaxPolls
  /\ connectionTimeout' = FALSE
  /\ EngineDisconnect
  /\ ReturnFalse(t)
  /\ UNCHANGED <<now, sessionVars, checkTimer, ownTimer, noticeVars,
                 lifeVars, fetched, target, tries>>

(* --------------------------------- timers ------------------------------- *)
TimeoutFires ==
  /\ alive /\ connectionTimeout
  /\ connectionTimeout' = FALSE
  /\ IF state = "connecting"
     THEN /\ EngineDisconnect
          /\ SetState("failed") /\ Send(SetPuts("failed"))
          /\ checkTimer' = FALSE /\ ownTimer' = {}
     ELSE /\ Send(<<>>)
          /\ UNCHANGED <<stateVars, nativeVars, checkTimer, ownTimer>>
  /\ UNCHANGED <<now, sessionVars, serverVars, noticeVars, lifeVars,
                 planVars, pc>>

CheckTimerFires(k) ==
  /\ alive /\ checkTimer
  /\ \/ /\ state = "connecting" /\ pc[k] = "idle"
        /\ GoTo(k, "checking")
        /\ ownTimer' = ownTimer \cup {k}
        /\ UNCHANGED checkTimer
     \/ /\ state = "connected"
        /\ checkTimer' = FALSE /\ ownTimer' = {}
        /\ UNCHANGED pc
  /\ UNCHANGED <<vars, stateVars, serverVars, connectionTimeout, noticeVars,
                 nativeVars, alive, initialized, planVars>>

CheckReplyDown(k) ==
  /\ At(k, "checking") /\ ~Reported
  /\ GoTo(k, "idle")
  /\ ownTimer' = ownTimer \ {k}
  /\ UNCHANGED <<vars, stateVars, serverVars, connectionTimeout, checkTimer,
                 noticeVars, nativeVars, alive, initialized, planVars>>

\* Fault: the timer reports the connection without a session.
CheckReplyUpUntimed(k) ==
  /\ At(k, "checking") /\ Reported
  /\ checkTimer' = (checkTimer /\ k \notin ownTimer)
  /\ ownTimer' = IF k \in ownTimer THEN {} ELSE ownTimer
  /\ connectionTimeout' = FALSE
  /\ SetState("connected") /\ Send(SetPuts("connected"))
  /\ GoTo(k, "idle") /\ ShowConnected
  /\ UNCHANGED <<now, sessionVars, serverVars, nativeVars, lifeVars, planVars>>

\* The service is connected: the state is not looked at again.
CheckReplyUp(k) ==
  /\ At(k, "checking") /\ Reported
  /\ checkTimer' = (checkTimer /\ k \notin ownTimer)
  /\ ownTimer' = IF k \in ownTimer THEN {} ELSE ownTimer
  /\ connectionTimeout' = FALSE
  /\ SetState("connected")
  /\ StartSession(SetPuts("connected"), k)
  /\ IF StartNeedsSave THEN GoTo(k, "starting") /\ UNCHANGED noticeVars
                       ELSE GoTo(k, "idle") /\ ShowConnected
  /\ UNCHANGED <<now, serverVars, nativeVars, lifeVars, planVars>>

(* ----------------------- refreshStage and native stages ----------------- *)
\* didChangeAppLifecycleState reloads a missing server first; the server
\* refresh button calls refreshStage alone.
BeginRefresh(t) ==
  /\ alive /\ pc[t] = "idle"
  /\ \/ currentServer' = IF currentServer = Null THEN savedServer
                         ELSE currentServer
     \/ UNCHANGED currentServer
  /\ GoTo(t, "refreshing")
  /\ UNCHANGED <<vars, stateVars, savedServer, timerVars, noticeVars,
                 nativeVars, alive, initialized, planVars>>

RefreshReply(t) ==
  /\ At(t, "refreshing")
  /\ \/ /\ Reported /\ state # "connected"
        /\ currentServer' = IF currentServer = Null THEN savedServer
                            ELSE currentServer
        /\ SetState("connected")
        /\ StartSession(SetPuts("connected"), t)
        /\ IF StartNeedsSave THEN GoTo(t, "starting") /\ UNCHANGED noticeVars
                             ELSE GoTo(t, "done") /\ ShowConnected
     \/ /\ ~Reported /\ state = "connected"
        /\ SetState("disconnected")
        /\ EndSession(SetPuts("disconnected"), <<t>>)
        /\ GoTo(t, "ending")
        /\ UNCHANGED <<currentServer, noticeVars>>
     \/ /\ Reported <=> state = "connected"
        /\ GoTo(t, "done") /\ Send(<<>>)
        /\ UNCHANGED <<sessionVars, stateVars, currentServer, noticeVars>>
  /\ UNCHANGED <<now, savedServer, timerVars, nativeVars, lifeVars, planVars>>

\* A check callback or a refresh resumes after startSession's save.
ReportStarted(t) ==
  /\ At(t, "starting")
  /\ FinishStart(<<>>, t)
  /\ ShowConnected
  /\ GoTo(t, IF t \in Checkers THEN "idle" ELSE "done")
  /\ UNCHANGED <<now, stateVars, serverVars, timerVars, nativeVars,
                 lifeVars, planVars>>

\* refreshStage posts the notice and leaves _notificationShown as it is.
RefreshEnded(t) ==
  /\ At(t, "ending") /\ Landed(t)
  /\ notice' = "disconnected"
  /\ GoTo(t, "done")
  /\ UNCHANGED <<vars, stateVars, serverVars, timerVars, notificationShown,
                 nativeVars, alive, initialized, planVars>>

\* The native side emits its last stage on listen; it is only ever told
\* "disconnected".
StageEvent(h) ==
  /\ At(h, "idle") /\ stageEvents > 0
  /\ stageEvents' = stageEvents - 1
  /\ GoTo(h, "checking")
  /\ UNCHANGED <<vars, stateVars, serverVars, timerVars, noticeVars, tunnel,
                 dialed, alive, initialized, planVars>>

\* Fault: the session ends and the state stays.
StageReplyStateless(h) ==
  /\ At(h, "checking")
  /\ \/ /\ Reported
        /\ GoTo(h, "idle") /\ Send(<<>>)
        /\ UNCHANGED <<sessionVars, timerVars>>
     \/ /\ ~Reported
        /\ checkTimer' = FALSE /\ ownTimer' = {} /\ UNCHANGED connectionTimeout
        /\ EndSession(<<>>, <<h>>)
        /\ GoTo(h, "ending")
  /\ UNCHANGED <<now, stateVars, serverVars, noticeVars, nativeVars, lifeVars,
                 planVars>>

StageReply(h) ==
  /\ At(h, "checking")
  /\ \/ /\ Reported
        /\ GoTo(h, "idle") /\ Send(<<>>)
        /\ UNCHANGED <<sessionVars, stateVars, timerVars>>
     \/ /\ ~Reported
        /\ checkTimer' = FALSE /\ ownTimer' = {} /\ UNCHANGED connectionTimeout
        /\ SetState("disconnected")
        /\ EndSession(SetPuts("disconnected"), <<h>>)
        /\ GoTo(h, "ending")
  /\ UNCHANGED <<now, serverVars, noticeVars, nativeVars, lifeVars, planVars>>

StageEnded(h) ==
  /\ At(h, "ending") /\ Landed(h)
  /\ notificationShown' = FALSE /\ notice' = "disconnected"
  /\ GoTo(h, "idle")
  /\ UNCHANGED <<vars, stateVars, serverVars, timerVars, nativeVars, alive,
                 initialized, planVars>>

(* ------------------------- environment and behaviour -------------------- *)
TunnelMoves ==
  /\ \/ tunnel = "starting" /\ tunnel' \in {"up", "down"}
     \/ tunnel \in {"up", "stopping"} /\ tunnel' = "down"
  /\ UNCHANGED <<vars, stateVars, serverVars, timerVars, noticeVars, dialed,
                 stageEvents, alive, initialized, planVars, pc>>

ClockTicks == Tick /\ UNCHANGED ctlVars
PrefsWrite == Write /\ UNCHANGED ctlVars

Attempt(t) ==
  \/ ServerSaved(t) \/ PrepareThrows(t) \/ Dial(t) \/ DialThrows(t)
  \/ DialReturns(t) \/ PollConnected(t) \/ PollRound(t) \/ PollExhausted(t)
  \/ AttemptStarted(t) \/ AttemptRecorded(t)

\* What the user and the system may do at any time.
Environment ==
  \/ LaunchApp \/ KillApp \/ TunnelMoves
  \/ \E t \in Connects : TapConnect(t)
  \/ \E t \in Selects : TapServer(t)
  \/ \E t \in Offs : TapDisconnect(t)
  \/ \E t \in Resumes : BeginRefresh(t)

\* What the program does by itself.
Program(t) ==
  \/ t \in Inits /\ (InitEngineReady(t) \/ InitSessionEnded(t))
  \/ t \in Connects /\ (FetchReply(t) \/ Attempt(t))
  \/ t \in Selects /\ (DisconnectEnded(t) \/ SelectCleared(t) \/ Attempt(t))
  \/ t \in Offs /\ (DisconnectEnded(t) \/ DisconnectCleared(t))
  \/ t \in Expiries /\ (ExpireSession(t) \/ DisconnectEnded(t)
                          \/ DisconnectCleared(t))
  \/ t \in Resumes /\ (RefreshReply(t) \/ ReportStarted(t) \/ RefreshEnded(t))
  \/ t \in Checkers /\ (CheckTimerFires(t) \/ CheckReplyDown(t)
                          \/ CheckReplyUp(t) \/ ReportStarted(t))
  \/ t \in Stages /\ (StageEvent(t) \/ StageReply(t) \/ StageEnded(t))

ControllerNext == \/ Environment
                  \/ ExpireUnheard \/ TimeoutFires
                  \/ ClockTicks \/ PrefsWrite
                  \/ \E t \in Tasks : Program(t)

ControllerSpec == ControllerInit /\ [][ControllerNext]_allVars

\* The awaits that end only when somebody else makes them: the feed's request
\* has no timeout, and engine.connect is answered by the plugin and the system.
Outside(t) == pc[t] \in {"fetching", "dialing"}

\* The event loop runs every task and timer and hands on every local reply;
\* nothing makes a user act, the feed answer or engine.connect return.
ControllerFairness == /\ WF_allVars(TimeoutFires)
                      /\ WF_allVars(PrefsWrite)
                      /\ \A t \in Tasks : WF_allVars(~Outside(t) /\ Program(t))

ControllerFairSpec == ControllerSpec /\ ControllerFairness

(* ------------------------------ properties ------------------------------ *)
Labels == {"idle", "done", "engine", "ending", "clearing", "fetching",
           "saving", "preparing", "dialing", "polling", "starting",
           "recording", "checking", "refreshing"}

\* Types of the controller's state and of everything it persists.
ControllerTypeOK ==
  /\ DOMAIN disk = {"session", "lastState", "server"}
  /\ disk["session"] \in Past
  /\ disk["lastState"] \in States \cup {Null}
  /\ disk["server"] \in Servers \cup {Null}
  /\ now \in Times
  /\ sessionStartTime \in Past /\ savedStart \in Past
  /\ sessionTimer \in BOOLEAN /\ saving \subseteq Tasks
  /\ inits \in 0 .. Cardinality(Inits) /\ kills \in 0 .. MaxKills
  /\ state \in States /\ lastState \in States \cup {Null}
  /\ initialized \in BOOLEAN /\ alive \in BOOLEAN
  /\ currentServer \in Servers \cup {Null}
  /\ savedServer \in Servers \cup {Null}
  /\ connectionTimeout \in BOOLEAN /\ checkTimer \in BOOLEAN
  /\ ownTimer \subseteq Checkers
  /\ notificationShown \in BOOLEAN
  /\ notice \in {"none", "connected", "disconnected"}
  /\ fetched \in Seq(Servers)
  /\ tunnel \in Tunnels /\ dialed \in Servers \cup {Null}
  /\ stageEvents \in 0 .. Cardinality(Inits)
  /\ pc \in [Tasks -> Labels]
  /\ todo \in [Attempts -> Seq(Servers)]
  /\ target \in [Attempts -> Servers \cup {Null}]
  /\ tries \in [Attempts -> 0 .. MaxPolls]

\* An attempt is suspended somewhere in connect() or connectToServer().
Attempting(t) == pc[t] \in {"fetching", "saving", "preparing", "dialing",
                           "polling", "starting", "recording"}

\* Whoever finds the service up, the state "connected" has a session, and the
\* session is under the clock, as long as the app is not killed: every
\* _set(connected) comes with a startSession and every endSession with a
\* _set that leaves "connected".
ConnectedIsTimed ==
  state = "connected" => /\ sessionStartTime # Null
                         /\ sessionTimer \/ saving # {}

\* The spinner of "connecting" goes away, by a tunnel or by a failure, even when
\* engine.connect never returns; only a feed that never answers connect() keeps
\* it, because no timer is armed before the feed has answered.
ConnectingResolves ==
  state = "connecting" ~>
    (state # "connecting" \/ [](\E t \in Connects : At(t, "fetching")))

\* A call of connect() or connectToServer() comes to its end, unless the feed
\* or engine.connect leaves it waiting for ever.
AttemptsEnd ==
  \A t \in Attempts : Attempting(t) ~> (~Attempting(t) \/ []Outside(t))

\* The state and the server in memory are the ones the pending writes take
\* to the device, and the state is the one persisted.
StatePersisted ==
  /\ Destined("lastState", lastState)
  /\ Destined("server", savedServer)
  /\ initialized => state = (IF lastState = Null THEN "disconnected"
                                                ELSE lastState)

\* A session whose time is up takes its tunnel down: the tick is not lost,
\* whatever attempt, refresh or disconnect is under way.
LimitEnforced ==
  sessionStartTime # Null /\ now >= sessionStartTime + Duration
    ~> tunnel # "up"

\* With nothing under way, no tunnel is up behind a state that denies it.
Quiet == alive /\ \A t \in Tasks : pc[t] \in {"idle", "done"}
NoOrphanTunnel == Quiet /\ tunnel = "up" => state = "connected"

\* An app that is launched while no tunnel is up, and sees none, comes to a
\* state that says so, whatever state and session the last process left: the
\* restored state is corrected by the stage the native side replays.
ColdStartSettles ==
  [](alive /\ inits = 0 /\ [](alive /\ ~Reported)
       => <>(initialized /\ state \notin {"connected", "connecting"}))

\* "1-Hour Sessions - Free usage limit" (README): an init() that ends a session
\* that ran out does not bring the app back "connected" without one.
ExpiredStaysEnded ==
  [][\A i \in Inits : pc[i] = "ending" /\ pc'[i] = "done" /\ state' = "connected"
       => sessionStartTime' # Null]_allVars
=============================================================================
