--------------------------- MODULE SessionManager ---------------------------
(* lib/core/vpn/session_manager.dart: the one-hour session clock.           *)
(*                                                                          *)
(* Dart runs one turn of the event loop at a time, so an action is a whole  *)
(* turn: the code between two awaits of a platform reply.  (Awaits of an    *)
(* already loaded SharedPreferences instance resume inside the same turn.)  *)
(* A startSession call that waits for _saveSessionData is in "saving"; any  *)
(* other call may run before it resumes.                                    *)
EXTENDS Preferences

CONSTANTS
  Tasks,           \* asynchronous activities that may call the manager
  Duration,        \* _defaultSessionDuration, in clock units
  LastStart,       \* bound: no caller starts a session after this time
  MaxKills,        \* bound: how often the process ends
  MaxWrites,       \* bound: no caller issues a write behind this many
  MaxInits         \* initialize() calls of one launch

ASSUME SessionAssumption ==
  /\ Duration \in Nat \ {0}
  /\ LastStart \in Nat
  /\ MaxKills \in Nat
  /\ MaxWrites \in Nat
  /\ MaxInits \in Nat
  /\ Null \notin Nat
  /\ Null \notin Tasks

VARIABLES
  now,               \* the device's clock
  sessionStartTime,  \* _sessionStartTime
  sessionTimer,      \* _sessionTimer is running
  savedStart,        \* 'vpn_session_start' in the in-memory preferences
  saving,            \* startSession calls suspended in _saveSessionData
  inits,             \* initialize() calls since the launch
  kills              \* how often the process has ended

sessionVars == <<sessionStartTime, sessionTimer, savedStart, saving>>
vars == <<disk, writes, now, sessionStartTime, sessionTimer, savedStart,
          saving, inits, kills>>

Horizon == LastStart + Duration
Times == 0 .. Horizon

TimeRemaining ==
  IF sessionStartTime = Null \/ now >= sessionStartTime + Duration
  THEN 0 ELSE sessionStartTime + Duration - now

Init ==
  /\ disk = [key \in {"session"} |-> Null]
  /\ writes = <<>>
  /\ now = 0
  /\ sessionStartTime = Null /\ sessionTimer = FALSE
  /\ savedStart = Null /\ saving = {}
  /\ inits = 0 /\ kills = 0

(* ------------------------------- operations ----------------------------- *)
(* Each takes the writes the same turn issued before it.                    *)

\* The synchronous part of _endSession, called once per member of callers.
EndSession(puts, callers) ==
  /\ sessionTimer' = FALSE
  /\ sessionStartTime' = Null
  /\ savedStart' = Null
  /\ Send(puts \o [i \in DOMAIN callers |-> Put("session", Null, callers[i])])
  /\ UNCHANGED saving

\* A session is on record and its time is up.
SavedExpired == savedStart # Null /\ now >= savedStart + Duration

\* initialize: adopt the session on record, or end it when it is over.
Initialize(task) ==
  \/ /\ savedStart = Null
     /\ Send(<<>>) /\ UNCHANGED sessionVars
  \/ /\ savedStart # Null /\ ~SavedExpired
     /\ sessionStartTime' = savedStart
     /\ sessionTimer' = TRUE
     /\ Send(<<>>) /\ UNCHANGED <<savedStart, saving>>
  \/ /\ SavedExpired
     /\ EndSession(<<>>, <<task>>)

\* Fault: startSession does not look for a persisted session.
StartIgnoresRecord == sessionStartTime = Null

\* startSession has to take a new start time, and so to wait for its save.
StartNeedsSave == sessionStartTime = Null /\ savedStart = Null

\* Fault: the end of the session is persisted in place of its start.
StartSavingTheEnd(puts, task) ==
  \/ /\ StartNeedsSave
     /\ sessionStartTime' = now
     /\ savedStart' = now + Duration
     /\ saving' = saving \cup {task}
     /\ Send(puts \o <<Put("session", now + Duration, task)>>)
     /\ UNCHANGED sessionTimer
  \/ /\ ~StartNeedsSave
     /\ sessionStartTime' = IF sessionStartTime = Null
                            THEN savedStart ELSE sessionStartTime
     /\ sessionTimer' = TRUE
     /\ Send(puts) /\ UNCHANGED <<savedStart, saving>>

\* startSession up to its first await of the platform.
StartSession(puts, task) ==
  \/ /\ StartNeedsSave
     /\ sessionStartTime' = now
     /\ savedStart' = now
     /\ saving' = saving \cup {task}
     /\ Send(puts \o <<Put("session", now, task)>>)
     /\ UNCHANGED sessionTimer
  \/ /\ ~StartNeedsSave
     /\ sessionStartTime' = IF sessionStartTime = Null
                            THEN savedStart ELSE sessionStartTime
     /\ sessionTimer' = TRUE
     /\ Send(puts) /\ UNCHANGED <<savedStart, saving>>

\* Fault: startSession returns from the save without starting the timer.
FinishStartUntimed(puts, task) ==
  /\ task \in saving /\ Landed(task)
  /\ saving' = saving \ {task}
  /\ Send(puts) /\ UNCHANGED <<sessionStartTime, sessionTimer, savedStart>>

\* The save has completed: startSession goes on to _startSessionTimer,
\* whatever has happened to the session meanwhile.
FinishStart(puts, task) ==
  /\ task \in saving /\ Landed(task)
  /\ saving' = saving \ {task}
  /\ sessionTimer' = TRUE
  /\ Send(puts) /\ UNCHANGED <<sessionStartTime, savedStart>>

\* Fault: "<" in place of "<=", of a remaining time that is never negative.
TickExpiredStrictly == sessionTimer /\ TimeRemaining < 0

\* A tick of _sessionTimer that finds no time left: _handleSessionExpired
\* calls the disconnect callback, which ends the session, and ends it again.
TickExpired == sessionTimer /\ TimeRemaining = 0
HandleSessionExpired(puts, callback) ==
  /\ TickExpired
  /\ EndSession(puts, <<callback, Null>>)

ForgetSession ==
  /\ sessionStartTime' = Null /\ sessionTimer' = FALSE
  /\ saving' = {}
  /\ savedStart' = disk["session"]
  /\ LoseWrites

(* ------------------------------- behaviour ------------------------------ *)
Tick == /\ now < Horizon
        /\ now' = now + 1
        /\ UNCHANGED <<disk, writes, sessionStartTime, sessionTimer,
                       savedStart, saving, inits, kills>>

CallInitialize == /\ inits < MaxInits
                  /\ inits' = inits + 1
                  /\ Initialize(Null)
                  /\ UNCHANGED <<now, kills>>

Start(c) == /\ c \notin saving
            /\ now <= LastStart /\ Len(writes) < MaxWrites
            /\ StartSession(<<>>, c)
            /\ UNCHANGED <<now, inits, kills>>

Resume(c) == FinishStart(<<>>, c) /\ UNCHANGED <<now, inits, kills>>

End == /\ Len(writes) < MaxWrites
       /\ EndSession(<<>>, <<Null>>)
       /\ UNCHANGED <<now, inits, kills>>

Expire == HandleSessionExpired(<<>>, Null) /\ UNCHANGED <<now, inits, kills>>

Write == Land /\ UNCHANGED <<now, sessionVars, inits, kills>>

\* The process or its Flutter engine is destroyed and launched anew.
Kill == /\ kills < MaxKills
        /\ kills' = kills + 1
        /\ inits' = 0
        /\ ForgetSession
        /\ UNCHANGED now

Next == \/ Tick \/ CallInitialize \/ End \/ Expire \/ Write \/ Kill
        \/ \E c \in Tasks : Start(c) \/ Resume(c)

Spec == Init /\ [][Next]_vars

\* The clock runs, periodic timers fire and the platform answers; nothing
\* makes a caller start or end a session.
Fairness == /\ WF_vars(Tick) /\ WF_vars(Expire) /\ WF_vars(Write)
            /\ \A c \in Tasks : WF_vars(Resume(c))

FairSpec == Spec /\ Fairness

(* ------------------------------ properties ------------------------------ *)
Past == (0 .. now) \cup {Null}

\* Types of the manager's state, its key on the device and the pending writes:
\* every session start that is held, persisted or under way lies in the past.
TypeOK ==
  /\ now \in Times
  /\ disk \in [{"session"} -> Past]
  /\ writes \in Seq([key : {"session"}, val : Past, by : Tasks \cup {Null}])
  /\ sessionStartTime \in Past
  /\ sessionTimer \in BOOLEAN
  /\ savedStart \in Past
  /\ saving \subseteq Tasks
  /\ inits \in 0 .. MaxInits
  /\ kills \in 0 .. MaxKills

\* A running session is under the clock: its timer ticks, or a startSession
\* call is on its way to start it (_startSessionTimer, line 71), whatever
\* calls overlap.  Otherwise the hour would never be enforced.
TimedSession == sessionStartTime # Null => sessionTimer \/ saving # {}

\* The session in memory is the one on record, and once initialize has run
\* no session is on record without running: no interleaving of startSession,
\* endSession and the expiry leaves a record behind or erases a running one's.
SessionOnRecord ==
  /\ sessionStartTime # Null => savedStart = sessionStartTime
  /\ inits > 0 /\ sessionStartTime = Null => savedStart = Null

\* The writes under way take the device to the record in memory, so with
\* none under way an app that is killed comes back to the session it left.
RecordReachesDisk == Destined("session", savedStart)

\* startSession is idempotent (comment at line 58): a start time that is set
\* changes only by ending the session.
IdempotentStart ==
  [][sessionStartTime # Null /\ sessionStartTime' # Null
       => sessionStartTime' = sessionStartTime]_vars

\* A session that has started ends, by a caller, by the process ending or by
\* the clock: "1-Hour Sessions" of the README for as long as the app runs.
SessionEnds == sessionStartTime # Null ~> sessionStartTime = Null

\* The manager implements the lease it promises.
Lease == INSTANCE SessionLease WITH lease <- sessionStartTime,
                                    record <- savedStart
ImplementsLease == Lease!Spec
=============================================================================
