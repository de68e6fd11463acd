------------------------ MODULE SessionManagerProofs ------------------------
(* Theorems about SessionManager for every set of callers, every duration   *)
(* and every bound.  The argument: Inv joins the type invariant, the claim  *)
(* that a set start time is under the clock, the agreement of the start     *)
(* time with its record, and the fact that the youngest pending write is    *)
(* the record; each action keeps it.                                        *)
EXTENDS SessionManager, TLAPS

Inv == TypeOK /\ TimedSession /\ SessionOnRecord /\ RecordReachesDisk

Write1 == [key : {"session"}, val : Past, by : Tasks \cup {Null}]

\* Initially the invariant holds.
LEMMA InitInv == Init => Inv
<1> SUFFICES ASSUME Init PROVE Inv
  OBVIOUS
<1> USE SessionAssumption DEF Init
<1>1. TypeOK
  <2>1. now \in Times /\ 0 \in 0 .. MaxInits /\ 0 \in 0 .. MaxKills
    BY DEF Times, Horizon, SessionAssumption
  <2>2. disk \in [{"session"} -> Past]
    BY DEF Past
  <2>3. writes \in Seq(Write1)
    OBVIOUS
  <2> QED
    BY <2>1, <2>2, <2>3 DEF TypeOK, Past, Write1
<1>2. TimedSession /\ SessionOnRecord
  BY DEF TimedSession, SessionOnRecord
<1>3. RecordReachesDisk
  BY DEF RecordReachesDisk, Destined, Youngest
<1> QED
  BY <1>1, <1>2, <1>3 DEF Inv

\* Once writes of val to key are sent, val is where key will end up.
LEMMA SendDestined ==
  ASSUME NEW W, writes \in Seq(W), NEW puts \in Seq(W), puts # <<>>,
         NEW key, NEW val,
         \A i \in DOMAIN puts : puts[i].key = key /\ puts[i].val = val,
         writes' = writes \o puts
  PROVE  Destined(key, val)'
<1> DEFINE n == Len(writes)
           m == Len(puts)
<1>1. /\ n \in Nat /\ m \in Nat \ {0}
      /\ DOMAIN writes' = 1 .. n + m
      /\ \A i \in n + 1 .. n + m : writes'[i] = puts[i - n] /\ i - n \in DOMAIN puts
  OBVIOUS
<1>2. \A i \in n + 1 .. n + m : writes'[i].key = key /\ writes'[i].val = val
  BY <1>1
<1>3. n + m \in DOMAIN writes' /\ writes'[n + m].key = key
  BY <1>1, <1>2
<1>4. ASSUME NEW i \in DOMAIN writes', Youngest(i, key)'
      PROVE  writes'[i].val = val
  <2>1. ~(n + m > i)
    BY <1>3, <1>4 DEF Youngest
  <2>2. i \in 1 .. n + m
    BY <1>1
  <2> HIDE DEF n, m
  <2>3. i = n + m
    BY <2>1, <2>2, <1>1
  <2> QED
    BY <2>3, <1>1, <1>2
<1> QED
  BY <1>3, <1>4 DEF Destined

\* The oldest write reaches the device: the destination of a key stays.
LEMMA LandDestined ==
  ASSUME NEW W, writes \in Seq(W), Land,
         NEW key, NEW val, Destined(key, val),
         key \in DOMAIN disk
  PROVE  Destined(key, val)'
<1> DEFINE n == Len(writes)
<1>1. /\ n \in Nat \ {0} /\ DOMAIN writes = 1 .. n
      /\ DOMAIN writes' = 1 .. n - 1
      /\ \A i \in 1 .. n - 1 : writes'[i] = writes[i + 1]
      /\ Head(writes) = writes[1]
  BY DEF Land
<1>2. ASSUME NEW i \in DOMAIN writes', Youngest(i, key)'
      PROVE  writes'[i].val = val
  <2>1. i + 1 \in DOMAIN writes /\ writes[i + 1].key = key
    BY <1>1, <1>2 DEF Youngest
  <2>2. ASSUME NEW j \in DOMAIN writes, j > i + 1
        PROVE  writes[j].key # key
    <3>1. j - 1 \in DOMAIN writes' /\ j - 1 > i /\ writes'[j - 1] = writes[j]
      BY <1>1, <2>2
    <3> QED
      BY <3>1, <1>2 DEF Youngest
  <2>3. Youngest(i + 1, key)
    BY <2>1, <2>2 DEF Youngest
  <2> QED
    BY <2>1, <2>3, <1>1 DEF Destined
<1>3. ASSUME \A i \in DOMAIN writes' : writes'[i].key # key
      PROVE  disk'[key] = val
  <2>1. ASSUME NEW j \in DOMAIN writes, j > 1 PROVE writes[j].key # key
    <3>1. j - 1 \in DOMAIN writes' /\ writes'[j - 1] = writes[j]
      BY <1>1, <2>1
    <3> QED
      BY <3>1, <1>3
  <2>2. CASE writes[1].key = key
    <3>1. Youngest(1, key)
      BY <1>1, <2>1, <2>2 DEF Youngest
    <3>2. writes[1].val = val
      BY <3>1, <1>1 DEF Destined
    <3> QED
      BY <3>2, <2>2, <1>1 DEF Land
  <2>3. CASE writes[1].key # key
    <3>1. \A i \in DOMAIN writes : writes[i].key # key
      BY <1>1, <2>1, <2>3
    <3>2. disk[key] = val
      BY <3>1 DEF Destined
    <3> QED
      BY <3>2, <2>3, <1>1 DEF Land
  <2> QED
    BY <2>2, <2>3
<1> QED
  BY <1>2, <1>3 DEF Destined

\* Ending a session keeps the invariant, however many callers await the write.
LEMMA EndSessionInv ==
  ASSUME Inv, NEW callers \in Seq({Null}), callers # <<>>,
         EndSession(<<>>, callers), UNCHANGED <<now, kills>>,
         inits' \in 0 .. MaxInits
  PROVE  Inv'
<1> DEFINE puts == [i \in DOMAIN callers |-> Put("session", Null, callers[i])]
<1>1. puts \in Seq(Write1) /\ puts # <<>>
  <2>1. Len(callers) \in Nat \ {0} /\ DOMAIN callers = 1 .. Len(callers)
    OBVIOUS
  <2>2. \A i \in DOMAIN callers : puts[i] \in Write1
    BY DEF Put, Write1, Past
  <2>3. puts \in [1 .. Len(callers) -> Write1]
    BY <2>1, <2>2
  <2> QED
    BY <2>1, <2>3
<1>2. writes' = writes \o puts /\ disk' = disk
  BY <1>1 DEF EndSession, Send
<1>3. writes \in Seq(Write1) /\ Past' = Past
  BY DEF Inv, TypeOK, Write1, Past
<1>4. writes' \in Seq(Write1)
  BY <1>1, <1>2, <1>3
<1>5. TypeOK'
  BY <1>2, <1>3, <1>4 DEF Inv, TypeOK, EndSession, Write1, Past
<1>6. Destined("session", Null)'
  <2>1. \A i \in DOMAIN puts : puts[i].key = "session" /\ puts[i].val = Null
    BY DEF Put
  <2> HIDE DEF puts
  <2> QED
    BY <1>1, <1>2, <1>3, <2>1, SendDestined
<1>7. RecordReachesDisk'
  BY <1>6 DEF RecordReachesDisk, EndSession
<1>8. TimedSession' /\ SessionOnRecord'
  BY DEF EndSession, TimedSession, SessionOnRecord
<1> QED
  BY <1>5, <1>7, <1>8 DEF Inv

\* Starting a session keeps the invariant, from every state it is called in.
LEMMA StartSessionInv ==
  ASSUME Inv, NEW c \in Tasks,
         StartSession(<<>>, c), UNCHANGED <<now, inits, kills>>
  PROVE  Inv'
<1>1. writes \in Seq(Write1) /\ Past' = Past /\ now \in Nat
  BY SessionAssumption DEF Inv, TypeOK, Write1, Past, Times, Horizon
<1>2. CASE StartNeedsSave
  <2> DEFINE puts == <<Put("session", now, c)>>
  <2>1. now \in Past
    BY <1>1 DEF Past
  <2>2. puts \in Seq(Write1) /\ puts # <<>> /\ DOMAIN puts = {1}
    BY <2>1 DEF Put, Write1
  <2>3. writes' = writes \o puts /\ disk' = disk
    BY <1>2, <2>2 DEF StartSession, Send
  <2>4. /\ sessionStartTime' = now /\ savedStart' = now
        /\ saving' = saving \cup {c} /\ sessionTimer' = sessionTimer
    BY <1>2 DEF StartSession
  <2>5. writes' \in Seq(Write1)
    BY <1>1, <2>2, <2>3
  <2>6. TypeOK'
    BY <1>1, <2>1, <2>3, <2>4, <2>5 DEF Inv, TypeOK, Write1, Past
  <2>7. Destined("session", now)'
    <3>1. \A i \in DOMAIN puts : puts[i].key = "session" /\ puts[i].val = now
      BY DEF Put
    <3> HIDE DEF puts
    <3> QED
      BY <1>1, <2>2, <2>3, <3>1, SendDestined
  <2>8. RecordReachesDisk'
    BY <2>4, <2>7 DEF RecordReachesDisk
  <2>9. TimedSession' /\ SessionOnRecord'
    BY <1>1, <2>4, SessionAssumption DEF TimedSession, SessionOnRecord
  <2> QED
    BY <2>6, <2>8, <2>9 DEF Inv
<1>3. CASE ~StartNeedsSave
  <2>1. /\ sessionStartTime' \in {sessionStartTime, savedStart}
        /\ sessionStartTime' = savedStart
        /\ sessionTimer' = TRUE
        /\ UNCHANGED <<savedStart, saving, disk, writes>>
    BY <1>1, <1>3 DEF StartSession, StartNeedsSave, Send, Inv, SessionOnRecord
  <2>2. TypeOK'
    BY <1>1, <2>1 DEF Inv, TypeOK, Write1, Past
  <2>3. TimedSession' /\ SessionOnRecord'
    BY <2>1 DEF TimedSession, SessionOnRecord
  <2>4. RecordReachesDisk'
    BY <2>1 DEF Inv, RecordReachesDisk, Destined, Youngest
  <2> QED
    BY <2>2, <2>3, <2>4 DEF Inv
<1> QED
  BY <1>2, <1>3

\* A startSession that resumes keeps the invariant, even when the session it
\* started has been ended meanwhile.
LEMMA FinishStartInv ==
  ASSUME Inv, NEW c \in Tasks,
         FinishStart(<<>>, c), UNCHANGED <<now, inits, kills>>
  PROVE  Inv'
<1>1. /\ writes \in Seq(Write1) /\ Past' = Past
      /\ UNCHANGED <<sessionStartTime, savedStart, disk, writes>>
      /\ sessionTimer' = TRUE /\ saving' \subseteq saving
  BY DEF FinishStart, Send, Inv, TypeOK, Write1, Past
<1>2. TypeOK'
  BY <1>1 DEF Inv, TypeOK, Past
<1>3. TimedSession' /\ SessionOnRecord' /\ RecordReachesDisk'
  BY <1>1 DEF Inv, TimedSession, SessionOnRecord, RecordReachesDisk, Destined,
              Youngest
<1> QED
  BY <1>2, <1>3 DEF Inv

\* initialize keeps the invariant, whether it adopts, ends or finds nothing.
LEMMA InitializeInv == ASSUME Inv, CallInitialize PROVE Inv'
<1>1. /\ inits' \in Nat /\ inits' \in 0 .. MaxInits
      /\ now' = now /\ kills' = kills /\ Past' = Past
      /\ writes \in Seq(Write1)
  BY SessionAssumption DEF CallInitialize, Inv, TypeOK, Past, Write1
<1>2. ASSUME ~SavedExpired, sessionStartTime' = savedStart,
             sessionTimer' \in BOOLEAN, savedStart # Null => sessionTimer',
             Send(<<>>), savedStart' = savedStart, saving' = saving
      PROVE  Inv'
  <2>1. disk' = disk /\ writes' = writes
    BY <1>1, <1>2 DEF Send
  <2>2. TypeOK'
    BY <1>1, <1>2, <2>1 DEF Inv, TypeOK
  <2>3. TimedSession' /\ SessionOnRecord'
    BY <1>1, <1>2 DEF TimedSession, SessionOnRecord
  <2>4. RecordReachesDisk'
    BY <1>2, <2>1 DEF Inv, RecordReachesDisk, Destined, Youngest
  <2> QED
    BY <2>2, <2>3, <2>4 DEF Inv
<1>3. CASE EndSession(<<>>, <<Null>>)
  <2>1. <<Null>> \in Seq({Null}) /\ <<Null>> # <<>>
    OBVIOUS
  <2>2. UNCHANGED <<now, kills>>
    BY <1>1
  <2> HIDE DEF EndSession
  <2> QED
    BY <1>1, <1>3, <2>1, <2>2, EndSessionInv
<1>4. CASE savedStart = Null /\ Send(<<>>) /\ UNCHANGED sessionVars
  <2>1. sessionStartTime = Null /\ sessionTimer \in BOOLEAN
    BY <1>1, <1>4 DEF Inv, SessionOnRecord, TypeOK
  <2> QED
    BY <1>2, <1>4, <2>1 DEF sessionVars, SavedExpired
<1>5. CASE /\ savedStart # Null /\ ~SavedExpired
           /\ sessionStartTime' = savedStart /\ sessionTimer' = TRUE
           /\ Send(<<>>) /\ UNCHANGED <<savedStart, saving>>
  BY <1>2, <1>5
<1> QED
  BY <1>3, <1>4, <1>5 DEF CallInitialize, Initialize

\* Every step keeps the invariant.
LEMMA NextInv == Inv /\ [Next]_vars => Inv'
<1> SUFFICES ASSUME Inv, [Next]_vars PROVE Inv'
  OBVIOUS
<1>1. CASE Tick
  <2>1. /\ now \in Nat /\ now' = now + 1 /\ now' \in Times
        /\ Past \subseteq Past'
    BY <1>1, SessionAssumption DEF Tick, Inv, TypeOK, Times, Horizon, Past
  <2>2. writes' \in Seq(Write1)'
    <3>1. writes \in Seq(Write1)
      BY DEF Inv, TypeOK, Write1
    <3>2. Write1 \subseteq Write1'
      BY <2>1 DEF Write1
    <3>3. \A i \in 1 .. Len(writes) : writes[i] \in Write1'
      BY <3>1, <3>2
    <3>4. writes \in [1 .. Len(writes) -> Write1'] /\ Len(writes) \in Nat
      BY <3>1, <3>3
    <3> QED
      BY <1>1, <3>4 DEF Tick
  <2>3. TypeOK'
    <3>1. disk' \in [{"session"} -> Past]'
      BY <1>1, <2>1 DEF Inv, TypeOK, Tick
    <3>2. UNCHANGED <<sessionStartTime, sessionTimer, savedStart, saving,
                      inits, kills>>
      BY <1>1 DEF Tick
    <3> QED
      BY <2>1, <2>2, <3>1, <3>2 DEF Inv, TypeOK, Write1, Times, Horizon
  <2>4. TimedSession' /\ SessionOnRecord' /\ RecordReachesDisk'
    BY <1>1 DEF Inv, Tick, TimedSession, SessionOnRecord, RecordReachesDisk,
                Destined, Youngest
  <2> QED
    BY <2>3, <2>4 DEF Inv
<1>2. CASE CallInitialize
  BY <1>2, InitializeInv
<1>3. CASE End
  <2>1. <<Null>> \in Seq({Null}) /\ <<Null>> # <<>>
    OBVIOUS
  <2> QED
    BY <1>3, <2>1, EndSessionInv DEF End, Inv, TypeOK
<1>4. CASE Expire
  <2>1. <<Null, Null>> \in Seq({Null}) /\ <<Null, Null>> # <<>>
    OBVIOUS
  <2> QED
    BY <1>4, <2>1, EndSessionInv DEF Expire, HandleSessionExpired, Inv, TypeOK
<1>5. CASE Write
  <2>1. writes \in Seq(Write1) /\ Past' = Past
    BY <1>5 DEF Write, Inv, TypeOK, Write1, Past
  <2>2. /\ Head(writes) \in Write1 /\ Tail(writes) \in Seq(Write1)
        /\ "session" \in DOMAIN disk
    BY <1>5, <2>1 DEF Write, Land, Inv, TypeOK
  <2>3. TypeOK'
    BY <1>5, <2>1, <2>2 DEF Inv, TypeOK, Write, Land, sessionVars, Write1, Past
  <2>4. Land /\ Destined("session", savedStart) /\ savedStart' = savedStart
    BY <1>5 DEF Write, Inv, RecordReachesDisk, sessionVars
  <2>5. RecordReachesDisk'
    BY <2>1, <2>2, <2>4, LandDestined DEF RecordReachesDisk
  <2>6. TimedSession' /\ SessionOnRecord'
    BY <1>5 DEF Inv, Write, sessionVars, TimedSession, SessionOnRecord
  <2> QED
    BY <2>3, <2>5, <2>6 DEF Inv
<1>6. CASE Kill
  <2>1. /\ writes' = <<>> /\ disk' = disk /\ savedStart' = disk["session"]
        /\ sessionStartTime' = Null /\ inits' = 0 /\ now' = now
    BY <1>6 DEF Kill, ForgetSession, LoseWrites
  <2>2. kills' \in 0 .. MaxKills /\ Past' = Past /\ writes' \in Seq(Write1)'
    BY <1>6, <2>1, SessionAssumption DEF Kill, Inv, TypeOK, Past
  <2>3. TypeOK'
    <3>1. disk' \in [{"session"} -> Past'] /\ savedStart' \in Past'
      BY <2>1, <2>2 DEF Inv, TypeOK
    <3>2. sessionStartTime' \in Past' /\ sessionTimer' \in BOOLEAN
      BY <1>6, <2>1 DEF Kill, ForgetSession, Past
    <3>3. saving' \subseteq Tasks /\ inits' \in 0 .. MaxInits /\ now' \in Times
      BY <1>6, <2>1, SessionAssumption DEF Kill, ForgetSession, Inv, TypeOK
    <3> QED
      BY <2>2, <3>1, <3>2, <3>3 DEF TypeOK, Write1, Times, Horizon
  <2>4. TimedSession' /\ SessionOnRecord' /\ RecordReachesDisk'
    BY <2>1 DEF TimedSession, SessionOnRecord, RecordReachesDisk, Destined,
                Youngest
  <2> QED
    BY <2>3, <2>4 DEF Inv
<1>7. ASSUME NEW c \in Tasks, Start(c) PROVE Inv'
  BY <1>7, StartSessionInv DEF Start
<1>8. ASSUME NEW c \in Tasks, Resume(c) PROVE Inv'
  BY <1>8, FinishStartInv DEF Resume
<1>9. CASE UNCHANGED vars
  BY <1>9 DEF Inv, vars, TypeOK, Past, TimedSession, SessionOnRecord,
              RecordReachesDisk, Destined, Youngest
<1> QED
  BY <1>1, <1>2, <1>3, <1>4, <1>5, <1>6, <1>7, <1>8, <1>9 DEF Next

\* The invariant holds of every behaviour.
THEOREM Invariance == Spec => []Inv
  BY InitInv, NextInv, PTL DEF Spec

\* Every value the manager holds has its type, and no start time it holds,
\* has stored or is storing lies in the future.
THEOREM TypeCorrect == Spec => []TypeOK
  BY Invariance, PTL DEF Inv

\* A running session is always under the clock.
THEOREM SessionIsTimed == Spec => []TimedSession
  BY Invariance, PTL DEF Inv

\* The session in memory is the session on record.
THEOREM SessionIsOnRecord == Spec => []SessionOnRecord
  BY Invariance, PTL DEF Inv

\* The pending writes take the device to the record in memory.
THEOREM RecordIsDestined == Spec => []RecordReachesDisk
  BY Invariance, PTL DEF Inv

\* startSession never replaces the start time of a running session.
THEOREM StartIsIdempotent == Spec => IdempotentStart
<1>1. Inv /\ [Next]_vars =>
        [sessionStartTime # Null /\ sessionStartTime' # Null
           => sessionStartTime' = sessionStartTime]_vars
  BY DEF Inv, SessionOnRecord, Next, vars, Tick, CallInitialize, Initialize,
         EndSession, Start, StartSession, StartNeedsSave, Resume, FinishStart,
         End, Expire, HandleSessionExpired, Write, sessionVars, Kill,
         ForgetSession
<1> QED
  BY <1>1, Invariance, PTL DEF Spec, IdempotentStart

\* Every step of the manager is a step of the lease, or changes nothing the
\* lease shows.
LEMMA NextLease == Inv /\ [Next]_vars => [Lease!Next]_Lease!vars
<1> SUFFICES ASSUME Inv, [Next]_vars, ~(UNCHANGED Lease!vars)
             PROVE  Lease!Next
  OBVIOUS
<1> USE DEF Lease!vars
<1>1. CASE Tick
  BY <1>1 DEF Tick, Lease!Next, Lease!Tick
<1>2. ASSUME NEW task, Initialize(task), now' = now PROVE Lease!Next
  <2>1. CASE savedStart = Null /\ UNCHANGED sessionVars
    BY <1>2, <2>1 DEF sessionVars
  <2>2. CASE EndSession(<<>>, <<task>>)
    BY <1>2, <2>2 DEF EndSession, Lease!Next, Lease!Release
  <2>3. CASE savedStart # Null /\ sessionStartTime' = savedStart /\ savedStart' = savedStart
    BY <1>2, <2>3 DEF Inv, SessionOnRecord, Lease!Next, Lease!Acquire
  <2> QED
    BY <1>2, <2>1, <2>2, <2>3 DEF Initialize
<1>3. CASE CallInitialize
  BY <1>2, <1>3 DEF CallInitialize
<1>4. ASSUME NEW c \in Tasks, Start(c) PROVE Lease!Next
  <2>1. CASE StartNeedsSave
    BY <1>4, <2>1 DEF Start, StartSession, StartNeedsSave, Lease!Next,
                      Lease!Acquire
  <2>2. CASE ~StartNeedsSave
    BY <1>4, <2>2 DEF Start, StartSession, StartNeedsSave, Lease!Next,
                      Lease!Acquire
  <2> QED
    BY <2>1, <2>2
<1>5. ASSUME NEW c \in Tasks, Resume(c) PROVE FALSE
  BY <1>5 DEF Resume, FinishStart
<1>6. CASE End \/ Expire
  BY <1>6 DEF End, Expire, HandleSessionExpired, EndSession, Lease!Next,
              Lease!Release
<1>7. CASE Write
  BY <1>7 DEF Write, sessionVars
<1>8. CASE Kill
  <2>1. disk["session"] \in (0 .. now) \cup {Null}
    BY DEF Inv, TypeOK, Past
  <2> QED
    BY <1>8, <2>1 DEF Kill, ForgetSession, Lease!Next, Lease!Lose
<1>9. CASE UNCHANGED vars
  BY <1>9 DEF vars
<1> QED
  BY <1>1, <1>3, <1>4, <1>5, <1>6, <1>7, <1>8, <1>9 DEF Next

\* The session manager implements the lease: taken at the current time or
\* taken over from the record, never replaced while held, off the record when
\* released.
THEOREM SessionIsALease == Spec => ImplementsLease
<1>1. Init => Lease!Init
  BY DEF Init, Lease!Init
<1> QED
  BY <1>1, NextLease, Invariance, PTL DEF Spec, ImplementsLease, Lease!Spec
=============================================================================
