--------------------------- MODULE IpDeviceProofs ---------------------------
(* Theorems about UdpSessions and LwipDevice for every set of callers and   *)
(* of output calls and every bound.  A session's socket and its timer are   *)
(* taken away by one action, CloseSender, under one condition: that is why  *)
(* SocketsTimed is inductive.  How the lock can get stuck takes more: a     *)
(* session that is in the map with a receiver of its own can only be closed *)
(* by another session's receiver.  The two rendezvous of a packet are kept  *)
(* together by Answering: while the device is open nothing waits for an     *)
(* answer but the call whose packet the reader holds.                       *)
EXTENDS UdpSessions, LwipDevice, TLAPS

(* ------------------------------ UDP sessions ----------------------------- *)
\* A call that has made a session holds it.
MadeHeld == \A c \in Callers : caller[c] = "made" => mine[c] \in Sessions

UdpInv == UdpTypeOK /\ SocketsTimed /\ MadeHeld

\* The first session fits the type of the number of sessions.
LEMMA UdpBounds == 0 \in 0 .. MaxSessions /\ 0 \in 0 .. MaxPackets
  BY UdpAssumption

\* The initial states satisfy the invariant.
LEMMA UdpInitInv == UdpInit => UdpInv
<1> SUFFICES ASSUME UdpInit PROVE UdpInv
  OBVIOUS
<1> USE DEF UdpInit, None
<1>1. proxy \in Proxies /\ made \in 0 .. MaxSessions /\ packets \in 0 .. MaxPackets
  BY UdpBounds DEF Proxies, NewOutlinePacketProxy
<1>2. sender \in 0 .. made /\ mine \in [Callers -> 0 .. made]
  BY UdpBounds
<1>3. kindOf \in [Sessions -> Proxies \cup {"none"}] /\ connOf \in [Sessions -> Nat]
        /\ on \in [Callers -> Nat] /\ conn \in Nat
  OBVIOUS
<1>4. UdpTypeOK
  BY <1>1, <1>2, <1>3 DEF UdpTypeOK
<1>5. SocketsTimed
  BY DEF SocketsTimed
<1>6. MadeHeld
  BY DEF MadeHeld
<1> QED
  BY <1>4, <1>5, <1>6 DEF UdpInv

\* Closing a sender takes its socket only together with its timer.
LEMMA CloseSenderTimed ==
  ASSUME UdpInv, NEW s, CloseSender(s)
  PROVE  /\ accepting' \subseteq Sessions /\ armed' \subseteq Sessions
         /\ sockets' \subseteq Sessions /\ sockets' \subseteq armed'
  BY DEF UdpInv, UdpTypeOK, SocketsTimed, CloseSender

\* Closing a session leaves the types alone and every socket timed.
LEMMA CloseSessionTimed ==
  ASSUME UdpInv, NEW k, NEW staying \in SUBSET Sessions, CloseSession(k, staying)
  PROVE  /\ mu' \in {"free", "stuck"} /\ connOpen' \in BOOLEAN
         /\ sender' \in 0 .. made
         /\ accepting' \subseteq Sessions /\ armed' \subseteq Sessions
         /\ sockets' \subseteq Sessions /\ receiving' \subseteq Sessions
         /\ sockets' \subseteq armed'
<1> USE DEF UdpInv, UdpTypeOK, SocketsTimed
<1>1. connOpen' \in BOOLEAN
  BY DEF CloseSession
<1>2. CASE sender = None
  BY <1>1, <1>2 DEF CloseSession, None
<1>3. CASE sender # None
  <2>1. /\ accepting' \subseteq Sessions /\ armed' \subseteq Sessions
        /\ sockets' \subseteq Sessions /\ sockets' \subseteq armed'
    BY <1>3, CloseSenderTimed DEF CloseSession
  <2>2. mu' \in {"free", "stuck"} /\ sender' \in 0 .. made /\ receiving' \subseteq Sessions
    BY <1>3 DEF CloseSession, None
  <2> QED
    BY <1>1, <2>1, <2>2
<1> QED
  BY <1>2, <1>3

\* No step breaks a type or leaves a socket without its timer.
LEMMA UdpNextInv == UdpInv /\ [UdpNext]_udpVars => UdpInv'
<1> SUFFICES ASSUME UdpInv, [UdpNext]_udpVars PROVE UdpInv'
  OBVIOUS
<1> USE DEF UdpInv, UdpTypeOK, SocketsTimed, MadeHeld, Proxies, sessionVars, callVars
<1>1. CASE Refresh
  BY <1>1 DEF Refresh, SetProxy
<1>2. ASSUME NEW c \in Callers, CallStep(c) PROVE UdpInv'
  <2>1. CASE ReceiveTo(c)
    <3>1. conn' \in Nat /\ connOpen' \in BOOLEAN /\ packets' \in 0 .. MaxPackets
      BY <2>1, UdpAssumption DEF ReceiveTo
    <3>2. on' \in [Callers -> Nat] /\ mine' \in [Callers -> 0 .. made]
      BY <2>1, <3>1 DEF ReceiveTo
    <3>3. overlapped' \in BOOLEAN
      BY <2>1 DEF ReceiveTo
    <3> QED
      BY <2>1, <3>1, <3>2, <3>3 DEF ReceiveTo
  <2>2. CASE NewSession(c)
    <3>1. made' = made + 1 /\ made' \in Sessions
      BY <2>2 DEF NewSession, Make
    <3>2. made' \in 0 .. MaxSessions /\ sender' \in 0 .. made' /\ mine' \in [Callers -> 0 .. made']
      BY <2>2, <3>1, UdpAssumption DEF NewSession, Make, Sessions
    <3>3. kindOf' \in [Sessions -> Proxies \cup {"none"}] /\ connOf' \in [Sessions -> Nat]
      BY <2>2, <3>1 DEF NewSession, Make
    <3> QED
      BY <2>2, <3>1, <3>2, <3>3 DEF NewSession, Make
  <2>3. CASE NewSessionFails(c)
    <3>1. PICK k : CloseSession(k, receiving)
      BY <2>3 DEF NewSessionFails
    <3>2. /\ mu' \in {"free", "stuck"} /\ connOpen' \in BOOLEAN
          /\ sender' \in 0 .. made
          /\ accepting' \subseteq Sessions /\ armed' \subseteq Sessions
          /\ sockets' \subseteq Sessions /\ receiving' \subseteq Sessions
          /\ sockets' \subseteq armed'
      BY <3>1, CloseSessionTimed
    <3> QED
      BY <2>3, <3>2 DEF NewSessionFails
  <2>4. CASE NewTruncateSession(c)
    <3>1. made' = made + 1 /\ made' \in Sessions
      BY <2>4 DEF NewTruncateSession, Make
    <3>2. made' \in 0 .. MaxSessions /\ sender' \in 0 .. made' /\ mine' \in [Callers -> 0 .. made']
      BY <2>4, <3>1, UdpAssumption DEF NewTruncateSession, Make, Sessions
    <3>3. kindOf' \in [Sessions -> Proxies \cup {"none"}] /\ connOf' \in [Sessions -> Nat]
      BY <2>4, <3>1 DEF NewTruncateSession, Make
    <3> QED
      BY <2>4, <3>1, <3>2, <3>3 DEF NewTruncateSession, Make
  <2>5. CASE RecordSender(c)
    <3>1. mine[c] \in 0 .. made
      OBVIOUS
    <3>2. bornDead' \subseteq Sessions
      BY <2>5 DEF RecordSender
    <3> QED
      BY <2>5, <3>1, <3>2 DEF RecordSender
  <2>6. CASE CheckSender(c) \/ WriteSocket(c) \/ TruncateWriteTo(c) \/ WriteFrom(c)
    BY <2>6 DEF CheckSender, WriteSocket, TruncateWriteTo, WriteFrom, CallGoes
  <2> QED
    BY <1>2, <2>1, <2>2, <2>3, <2>4, <2>5, <2>6 DEF CallStep
<1>3. ASSUME NEW s \in Sessions, IdleTimerFires(s) PROVE UdpInv'
  <2>1. /\ accepting' \subseteq Sessions /\ armed' \subseteq Sessions
        /\ sockets' \subseteq Sessions /\ sockets' \subseteq armed'
    BY <1>3, CloseSenderTimed DEF IdleTimerFires
  <2> QED
    BY <1>3, <2>1 DEF IdleTimerFires
<1>4. ASSUME NEW s \in Sessions, ReaderStep(s) PROVE UdpInv'
  <2>1. CASE ReadResponse(s) \/ ReadFails(s) \/ RelayResponse(s) \/ RelayFails(s)
    <3>1. PICK to \in {"reading", "relaying", "closing"}, from \in {"reading", "relaying"} :
            ReaderGoes(s, from, to)
      BY <2>1 DEF ReadResponse, ReadFails, RelayResponse, RelayFails
    <3> QED
      BY <3>1 DEF ReaderGoes
  <2>2. CASE ReaderEnds(s)
    <3>1. /\ mu' \in {"free", "stuck"} /\ connOpen' \in BOOLEAN
          /\ sender' \in 0 .. made
          /\ accepting' \subseteq Sessions /\ armed' \subseteq Sessions
          /\ sockets' \subseteq Sessions /\ receiving' \subseteq Sessions
          /\ sockets' \subseteq armed'
      <4>1. CASE s \in receiving
        <5>1. receiving \ {s} \in SUBSET Sessions
          OBVIOUS
        <5> QED
          BY <2>2, <4>1, <5>1, CloseSessionTimed DEF ReaderEnds
      <4>2. CASE s \notin receiving
        BY <2>2, <4>2 DEF ReaderEnds
      <4> QED
        BY <4>1, <4>2
    <3> QED
      BY <2>2, <3>1 DEF ReaderEnds
  <2> QED
    BY <1>4, <2>1, <2>2 DEF ReaderStep
<1>5. CASE UNCHANGED udpVars
  BY <1>5 DEF udpVars
<1> QED
  BY <1>1, <1>2, <1>3, <1>4, <1>5 DEF UdpNext

\* In every state of every behaviour a socket that a session holds has a timer
\* set that will close it: no race on the handler's map can take the timer away
\* and leave the socket.
THEOREM SocketsAreTimed == UdpSpec => []SocketsTimed
<1>1. UdpInv => SocketsTimed
  BY DEF UdpInv
<1> QED
  BY <1>1, UdpInitInv, UdpNextInv, PTL DEF UdpSpec

\* The handler, its sessions and its callers keep their types.
THEOREM UdpTypes == UdpSpec => []UdpTypeOK
<1>1. UdpInv => UdpTypeOK
  BY DEF UdpInv
<1> QED
  BY <1>1, UdpInitInv, UdpNextInv, PTL DEF UdpSpec

(* ----------------------- the map and the handler's lock ------------------- *)
\* Readers belong to sessions of a listener that were made, and a reader that
\* has not ended has its receiver.
ReadersLive ==
  /\ \A s \in Sessions : s > made => reader[s] = "none"
  /\ \A s \in Sessions : reader[s] # "none" => kindOf[s] = "listener"
  /\ \A s \in Sessions : reader[s] \in {"reading", "relaying", "closing"} => s \in receiving

\* While no two calls have made sessions at once one call makes a session only
\* while the map is empty, every receiver is that of the session in the map or
\* in the hands of that call, and the lock is free.
Making(c) == caller[c] \in {"making", "made"}
OneMaker ==
  ~overlapped =>
    /\ \A c, d \in Callers : Making(c) /\ Making(d) => c = d
    /\ \A c \in Callers : Making(c) => sender = None
    /\ \A r \in receiving : r = sender \/ \E c \in Callers : caller[c] = "made" /\ mine[c] = r
    /\ mu = "free"

EntryInv == UdpInv /\ ReadersLive /\ DeadEntryBornDead /\ OneMaker

\* The initial states satisfy it.
LEMMA EntryInitInv == UdpInit => EntryInv
  BY UdpInitInv DEF UdpInit, EntryInv, ReadersLive, DeadEntryBornDead, OneMaker, None, Making

\* A reader goes on with its session: no end, and nothing else moves.
LEMMA ReaderGoesKeeps ==
  ASSUME EntryInv, NEW s \in Sessions, NEW to \in {"reading", "relaying", "closing"},
         NEW from \in {"reading", "relaying", "closing"}, ReaderGoes(s, from, to)
  PROVE  ReadersLive' /\ DeadEntryBornDead' /\ OneMaker'
<1> USE DEF ReaderGoes, callVars
<1>1. reader' = [reader EXCEPT ![s] = to] /\ reader[s] = from
  OBVIOUS
<1>2. \A t \in Sessions : reader'[t] = IF t = s THEN to ELSE reader[t]
  BY <1>1 DEF EntryInv, UdpInv, UdpTypeOK
<1>3. ReadersLive'
  BY <1>1, <1>2 DEF EntryInv, ReadersLive
<1>4. DeadEntryBornDead'
  BY <1>1, <1>2 DEF EntryInv, UdpInv, UdpTypeOK, DeadEntryBornDead, None, Sessions
<1>5. OneMaker'
  BY DEF EntryInv, OneMaker, Making
<1> QED
  BY <1>3, <1>4, <1>5

\* Every step of a call preserves it.
LEMMA CallKeepsEntries ==
  ASSUME EntryInv, NEW c \in Callers, CallStep(c)
  PROVE  ReadersLive' /\ DeadEntryBornDead' /\ OneMaker'
<1> USE DEF EntryInv, UdpInv, UdpTypeOK, sessionVars, callVars
<1>1. CASE ReceiveTo(c)
  <2> USE <1>1 DEF ReceiveTo
  <2>1. ReadersLive' /\ DeadEntryBornDead'
    BY DEF ReadersLive, DeadEntryBornDead
  <2>2. OneMaker'
    <3> SUFFICES ASSUME ~overlapped' PROVE OneMaker'
      BY DEF OneMaker
    <3>1. ~overlapped /\ OneMaker
      OBVIOUS
    <3>2. \A d \in Callers : d # c => caller'[d] = caller[d] /\ mine'[d] = mine[d]
      OBVIOUS
    <3>3. caller[c] = "idle" /\ caller'[c] = (IF sender = None THEN "making" ELSE "sending")
      OBVIOUS
    <3>4. sender = None => \A d \in Callers \ {c} : ~Making(d)
      BY DEF Making
    <3> QED
      BY <3>1, <3>2, <3>3, <3>4 DEF OneMaker, Making
  <2> QED
    BY <2>1, <2>2
<1>2. ASSUME NEW kind \in {"truncate", "listener"}, Make(c, kind),
             \A s \in Sessions : s # made + 1 => reader'[s] = reader[s],
             reader'[made + 1] = IF kind = "listener" THEN "reading" ELSE reader[made + 1]
      PROVE  ReadersLive' /\ DeadEntryBornDead' /\ OneMaker'
  <2> DEFINE s == made + 1
  <2>1. /\ s \in Sessions /\ made' = s /\ s > made
        /\ receiving' = receiving \cup {s}
        /\ kindOf'[s] = kind /\ \A t \in Sessions : t # s => kindOf'[t] = kindOf[t]
    BY <1>2 DEF Make
  <2>2. ReadersLive'
    BY <1>2, <2>1 DEF ReadersLive, Sessions
  <2>3. sender # s /\ (sender # None => sender \in Sessions)
    <3>1. made \in Nat /\ sender \in 0 .. made /\ made + 1 <= MaxSessions
      BY <2>1, UdpAssumption DEF Sessions
    <3> QED
      BY <3>1, UdpAssumption DEF Sessions, None
  <2>4. DeadEntryBornDead'
    BY <1>2, <2>1, <2>3 DEF Make, DeadEntryBornDead
  <2>5. OneMaker'
    <3>1. /\ caller[c] = "making" /\ caller'[c] = "made" /\ mine'[c] = s
          /\ \A d \in Callers : d # c => caller'[d] = caller[d] /\ mine'[d] = mine[d]
          /\ sender' = sender /\ mu' = mu /\ overlapped' = overlapped
      BY <1>2 DEF Make
    <3> QED
      BY <2>1, <3>1 DEF OneMaker, Making
  <2> QED
    BY <2>2, <2>4, <2>5
<1>3. CASE NewSession(c)
  <2>1. made' = made + 1 /\ made' \in Sessions /\ Make(c, "listener")
    BY <1>3 DEF NewSession, Make
  <2> QED
    BY <1>2, <1>3, <2>1 DEF NewSession
<1>4. CASE NewTruncateSession(c)
  BY <1>2, <1>4 DEF NewTruncateSession
<1>5. CASE NewSessionFails(c)
  <2> USE <1>5 DEF NewSessionFails
  <2>1. CloseSession(on[c], receiving) /\ mu = "free"
    BY DEF CloseSession
  <2>2. receiving' = receiving \/ (receiving' = receiving \ {sender} /\ kindOf[sender] = "truncate"
                                     /\ sender \in Sessions)
    BY <2>1 DEF CloseSession, ClosesReceiver
  <2>3. ReadersLive'
    BY <2>2 DEF ReadersLive
  <2>4. DeadEntryBornDead'
    BY <2>1 DEF DeadEntryBornDead, CloseSession
  <2>5. OneMaker'
    <3> SUFFICES ASSUME ~overlapped PROVE OneMaker'
      BY DEF OneMaker
    <3>1. sender = None
      BY DEF OneMaker, Making
    <3>2. sender' = None /\ mu' = mu /\ receiving' = receiving
      BY <2>1, <3>1 DEF CloseSession
    <3>3. caller'[c] = "idle" /\ \A d \in Callers : d # c => caller'[d] = caller[d]
      OBVIOUS
    <3>4. caller[c] = "making"
      OBVIOUS
    <3> QED
      BY <3>1, <3>2, <3>3, <3>4 DEF OneMaker, Making
  <2> QED
    BY <2>3, <2>4, <2>5
<1>6. CASE RecordSender(c)
  <2> USE <1>6 DEF RecordSender
  <2>1. ReadersLive'
    BY DEF ReadersLive
  <2>2. DeadEntryBornDead'
    BY DEF DeadEntryBornDead
  <2>3. OneMaker'
    <3>1. caller[c] = "made" /\ caller'[c] = "sending"
            /\ \A d \in Callers : d # c => caller'[d] = caller[d]
      OBVIOUS
    <3>2. \A r \in receiving : r # None
      BY DEF Sessions, None
    <3> QED
      BY <3>1, <3>2 DEF OneMaker, Making
  <2> QED
    BY <2>1, <2>2, <2>3
<1>7. CASE CheckSender(c) \/ WriteSocket(c) \/ TruncateWriteTo(c) \/ WriteFrom(c)
  <2>1. /\ caller[c] \in {"sending", "writing", "answering"}
        /\ caller'[c] \in {"idle", "writing", "answering"}
        /\ \A d \in Callers : d # c => caller'[d] = caller[d]
        /\ UNCHANGED <<mu, sender, made, reader, kindOf, receiving, mine, bornDead, overlapped>>
    BY <1>7 DEF CheckSender, WriteSocket, TruncateWriteTo, WriteFrom, CallGoes
  <2>2. ReadersLive' /\ DeadEntryBornDead'
    BY <2>1 DEF ReadersLive, DeadEntryBornDead
  <2>3. OneMaker'
    BY <2>1 DEF OneMaker, Making
  <2> QED
    BY <2>2, <2>3
<1> QED
  BY <1>1, <1>3, <1>4, <1>5, <1>6, <1>7 DEF CallStep

\* The end of a reader preserves it: without an overlap the session whose
\* reader ends is the one in the map, or the map is empty.
LEMMA ReaderEndsKeepsEntries ==
  ASSUME EntryInv, NEW s \in Sessions, ReaderEnds(s)
  PROVE  ReadersLive' /\ DeadEntryBornDead' /\ OneMaker'
<1> USE DEF EntryInv, UdpInv, UdpTypeOK, sessionVars, callVars
<1>1. /\ reader[s] = "closing" /\ reader' = [reader EXCEPT ![s] = "done"]
      /\ UNCHANGED <<made, kindOf, caller, mine, bornDead, overlapped>>
  BY DEF ReaderEnds
<1>2. \A t \in Sessions : reader'[t] = IF t = s THEN "done" ELSE reader[t]
  BY <1>1
<1>3. s \in receiving /\ s # None
  BY <1>1 DEF ReadersLive, Sessions, None
<1>4. CloseSession(connOf[s], receiving \ {s}) /\ mu = "free"
  BY <1>3 DEF ReaderEnds, CloseSession
<1>5. CASE sender = None
  <2>1. sender' = None /\ mu' = mu /\ receiving' = receiving \ {s}
    BY <1>4, <1>5 DEF CloseSession
  <2>2. ReadersLive'
    BY <1>1, <1>2, <2>1 DEF ReadersLive
  <2>3. DeadEntryBornDead' /\ OneMaker'
    BY <1>1, <2>1, <1>5 DEF DeadEntryBornDead, OneMaker, Making
  <2> QED
    BY <2>2, <2>3
<1>6. CASE sender # None /\ ClosesReceiver(sender, receiving \ {s})
  <2>1. sender' = sender /\ receiving' = (receiving \ {s}) \ {sender} /\ kindOf[sender] = "truncate"
          /\ sender \in Sessions /\ sender # s
    BY <1>4, <1>6 DEF CloseSession, ClosesReceiver
  <2>2. reader[sender] = "none"
    BY <2>1 DEF ReadersLive
  <2>3. ReadersLive'
    BY <1>1, <1>2, <2>1, <2>2 DEF ReadersLive
  <2>4. DeadEntryBornDead'
    BY <1>1, <1>2, <2>1, <2>2 DEF DeadEntryBornDead
  <2>5. overlapped
    BY <1>3, <1>6, <2>1 DEF OneMaker, Making
  <2> QED
    BY <1>1, <2>3, <2>4, <2>5 DEF OneMaker
<1>7. CASE sender # None /\ ~ClosesReceiver(sender, receiving \ {s})
  <2>1. sender' = None /\ mu' = mu /\ receiving' = receiving \ {s}
    BY <1>4, <1>7 DEF CloseSession
  <2>2. ReadersLive'
    BY <1>1, <1>2, <2>1 DEF ReadersLive
  <2>3. DeadEntryBornDead'
    BY <2>1 DEF DeadEntryBornDead
  <2>4. OneMaker'
    <3> SUFFICES ASSUME ~overlapped PROVE OneMaker'
      BY <1>1 DEF OneMaker
    <3>1. \A c \in Callers : ~Making(c)
      BY <1>7 DEF OneMaker
    <3>2. s = sender /\ receiving' = {}
      BY <1>3, <2>1, <3>1 DEF OneMaker, Making
    <3> QED
      BY <1>1, <1>4, <2>1, <3>1, <3>2 DEF OneMaker, Making
  <2> QED
    BY <2>2, <2>3, <2>4
<1> QED
  BY <1>5, <1>6, <1>7

\* Every step preserves it.
LEMMA EntryNextInv == EntryInv /\ [UdpNext]_udpVars => EntryInv'
<1> SUFFICES ASSUME EntryInv, [UdpNext]_udpVars PROVE EntryInv'
  OBVIOUS
<1>1. UdpInv'
  BY UdpNextInv DEF EntryInv
<1>2. ReadersLive' /\ DeadEntryBornDead' /\ OneMaker'
  <2> USE DEF EntryInv, sessionVars, callVars
  <2>1. CASE Refresh
    <3>1. PICK new : SetProxy(new)
      BY <2>1 DEF Refresh
    <3> QED
      BY <3>1 DEF SetProxy, ReadersLive, DeadEntryBornDead, OneMaker, Making
  <2>2. ASSUME NEW c \in Callers, CallStep(c) PROVE ReadersLive' /\ DeadEntryBornDead' /\ OneMaker'
    BY <2>2, CallKeepsEntries
  <2>3. ASSUME NEW s \in Sessions, IdleTimerFires(s)
        PROVE  ReadersLive' /\ DeadEntryBornDead' /\ OneMaker'
    BY <2>3 DEF IdleTimerFires, ReadersLive, DeadEntryBornDead, OneMaker, Making
  <2>4. ASSUME NEW s \in Sessions, ReaderStep(s)
        PROVE  ReadersLive' /\ DeadEntryBornDead' /\ OneMaker'
    <3>1. CASE ReaderEnds(s)
      BY <3>1, ReaderEndsKeepsEntries
    <3>2. CASE ReadResponse(s) \/ ReadFails(s) \/ RelayResponse(s) \/ RelayFails(s)
      <4>1. PICK to \in {"reading", "relaying", "closing"},
                 from \in {"reading", "relaying", "closing"} : ReaderGoes(s, from, to)
        BY <3>2 DEF ReadResponse, ReadFails, RelayResponse, RelayFails
      <4> QED
        BY <4>1, ReaderGoesKeeps
    <3> QED
      BY <2>4, <3>1, <3>2 DEF ReaderStep
  <2>5. CASE UNCHANGED udpVars
    BY <2>5 DEF udpVars, ReadersLive, DeadEntryBornDead, OneMaker, Making
  <2> QED
    BY <2>1, <2>2, <2>3, <2>4, <2>5 DEF UdpNext
<1> QED
  BY <1>1, <1>2 DEF EntryInv

\* The handler's lock gets stuck only after two calls of ReceiveTo had made
\* sessions for one address at once: the TODO of ReceiveTo is its only cause.
THEOREM StuckOnlyByOverlap == UdpSpec => []StuckByOverlap
<1>1. EntryInv => StuckByOverlap
  BY DEF EntryInv, OneMaker, StuckByOverlap
<1> QED
  BY <1>1, EntryInitInv, EntryNextInv, PTL DEF UdpSpec

\* A session that has ended stays in the map only if it had ended before
\* ReceiveTo recorded it.
THEOREM DeadEntriesBornDead == UdpSpec => []DeadEntryBornDead
<1>1. EntryInv => DeadEntryBornDead
  BY DEF EntryInv
<1> QED
  BY <1>1, EntryInitInv, EntryNextInv, PTL DEF UdpSpec

(* ------------------------------- IP device ------------------------------- *)
\* While the device is open a reader without a packet leaves nobody waiting.
Answering ==
  ~done => /\ rd \in {"idle", "reading", "writingTo"} => \A o \in Outputs : out[o] # "waiting"
           /\ rd \in {"copied", "sinking", "sunk", "sinkFailed"} => \E o \in Outputs : lent = {o}

\* An end of a connection is shut only by the copy that uses it.
ShutByCopy ==
  \A d \in Sides : d \in readShut \/ Other(d) \in writeShut => copy[d] = "done"

DeviceInv == DeviceTypeOK /\ PacketLent /\ Answering /\ ShutByCopy

\* The initial states satisfy the invariant.
LEMMA DeviceInitInv == DeviceInit => DeviceInv
<1> SUFFICES ASSUME DeviceInit PROVE DeviceInv
  OBVIOUS
<1>1. DeviceTypeOK
  <2>1. outputs \in 0 .. MaxOutputs
    BY DeviceAssumption DEF DeviceInit
  <2> QED
    BY <2>1 DEF DeviceInit, DeviceTypeOK
<1>2. PacketLent /\ Answering /\ ShutByCopy
  BY DEF DeviceInit, PacketLent, Answering, ShutByCopy
<1> QED
  BY <1>1, <1>2 DEF DeviceInv

\* Each side is the other's other.
LEMMA OtherSide == \A d \in Sides : Other(d) \in Sides /\ Other(d) # d /\ Other(Other(d)) = d
  BY DEF Other, Sides

\* Steps of the relay leave the packets alone.
LEMMA RelayKeeps == DeviceInv /\ RelayStep => DeviceInv'
<1> SUFFICES ASSUME DeviceInv, RelayStep PROVE DeviceInv'
  OBVIOUS
<1> USE DEF DeviceInv, rendezvousVars
<1>1. UNCHANGED <<done, closing, out, outputs, rd, lent>>
  BY DEF RelayStep, RelayReturns, SourceEnds, CopyOneWay
<1>2. PacketLent' /\ Answering'
  BY <1>1 DEF PacketLent, Answering
<1>3. CASE RelayReturns
  BY <1>1, <1>2, <1>3 DEF RelayReturns, DeviceTypeOK, ShutByCopy
<1>4. ASSUME NEW d \in Sides, SourceEnds(d) PROVE DeviceInv'
  <2>1. source' \in [Sides -> {"data", "eof", "error"}]
    BY <1>4 DEF SourceEnds, DeviceTypeOK
  <2> QED
    BY <1>1, <1>2, <1>4, <2>1 DEF SourceEnds, DeviceTypeOK, ShutByCopy
<1>5. ASSUME NEW d \in Sides, CopyOneWay(d) PROVE DeviceInv'
  <2>1. /\ copy' = [copy EXCEPT ![d] = "done"] /\ copy' \in [Sides -> {"copying", "done"}]
        /\ writeShut' = writeShut \cup {Other(d)} /\ readShut' = readShut \cup {d}
    BY <1>5 DEF CopyOneWay, DeviceTypeOK
  <2>2. ShutByCopy'
    BY <2>1, OtherSide DEF ShutByCopy, DeviceTypeOK
  <2>3. writeShut' \subseteq Sides /\ readShut' \subseteq Sides
    BY <2>1, OtherSide DEF DeviceTypeOK
  <2>4. DeviceTypeOK'
    BY <1>1, <1>5, <2>1, <2>3 DEF CopyOneWay, DeviceTypeOK
  <2> QED
    BY <1>2, <2>2, <2>4
<1> QED
  BY <1>3, <1>4, <1>5 DEF RelayStep

\* Steps of the device and of its output calls leave the relay alone.
LEMMA PacketsKeep ==
  ASSUME DeviceInv, UNCHANGED relayVars,
         \/ \E o \in Outputs : OutputStep(o)
         \/ CallRead \/ SinkReturns \/ ReadSeesDone \/ CloseChecks \/ CloseDone
  PROVE  DeviceInv'
<1> USE DEF DeviceInv, rendezvousVars, relayVars
<1>1. ShutByCopy'
  BY DEF ShutByCopy
<1>2. ASSUME NEW o \in Outputs, OutputStep(o) PROVE DeviceInv'
  <2>1. CASE ForwardOutgoingIPPacket(o)
    <3>1. out' = [out EXCEPT ![o] = "offering"] /\ outputs' \in 0 .. MaxOutputs
      BY <2>1, DeviceAssumption DEF ForwardOutgoingIPPacket, Outgoes, DeviceTypeOK
    <3>2. \A q \in Outputs : out'[q] = "waiting" <=> out[q] = "waiting"
      BY <2>1, <3>1 DEF ForwardOutgoingIPPacket, Outgoes, DeviceTypeOK
    <3>3. UNCHANGED <<done, closing, rd, lent>>
      BY <2>1 DEF ForwardOutgoingIPPacket
    <3>4. DeviceTypeOK'
      BY <2>1, <3>1 DEF ForwardOutgoingIPPacket, DeviceTypeOK
    <3>5. PacketLent' /\ Answering'
      BY <3>2, <3>3 DEF PacketLent, Answering, DeviceTypeOK
    <3> QED
      BY <1>1, <3>4, <3>5
  <2>2. CASE ForwardSeesDone(o)
    <3>1. out' = [out EXCEPT ![o] = "failed"] /\ done /\ done'
      BY <2>2 DEF ForwardSeesDone, Outgoes
    <3> QED
      BY <1>1, <2>2, <3>1 DEF ForwardSeesDone, DeviceTypeOK, PacketLent, Answering
  <2>3. CASE TakePacket(o)
    <3>1. /\ out' = [out EXCEPT ![o] = "waiting"] /\ lent' = {o}
          /\ rd \in {"reading", "writingTo"} /\ rd' \in {"copied", "sinking"}
      BY <2>3 DEF TakePacket, Outgoes
    <3> QED
      BY <1>1, <2>3, <3>1 DEF TakePacket, DeviceTypeOK, PacketLent, Answering
  <2>4. CASE AnswerPacket(o)
    <3>1. /\ out[o] = "waiting" /\ out' = [out EXCEPT ![o] = "sent"] /\ lent' = {}
          /\ rd \in {"copied", "sunk", "sinkFailed"} /\ rd' \in {"writingTo", "idle"}
      BY <2>4 DEF AnswerPacket, Outgoes
    <3> QED
      BY <1>1, <2>4, <3>1 DEF AnswerPacket, DeviceTypeOK, PacketLent, Answering
  <2> QED
    BY <1>2, <2>1, <2>2, <2>3, <2>4 DEF OutputStep
<1>3. CASE CallRead
  BY <1>1, <1>3 DEF CallRead, DeviceTypeOK, PacketLent, Answering
<1>4. CASE SinkReturns
  BY <1>1, <1>4 DEF SinkReturns, DeviceTypeOK, PacketLent, Answering
<1>5. CASE ReadSeesDone
  BY <1>1, <1>5 DEF ReadSeesDone, DeviceTypeOK, PacketLent, Answering
<1>6. CASE CloseChecks \/ CloseDone
  BY <1>1, <1>6 DEF CloseChecks, CloseDone, DeviceTypeOK, PacketLent, Answering
<1> QED
  BY <1>2, <1>3, <1>4, <1>5, <1>6

\* Every step preserves the invariant.
LEMMA DeviceNextInv == DeviceInv /\ [DeviceNext]_deviceVars => DeviceInv'
<1> SUFFICES ASSUME DeviceInv, [DeviceNext]_deviceVars PROVE DeviceInv'
  OBVIOUS
<1>1. CASE UNCHANGED deviceVars
  BY <1>1 DEF deviceVars, rendezvousVars, relayVars, DeviceInv, DeviceTypeOK, PacketLent,
              Answering, ShutByCopy
<1>2. CASE RelayStep
  BY <1>2, RelayKeeps
<1>3. ASSUME NEW o \in Outputs, OutputStep(o) PROVE DeviceInv'
  <2>1. UNCHANGED relayVars
    BY <1>3 DEF OutputStep, ForwardOutgoingIPPacket, ForwardSeesDone, TakePacket, AnswerPacket
  <2> QED
    BY <1>3, <2>1, PacketsKeep
<1>4. CASE CallRead \/ SinkReturns \/ ReadSeesDone \/ CloseChecks \/ CloseDone
  <2>1. UNCHANGED relayVars
    BY <1>4 DEF CallRead, SinkReturns, ReadSeesDone, CloseChecks, CloseDone
  <2> QED
    BY <1>4, <2>1, PacketsKeep
<1> QED
  BY <1>1, <1>2, <1>3, <1>4 DEF DeviceNext

\* Until the device is closed, what WriteTo's writer reads belongs to an output
\* call that has not returned, and every call is answered for its own packet,
\* for any number of calls at once.
THEOREM PacketIsLent == DeviceSpec => []PacketLent
<1>1. DeviceInv => PacketLent
  BY DEF DeviceInv
<1> QED
  BY <1>1, DeviceInitInv, DeviceNextInv, PTL DEF DeviceSpec

\* A half-closed relay goes on: the copy from a side ends only with the stream
\* of that side, or when a connection breaks, never because the other copy has
\* ended.
THEOREM HalfClosedGoesOn == DeviceSpec => [][CopyEndsWithStream]_deviceVars
<1>1. DeviceInv /\ [DeviceNext]_deviceVars => [CopyEndsWithStream]_deviceVars
  <2> SUFFICES ASSUME DeviceInv, DeviceNext PROVE CopyEndsWithStream
    OBVIOUS
  <2>1. CASE RelayStep
    <3>1. CASE RelayReturns
      BY <3>1 DEF RelayReturns, CopyEndsWithStream
    <3>2. ASSUME NEW d \in Sides, SourceEnds(d) PROVE CopyEndsWithStream
      BY <3>2 DEF SourceEnds, CopyEndsWithStream
    <3>3. ASSUME NEW d \in Sides, CopyOneWay(d) PROVE CopyEndsWithStream
      <4>1. copy' = [copy EXCEPT ![d] = "done"]
        BY <3>3 DEF CopyOneWay
      <4>2. copy[d] = "copying" /\ (source[d] # "data" \/ source[Other(d)] = "error")
        BY <3>3 DEF CopyOneWay, DeviceInv, ShutByCopy
      <4> QED
        BY <4>1, <4>2 DEF CopyEndsWithStream, DeviceInv, DeviceTypeOK
    <3> QED
      BY <2>1, <3>1, <3>2, <3>3 DEF RelayStep
  <2>2. CASE ~RelayStep
    <3>1. copy' = copy
      BY <2>2 DEF DeviceNext, OutputStep, ForwardOutgoingIPPacket, ForwardSeesDone, TakePacket,
                  AnswerPacket, CallRead, SinkReturns, ReadSeesDone, CloseChecks, CloseDone,
                  relayVars
    <3> QED
      BY <3>1 DEF CopyEndsWithStream
  <2> QED
    BY <2>1, <2>2
<1> QED
  BY <1>1, DeviceInitInv, DeviceNextInv, PTL DEF DeviceSpec

\* The device, its output calls and the relay keep their types.
THEOREM DeviceTypes == DeviceSpec => []DeviceTypeOK
<1>1. DeviceInv => DeviceTypeOK
  BY DEF DeviceInv
<1> QED
  BY <1>1, DeviceInitInv, DeviceNextInv, PTL DEF DeviceSpec
=============================================================================
