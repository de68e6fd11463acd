---------------------------- MODULE UdpSessions ----------------------------
(* The UDP sessions of one local address (network/lwip2transport/udp.go),   *)
(* on the proxies they are made with: network.PacketListenerProxy, whose    *)
(* sessions own a socket, a reader goroutine and an idle timer, and         *)
(* dnstruncate, which answers DNS queries by itself.  A delegate proxy      *)
(* chooses between the two, as that of outline-cli does after each test of  *)
(* the server.  Addresses share nothing but the lock.                       *)
EXTENDS Naturals, FiniteSets

CONSTANTS Callers,       \* goroutines that may be in ReceiveTo at once
          MaxSessions,   \* bound: sessions ever made
          MaxPackets     \* bound: packets of the local application
ASSUME UdpAssumption == MaxSessions \in Nat /\ MaxPackets \in Nat

Sessions == 1 .. MaxSessions
None == 0
Proxies == {"listener", "truncate"}

VARIABLES proxy,      \* what the delegate points at
          mu,         \* the handler's lock: "stuck" once its holder waits for it
          sender,     \* senders[laddr], None when there is no entry
          made,       \* sessions made so far
          kindOf,     \* the proxy that made each of them
          accepting,  \* senders that are not closed
          sockets,    \* sessions whose proxyConn is open
          armed,      \* sessions whose idle timer runs
          reader,     \* the reader goroutine of each session
          receiving,  \* response writers that are not closed
          conn,       \* the lwIP connection of the address, counted up
          connOpen,   \* whether lwIP still has it
          connOf,     \* the lwIP connection of each session
          caller,     \* where each ReceiveTo is
          mine,       \* the sender it uses
          on,         \* the lwIP connection it was called with
          packets,
          bornDead,   \* sessions that were over before they were recorded
          overlapped  \* whether two calls ever made sessions at once

sessionVars == <<kindOf, accepting, sockets, armed, reader, receiving, connOf>>
callVars == <<caller, mine, on, packets>>
udpVars == <<proxy, mu, sender, made, conn, connOpen, sessionVars, callVars,
             bornDead, overlapped>>

\* The delegate of outline-cli starts with the truncating proxy.
NewOutlinePacketProxy == "truncate"

UdpInit ==
  /\ proxy = NewOutlinePacketProxy /\ mu = "free" /\ sender = None /\ made = 0
  /\ kindOf = [s \in Sessions |-> "none"]
  /\ accepting = {} /\ sockets = {} /\ armed = {} /\ receiving = {}
  /\ reader = [s \in Sessions |-> "none"]
  /\ conn = 0 /\ connOpen = FALSE /\ connOf = [s \in Sessions |-> 0]
  /\ caller = [c \in Callers |-> "idle"] /\ mine = [c \in Callers |-> None]
  /\ on = [c \in Callers |-> 0] /\ packets = 0
  /\ bornDead = {} /\ overlapped = FALSE

\* delegatePacketProxy.SetProxy: sessions that exist keep their proxy.
SetProxy(p) ==
  /\ proxy' = p
  /\ UNCHANGED <<mu, sender, made, conn, connOpen, sessionVars, callVars,
                 bornDead, overlapped>>

\* TestConnectivityWithResolver: the errors of a query with which it reports
\* that there is no connectivity, and with which it is no test at all.
TestConnectivity(err) ==
  CASE err \in {"ErrDial", "ErrSend", "ErrReceive"} -> "no connectivity"
    [] err = "ErrBadRequest" -> "no test"
    [] OTHER -> "connectivity"
Results == {TestConnectivity(err) : err \in {"none", "ErrBadRequest", "ErrDial",
                                            "ErrSend", "ErrReceive", "ErrBadResponse"}}

\* A query through the listener decides on the proxy; no test changes nothing.
Refresh ==
  \E r \in Results \ {"no test"} :
    SetProxy(IF r = "connectivity" THEN "listener" ELSE "truncate")

(* ------------------------------- closing -------------------------------- *)
\* Fault: the sender is closed and its socket forgotten.
CloseSenderKeepsSocket(s) ==
  /\ accepting' = accepting \ {s} /\ armed' = armed \ {s} /\ UNCHANGED sockets

\* packetListenerRequestSender.Close: flag, timer and socket under its lock.
CloseSender(s) ==
  /\ accepting' = accepting \ {s}
  /\ armed' = IF s \in accepting THEN armed \ {s} ELSE armed
  /\ sockets' = IF s \in accepting THEN sockets \ {s} ELSE sockets

\* Fault: the connection is closed and the entry stays in the map.
CloseSessionKeepsEntry(k, staying) ==
  /\ mu = "free" /\ connOpen' = (connOpen /\ k # conn) /\ receiving' = staying
  /\ IF sender = None THEN UNCHANGED <<accepting, armed, sockets>>
                      ELSE CloseSender(sender)
  /\ UNCHANGED <<mu, sender>>

\* A truncating sender closes its receiver, unless either is closed already.
ClosesReceiver(s, staying) == kindOf[s] = "truncate" /\ s \in accepting /\ s \in staying

\* closeSession of connection k for the receivers that stay open after it.
\* A receiver that its sender closes comes back for the lock.
CloseSession(k, staying) ==
  /\ mu = "free"
  /\ connOpen' = (connOpen /\ k # conn)
  /\ IF sender = None
     THEN UNCHANGED <<mu, sender, accepting, armed, sockets>>
          /\ receiving' = staying
     ELSE /\ CloseSender(sender)
          /\ IF ClosesReceiver(sender, staying)
             THEN /\ mu' = "stuck" /\ receiving' = staying \ {sender}
                  /\ UNCHANGED sender
             ELSE /\ sender' = None /\ receiving' = staying /\ UNCHANGED mu

(* --------------------------- ReceiveTo, by lwIP -------------------------- *)
\* A packet arrives: lwIP makes a connection if it has none, and the handler
\* looks its local address up.
ReceiveTo(c) ==
  /\ caller[c] = "idle" /\ mu = "free" /\ packets < MaxPackets
  /\ packets' = packets + 1
  /\ conn' = IF connOpen THEN conn ELSE conn + 1
  /\ connOpen' = TRUE
  /\ on' = [on EXCEPT ![c] = conn']
  /\ mine' = [mine EXCEPT ![c] = sender]
  /\ caller' = [caller EXCEPT ![c] = IF sender = None THEN "making" ELSE "sending"]
  /\ overlapped' = (overlapped \/ (sender = None
                     /\ \E d \in Callers \ {c} : caller[d] \in {"making", "made"}))
  /\ UNCHANGED <<proxy, mu, sender, made, sessionVars, bornDead>>

\* The delegate makes a session with the proxy that it points at.
Make(c, kind) ==
  LET s == made + 1
  IN /\ caller[c] = "making" /\ proxy = kind /\ s \in Sessions
     /\ made' = s /\ mine' = [mine EXCEPT ![c] = s]
     /\ kindOf' = [kindOf EXCEPT ![s] = kind] /\ connOf' = [connOf EXCEPT ![s] = on[c]]
     /\ accepting' = accepting \cup {s} /\ receiving' = receiving \cup {s}
     /\ caller' = [caller EXCEPT ![c] = "made"]
     /\ UNCHANGED <<proxy, mu, sender, conn, connOpen, on, packets, bornDead, overlapped>>

NewTruncateSession(c) == Make(c, "truncate") /\ UNCHANGED <<sockets, armed, reader>>

\* A socket, a timer that closes it, and a goroutine that reads from it.
NewSession(c) ==
  /\ Make(c, "listener")
  /\ sockets' = sockets \cup {made'} /\ armed' = armed \cup {made'}
  /\ reader' = [reader EXCEPT ![made'] = "reading"]

\* ListenPacket fails: the receiver made for the session is closed again.
NewSessionFails(c) ==
  /\ caller[c] = "making" /\ proxy = "listener"
  /\ CloseSession(on[c], receiving)
  /\ caller' = [caller EXCEPT ![c] = "idle"]
  /\ UNCHANGED <<proxy, made, conn, kindOf, reader, connOf, mine, on, packets,
                 bornDead, overlapped>>

\* The new sender is recorded, whatever has happened to it or to the entry.
RecordSender(c) ==
  /\ caller[c] = "made" /\ mu = "free"
  /\ sender' = mine[c]
  /\ bornDead' = IF reader[mine[c]] = "done" THEN bornDead \cup {mine[c]} ELSE bornDead
  /\ caller' = [caller EXCEPT ![c] = "sending"]
  /\ UNCHANGED <<proxy, mu, made, conn, connOpen, sessionVars, mine, on, packets,
                 overlapped>>

CallGoes(c, kind, from, to) ==
  /\ caller[c] = from /\ kindOf[mine[c]] = kind /\ caller' = [caller EXCEPT ![c] = to]
  /\ UNCHANGED <<proxy, mu, sender, made, conn, connOpen, sessionVars, mine, on,
                 packets, bornDead, overlapped>>

\* WriteTo up to the check of the closed flag (resetWriteIdleTimer).
CheckSender(c) ==
  CallGoes(c, "listener", "sending", IF mine[c] \in accepting THEN "writing" ELSE "idle")

\* The packet leaves through proxyConn, or finds it closed.
WriteSocket(c) == CallGoes(c, "listener", "writing", "idle")

\* dnstruncate takes what is sent to the DNS port and long enough for a header.
TruncateWriteTo(c) ==
  \/ CallGoes(c, "truncate", "sending", "idle")
  \/ mine[c] \in accepting /\ CallGoes(c, "truncate", "sending", "answering")

\* The answer, marked as truncated, goes to the connection of the session; a
\* receiver or a connection that is closed since is an error of the call.
WriteFrom(c) == CallGoes(c, "truncate", "answering", "idle")

(* ------------------------- a listener's session -------------------------- *)
IdleTimerFires(s) ==
  /\ s \in armed /\ CloseSender(s)
  /\ UNCHANGED <<proxy, mu, sender, made, conn, connOpen, kindOf, reader,
                 receiving, connOf, callVars, bornDead, overlapped>>

ReaderGoes(s, from, to) ==
  /\ reader[s] = from /\ reader' = [reader EXCEPT ![s] = to]
  /\ UNCHANGED <<proxy, mu, sender, made, conn, connOpen, kindOf, accepting,
                 sockets, armed, receiving, connOf, callVars, bornDead, overlapped>>

\* What comes to the socket of a Shadowsocks listener, from anybody.
Datagrams == [size : {"short of the salt", "short of the tag", "enough"},
              authentic : BOOLEAN, source : {"none", "address"}, fits : BOOLEAN]

Unpack(pkt) == pkt.size = "enough" /\ pkt.authentic

\* packetConn.ReadFrom: one datagram that does not unpack, or bears no source
\* address, is an error like any other.
ReadFrom(pkt) == CASE ~Unpack(pkt) \/ pkt.source = "none" -> "error"
                   [] ~pkt.fits -> "io.ErrShortBuffer"
                   [] OTHER -> "response"
Received == {ReadFrom(pkt) : pkt \in Datagrams}

\* The reader goes on after io.ErrShortBuffer, and after no other error.
ReadResponse(s) ==
  /\ s \in sockets
  /\ \E r \in Received \ {"io.ErrShortBuffer"} :
       ReaderGoes(s, "reading", IF r = "response" THEN "relaying" ELSE "closing")
ReadFails(s) == ReaderGoes(s, "reading", "closing")
RelayResponse(s) ==
  /\ s \in receiving /\ connOpen /\ connOf[s] = conn
  /\ ReaderGoes(s, "relaying", "reading")
RelayFails(s) == ReaderGoes(s, "relaying", "closing")

\* The deferred Close of the response writer.
ReaderEnds(s) ==
  /\ reader[s] = "closing"
  /\ reader' = [reader EXCEPT ![s] = "done"]
  /\ IF s \in receiving THEN CloseSession(connOf[s], receiving \ {s})
     ELSE UNCHANGED <<mu, sender, connOpen, accepting, sockets, armed, receiving>>
  /\ UNCHANGED <<proxy, made, conn, kindOf, connOf, callVars, bornDead, overlapped>>

(* ------------------------------- behaviour ------------------------------- *)
CallStep(c) == \/ ReceiveTo(c) \/ NewSession(c) \/ NewSessionFails(c)
               \/ NewTruncateSession(c) \/ RecordSender(c)
               \/ CheckSender(c) \/ WriteSocket(c)
               \/ TruncateWriteTo(c) \/ WriteFrom(c)
ReaderStep(s) == \/ ReadResponse(s) \/ ReadFails(s) \/ RelayResponse(s)
                 \/ RelayFails(s) \/ ReaderEnds(s)

UdpNext ==
  \/ Refresh
  \/ \E c \in Callers : CallStep(c)
  \/ \E s \in Sessions : IdleTimerFires(s) \/ ReaderStep(s)

\* Timers fire, a read of a closed socket returns and goroutines go on.
UdpFairness ==
  \A s \in Sessions :
    /\ WF_udpVars(IdleTimerFires(s))
    /\ WF_udpVars(s \notin sockets /\ ReadFails(s))
    /\ WF_udpVars(RelayResponse(s) \/ RelayFails(s))
    /\ WF_udpVars(ReaderEnds(s))

UdpSpec == UdpInit /\ [][UdpNext]_udpVars
UdpFairSpec == UdpSpec /\ UdpFairness

(* ------------------------------- properties ------------------------------ *)
\* Types of the handler's and of the sessions' state.
UdpTypeOK ==
  /\ proxy \in Proxies /\ mu \in {"free", "stuck"}
  /\ made \in 0 .. MaxSessions /\ sender \in 0 .. made
  /\ kindOf \in [Sessions -> Proxies \cup {"none"}]
  /\ accepting \subseteq Sessions /\ sockets \subseteq Sessions
  /\ armed \subseteq Sessions /\ receiving \subseteq Sessions
  /\ reader \in [Sessions -> {"none", "reading", "relaying", "closing", "done"}]
  /\ conn \in Nat /\ connOpen \in BOOLEAN /\ connOf \in [Sessions -> Nat]
  /\ caller \in [Callers -> {"idle", "making", "made", "sending", "writing",
                          "answering"}]
  /\ mine \in [Callers -> 0 .. made] /\ on \in [Callers -> Nat]
  /\ packets \in 0 .. MaxPackets
  /\ bornDead \subseteq Sessions /\ overlapped \in BOOLEAN

\* A socket is never held by a session that nothing will end: whatever the
\* races on the map did to it, its timer is still set to close it.
SocketsTimed == sockets \subseteq armed

\* The end of a session takes its entry out of the map, unless the session was
\* over before ReceiveTo recorded it.
DeadEntryBornDead == sender # None /\ reader[sender] = "done" => sender \in bornDead

\* The handler never waits for its own lock unless two calls had made sessions
\* for one address at once (the TODO of ReceiveTo).
StuckByOverlap == mu = "stuck" => overlapped

\* Every session of a listener comes to an end once nobody writes: its socket
\* is closed and its reader returns, unless the lock is stuck; and the map and
\* the lock are left as the two formulas above say.
SessionsEnd ==
  /\ \A s \in Sessions :
       s \in sockets ~> s \notin sockets /\ (reader[s] = "done" \/ mu = "stuck")
  /\ [](DeadEntryBornDead /\ StuckByOverlap)
=============================================================================
