----------------------------- MODULE ProxyDials ----------------------------
(* One dial through a proxy, against a peer that may say anything: a stream *)
(* or a packet association of socks5.Client, tls.StreamDialer, and a tunnel *)
(* of httpconnect.ConnectClient over HTTP, HTTPS or HTTP/3.  The first      *)
(* three own the connection they dial; the tunnel leaves it to its HTTP     *)
(* transport, behind two pipes and two goroutines.                          *)
EXTENDS Naturals, FiniteSets

CONSTANTS Kinds,         \* of "stream", "association", "tls", "tunnel"
          MaxDatagrams   \* bound: packets an association receives
ASSUME DialsAssumption == MaxDatagrams \in Nat

VARIABLES kind,        \* the dialer
          pc,          \* the step of the dial
          over,        \* what a tunnel's transport speaks
          options,     \* WithSNI and WithCertVerifier, as the caller gave them
          verified,    \* the certificate that was verified
          control,     \* the connection to the proxy, or a tunnel's stream of it;
                       \* "leaked" is open, and held by nobody
          packetConn,  \* the association's packet connection
          granted,     \* replies in which the peer has granted the request
          upPipe,      \* ends of the request pipe that are closed
          downPipe,    \* ends of the response pipe that are closed
          body,        \* the tunnel's response body: "none", "open", "eof", "closed"
          pump,        \* the goroutine that copies the body to downPipe
          datagrams,   \* packets the association has read
          user         \* what the caller holds: "nothing", "conn", "closed"

configVars == <<kind, over, options>>
dialsVars == <<configVars, pc, verified, control, packetConn, granted, upPipe,
               downPipe, body, pump, datagrams, user>>
connVars == <<control, packetConn>>
pipeVars == <<upPipe, downPipe, body, pump>>

\* Names that a certificate may bear, "host" being the one that was dialed.
Names == {"host", "front"}
Certificates == [name : Names, rooted : BOOLEAN]
NoCertificate == [name |-> "none", rooted |-> FALSE]
Options == [sni : Names, verifier : {"none"} \cup Names]
Protocols == {"http", "https", "h3"}

DialsInit ==
  /\ kind \in Kinds /\ pc = "connect" /\ verified = NoCertificate
  /\ over \in (IF kind = "tunnel" THEN Protocols ELSE {"none"})
  /\ options \in Options
  /\ control = "none" /\ packetConn = "none" /\ granted = {}
  /\ upPipe = {} /\ downPipe = {} /\ body = "none" /\ pump = "none"
  /\ datagrams = 0 /\ user = "nothing"

Socks == kind \in {"stream", "association"}
Step(from, to) == pc = from /\ pc' = to
Steady == UNCHANGED <<configVars, datagrams>>

\* The dial fails, with the connection to the proxy left in some state.  An
\* HTTP transport closes the body of a request that it gives up.
Fails(from, state) ==
  /\ Step(from, "failed") /\ control' = state
  /\ upPipe' = IF kind = "tunnel" THEN {"reader"} ELSE upPipe
  /\ UNCHANGED <<packetConn, granted, verified, downPipe, body, pump, user>> /\ Steady

\* ConnectStream or DialStream of the endpoint.
Connect ==
  /\ kind # "tunnel"
  /\ \/ Fails("connect", "none")
     \/ /\ Step("connect", IF Socks THEN "write" ELSE "handshake")
        /\ control' = "open"
        /\ UNCHANGED <<packetConn, granted, verified, pipeVars, user>> /\ Steady

\* connectAndRequest closes the connection that its request failed on.
RequestFails(from) == Fails(from, "closed")

Reads(from, to, what) ==
  /\ Step(from, to) /\ granted' = granted \cup what
  /\ UNCHANGED <<connVars, verified, pipeVars, user>> /\ Steady

\* appendSOCKS5Address of an address it cannot encode.
BadAddress == Socks /\ RequestFails("write")

\* Method, credentials and command leave in one write.
WriteRequest == Socks /\ (RequestFails("write") \/ Reads("write", "method", {}))

\* The method is the server's choice, even one that was not offered.
ReadMethod ==
  Socks /\ \/ RequestFails("method")
           \/ Reads("method", "reply", {"no auth"})
           \/ Reads("method", "auth", {"user"})

ReadAuth == Socks /\ (RequestFails("auth") \/ Reads("auth", "reply", {"auth"}))

\* Fault: any reply code is a success.
ReadReplyUnchecked == Socks /\ (RequestFails("reply") \/ Reads("reply", "bound", {}))

\* REP, with which the proxy grants or refuses.
ReadReply == Socks /\ (RequestFails("reply") \/ Reads("reply", "bound", {"reply"}))

\* readAddr, the end of a stream's dial.
ReadAddr ==
  /\ Socks
  /\ \/ RequestFails("bound")
     \/ kind = "association" /\ Reads("bound", "udp", {})
     \/ /\ kind = "stream" /\ Step("bound", "done") /\ user' = "conn"
        /\ UNCHANGED <<connVars, granted, verified, pipeVars>> /\ Steady

\* ListenPacket: an unspecified bound address whose host is no IP address is
\* an error that leaves the connection open; DialPacket's error closes it.
ListenPacket ==
  \/ kind = "association" /\ Fails("udp", "leaked")
  \/ kind = "association" /\ Fails("udp", "closed")
  \/ /\ kind = "association" /\ Step("udp", "done")
     /\ packetConn' = "open" /\ user' = "conn"
     /\ UNCHANGED <<control, granted, verified, pipeVars>> /\ Steady

\* packetConn.ReadFrom: what is not a packet of the association is an error of
\* this read alone.
ReadFrom ==
  /\ kind = "association" /\ user = "conn" /\ datagrams < MaxDatagrams
  /\ datagrams' = datagrams + 1
  /\ UNCHANGED <<configVars, pc, verified, connVars, granted, pipeVars, user>>

(* ---------------------------------- TLS ---------------------------------- *)
\* StandardCertVerifier: a chain to a trusted root, and the verifier's name.
VerifyCertificate(name, cert) == cert.rooted /\ cert.name = name

\* The server shows a certificate; the SNI has no say in what is verified.
Shows(cert, name) ==
  /\ VerifyCertificate(name, cert)
  /\ verified' = cert /\ granted' = granted \cup {"certificate"}

\* WrapConn: without a verifier of the caller's, the dialed name is verified.
CertificateName == IF options.verifier = "none" THEN "host" ELSE options.verifier
WrapConn(cert) ==
  /\ Step("handshake", "done") /\ Shows(cert, CertificateName) /\ user' = "conn"
  /\ UNCHANGED <<connVars, pipeVars>> /\ Steady

\* DialStream, which closes the connection that WrapConn failed on.
TlsHandshake ==
  /\ kind = "tls"
  /\ Fails("handshake", "closed") \/ \E cert \in Certificates : WrapConn(cert)

(* ------------------------------- the tunnel ------------------------------ *)
TunnelGoes(to, state) ==
  /\ kind = "tunnel" /\ Step("connect", to) /\ control' = state
  /\ UNCHANGED <<packetConn, granted, verified, pipeVars, user>> /\ Steady

\* The transport of HTTP/1 and HTTP/2 dials the proxy, plainly or for TLS.
HttpConnect ==
  /\ over \in {"http", "https"}
  /\ \/ Fails("connect", "none")
     \/ TunnelGoes(IF over = "http" THEN "request" ELSE "handshake", "open")

\* HTTP/3 has a packet connection of the caller's, and begins with TLS.
QuicDial == over = "h3" /\ (Fails("connect", "none") \/ TunnelGoes("handshake", "open"))

\* toStdConfig: the transport verifies with the verifier of its TLS options,
\* and calls it without asking whether there is one.
ProxyHandshake ==
  /\ kind = "tunnel"
  /\ \/ Fails("handshake", "closed")
     \/ /\ options.verifier = "none" /\ Step("handshake", "panicked")
        /\ control' = "closed" /\ UNCHANGED <<granted, verified>>
        /\ UNCHANGED <<packetConn, pipeVars, user>> /\ Steady
     \/ /\ options.verifier # "none" /\ Step("handshake", "request")
        /\ \E cert \in Certificates : Shows(cert, options.verifier)
        /\ UNCHANGED <<connVars, pipeVars, user>> /\ Steady

\* http.Client.Do: no response, a status that is not OK, or the tunnel.
DoRequest ==
  /\ kind = "tunnel"
  /\ \/ Fails("request", "closed")
     \/ /\ Step("request", "done") /\ user' = "conn" /\ granted' = granted \cup {"status"}
        /\ body' = "open" /\ pump' = "copying"
        /\ UNCHANGED <<connVars, verified, upPipe, downPipe>> /\ Steady

\* The proxy ends the tunnel.
BodyEnds ==
  /\ body = "open" /\ body' = "eof"
  /\ UNCHANGED <<pc, connVars, granted, verified, upPipe, downPipe, pump, user>> /\ Steady

\* The copy ends with the body, or because the pipe's reader is closed, and
\* closes the body; nobody closes the pipe's writer.
PumpEnds ==
  /\ pump = "copying" /\ (body = "eof" \/ "reader" \in downPipe)
  /\ pump' = "ended" /\ body' = "closed" /\ control' = "closed"
  /\ UNCHANGED <<pc, packetConn, granted, verified, upPipe, downPipe, user>> /\ Steady

\* pipeConn.CloseRead and CloseWrite.  The pump sees a closed reader when it
\* next has something to write.
CloseHalf ==
  /\ kind = "tunnel" /\ user = "conn"
  /\ \/ downPipe' = downPipe \cup {"reader"} /\ UNCHANGED upPipe
     \/ upPipe' = upPipe \cup {"writer"} /\ UNCHANGED downPipe
  /\ UNCHANGED <<pc, connVars, granted, verified, body, pump, user>> /\ Steady

\* Close: both connections of an association, both pipes of a tunnel.
Close ==
  /\ user = "conn" /\ user' = "closed"
  /\ IF kind = "tunnel"
     THEN /\ upPipe' = upPipe \cup {"writer"} /\ downPipe' = downPipe \cup {"reader"}
          /\ UNCHANGED connVars
     ELSE /\ control' = "closed"
          /\ packetConn' = IF packetConn = "open" THEN "closed" ELSE packetConn
          /\ UNCHANGED <<upPipe, downPipe>>
  /\ UNCHANGED <<pc, granted, verified, body, pump>> /\ Steady

DialsNext ==
  \/ Connect \/ BadAddress \/ WriteRequest \/ ReadMethod \/ ReadAuth \/ ReadReply
  \/ ReadAddr \/ ListenPacket \/ ReadFrom \/ TlsHandshake
  \/ HttpConnect \/ QuicDial \/ ProxyHandshake \/ DoRequest
  \/ BodyEnds \/ PumpEnds \/ CloseHalf \/ Close

\* The copy of a body that has ended ends; a silent body holds it up, and no
\* peer is bound to answer.
DialsFairness == WF_dialsVars(PumpEnds /\ body = "eof")

DialsSpec == DialsInit /\ [][DialsNext]_dialsVars
DialsFairSpec == DialsSpec /\ DialsFairness

(* ------------------------------- properties ------------------------------ *)
\* Types of the dial's state.
DialsTypeOK ==
  /\ kind \in Kinds /\ over \in Protocols \cup {"none"} /\ options \in Options
  /\ verified \in Certificates \cup {NoCertificate} /\ datagrams \in 0 .. MaxDatagrams
  /\ pc \in {"connect", "write", "method", "auth", "reply", "bound", "udp",
              "handshake", "request", "done", "failed", "panicked"}
  /\ control \in {"none", "open", "closed", "leaked"}
  /\ packetConn \in {"none", "open", "closed"}
  /\ granted \subseteq {"no auth", "user", "auth", "reply", "certificate", "status"}
  /\ upPipe \subseteq {"reader", "writer"} /\ downPipe \subseteq {"reader", "writer"}
  /\ body \in {"none", "open", "eof", "closed"}
  /\ pump \in {"none", "copying", "ended"} /\ user \in {"nothing", "conn", "closed"}

\* Nobody holds a connection that the peer has not agreed to: the proxy has
\* accepted the credentials if it wanted any and granted the command, the
\* certificate was a trusted one of the name to verify - the dialed one unless
\* the caller named another, whatever SNI was sent - or the tunnel's status
\* was OK, after such a certificate unless the proxy speaks plain HTTP.
Granted ==
  LET secured == /\ "certificate" \in granted
                 /\ VerifyCertificate(CertificateName, verified)
  IN CASE Socks -> "reply" \in granted /\ ("user" \in granted => "auth" \in granted)
       [] kind = "tls" -> secured
       [] OTHER -> "status" \in granted /\ (over = "http" \/ secured)

\* The one connection that a failed dial leaves open: that of an association
\* which the proxy has granted, with an address it cannot use.
Leaks == kind = "association" /\ "reply" \in granted /\ control = "leaked"

\* A dial hands out what was granted.  One that fails has closed its connection
\* to the proxy, if it is not the one that leaks, and a closed tunnel whose
\* response has ended lets go of its own.
DialsSettle ==
  /\ [](user # "nothing" => Granted)
  /\ (pc = "failed" \/ (user = "closed" /\ body # "open"))
       ~> (control \in {"none", "closed"} \/ Leaks)
=============================================================================
