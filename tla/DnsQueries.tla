----------------------------- MODULE DnsQueries ----------------------------
(* The two address lookups of one host name over a dns.Resolver: over UDP,  *)
(* over a new TCP or TLS connection each, or over HTTPS.  A query knows the *)
(* deadline of its context, not its cancellation.                           *)
EXTENDS Integers, FiniteSets

CONSTANTS Transports,   \* resolvers to check, of "udp", "tcp", "tls", "https"
          MaxIps,       \* bound: addresses in one answer
          MaxForged     \* bound: packets that answer another question
ASSUME QueriesAssumption == MaxIps \in Nat /\ MaxForged \in Nat

Families == {4, 6}
LookupError == -1

VARIABLES resolver,     \* the transport of the resolver
          deadline,     \* whether the context has a deadline
          ctxDone,      \* the context of the dial is cancelled or has expired
          query,        \* where each lookup is
          qconn,        \* its connection to the resolver; "leaked" is open,
                        \* and nobody has it
          forged,       \* packets it has ignored
          answer        \* the addresses it found, or LookupError

queryVars == <<resolver, deadline, query, qconn, forged, answer>>

QueriesInit ==
  /\ resolver \in Transports /\ deadline \in BOOLEAN /\ ctxDone = FALSE
  /\ query = [f \in Families |-> "dialing"]
  /\ qconn = [f \in Families |-> "none"]
  /\ forged = [f \in Families |-> 0]
  /\ answer = [f \in Families |-> 0]

Goes(f, from, to) == query[f] = from /\ query' = [query EXCEPT ![f] = to]
Conn(f, state) == qconn' = [qconn EXCEPT ![f] = state]

\* The resolver returns to resolveIP, with the connection left in some state.
Answers(f, from, value, state) ==
  /\ Goes(f, from, "answered") /\ Conn(f, state)
  /\ answer' = [answer EXCEPT ![f] = value]
  /\ UNCHANGED <<resolver, deadline, ctxDone, forged>>

Proceeds(f, from, to) ==
  /\ Goes(f, from, to)
  /\ UNCHANGED <<resolver, deadline, ctxDone, forged, answer>>

\* checkResponse: a response to this message, for this question.
CheckResponse(msg) == msg = "match"
Messages == {"match", "forged", "garbage"}

\* DialPacket, DialStream or the HTTP client's connection to the resolver.
DialResolver(f) ==
  \/ Answers(f, "dialing", LookupError, "none")
  \/ /\ Proceeds(f, "dialing", IF resolver = "tls" THEN "handshaking" ELSE "sending")
     /\ Conn(f, "open")

\* WrapConn leaves the base connection to its caller, and NewTLSResolver does
\* not close it when the handshake fails.
Handshake(f) ==
  \/ Answers(f, "handshaking", LookupError, "leaked")
  \/ Proceeds(f, "handshaking", "sending") /\ UNCHANGED qconn

SendQuery(f) ==
  \/ Answers(f, "sending", LookupError, "closed")
  \/ Proceeds(f, "sending", "receiving") /\ UNCHANGED qconn

\* What becomes of the connection once the query is over: the HTTP client
\* keeps its own for the next one.
Afterwards == IF resolver = "https" THEN "kept" ELSE "closed"

\* resolveIP of a response that passed the check: an error code, or the
\* records of the type asked for.
Resolved(f) == \E value \in {LookupError} \cup (0 .. MaxIps) :
                 Answers(f, "receiving", value, Afterwards)

\* queryDatagram ignores what does not answer its question; the other
\* resolvers give up on it.
ReceiveResponse(f) ==
  \E msg \in Messages :
    IF CheckResponse(msg) THEN Resolved(f)
    ELSE IF resolver = "udp"
         THEN /\ query[f] = "receiving" /\ forged[f] < MaxForged
              /\ forged' = [forged EXCEPT ![f] = @ + 1]
              /\ UNCHANGED <<resolver, deadline, ctxDone, query, qconn, answer>>
         ELSE Answers(f, "receiving", LookupError, Afterwards)

\* The read fails, by itself or because the deadline set on it has passed.
ReceiveFails(f) == Answers(f, "receiving", LookupError, "closed")

ReceiveExpires(f) == deadline /\ ctxDone /\ ReceiveFails(f)

QueryStep(f) == \/ DialResolver(f) \/ Handshake(f) \/ SendQuery(f)
                \/ ReceiveResponse(f) \/ ReceiveFails(f)
=============================================================================
