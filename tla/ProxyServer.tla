---------------------------- MODULE ProxyServer ----------------------------
(* The local web proxy of mobileproxy over the handlers of httpproxy: for   *)
(* CONNECT a relay of a hijacked connection with a copy in each direction   *)
(* and a goroutine that closes the connection when its context is done; for *)
(* the others a request of its own whose response is copied.                *)
EXTENDS Naturals, FiniteSets

CONSTANTS Clients    \* connections to the proxy, one request each

Handlers == {"connect", "forward", "path", "fallback"}

VARIABLES server,     \* "serving", "stopping", "stopped", or "died" in Stop
          urlProxy,   \* whether AddURLProxy has set the fallback handler
          ctx,        \* requests whose context is done, by Stop or on return
          via,        \* the handler of each request
          handler,    \* where it is
          client,     \* the connection to the client
          target,     \* the connection to the target
          ended,      \* directions that have reached their end: "up", "down"
          up,         \* the goroutine that copies from the client: at a read
                      \* from it ("copying"), or at a write to the target
          told,       \* whether CloseWrite has told the target of the end
          status      \* what the client was answered

proxyVars == <<server, urlProxy, ctx, via, handler, client, target, ended, up,
               told, status>>

ProxyInit ==
  /\ server = "serving" /\ urlProxy = FALSE /\ ctx = {}
  /\ via = [c \in Clients |-> "none"] /\ handler = [c \in Clients |-> "idle"]
  /\ client = [c \in Clients |-> "open"] /\ target = [c \in Clients |-> "none"]
  /\ ended = [c \in Clients |-> {}] /\ up = [c \in Clients |-> "none"]
  /\ told = {} /\ status = [c \in Clients |-> "none"]

HandlerGoes(c, from, to) == handler[c] = from /\ handler' = [handler EXCEPT ![c] = to]
Answer(c, s) == status' = [status EXCEPT ![c] = s]
Keep == UNCHANGED <<server, urlProxy, via>>

\* ServeHTTP returns: its context is done, and what it deferred has run.
Returns(c, from) ==
  /\ HandlerGoes(c, from, "returned") /\ ctx' = ctx \cup {c}
  /\ target' = [target EXCEPT ![c] = IF @ = "open" THEN "closed" ELSE @]
  /\ Keep

AddURLProxy ==
  /\ server \in {"serving", "stopping"} /\ ~urlProxy /\ urlProxy' = TRUE
  /\ UNCHANGED <<server, ctx, via, handler, client, target, ended, up, told, status>>

\* ProxyHandler.ServeHTTP picks the handler of the request.
ServeHTTP(c) ==
  /\ server = "serving" /\ HandlerGoes(c, "idle", "dialing")
  /\ \E h \in Handlers :
       via' = [via EXCEPT ![c] = IF h = "fallback" /\ urlProxy THEN "path" ELSE h]
  /\ UNCHANGED <<server, urlProxy, ctx, client, target, ended, up, told, status>>

\* A request that cannot be served: no authority, port, dialer or URL, no
\* handler, or a dial or fetch that fails; sanitizeErrorDialer hides why.
Refuse(c) ==
  /\ via[c] # "none" /\ Returns(c, "dialing") /\ Answer(c, "error")
  /\ UNCHANGED <<client, ended, up, told>>

DialTarget(c) ==
  /\ via[c] # "fallback"
  /\ HandlerGoes(c, "dialing", IF via[c] = "connect" THEN "hijacking" ELSE "copying")
  /\ target' = [target EXCEPT ![c] = "open"]
  /\ UNCHANGED <<ctx, client, ended, up, told, status>> /\ Keep

HijackFails(c) ==
  /\ Returns(c, "hijacking") /\ Answer(c, "error") /\ UNCHANGED <<client, ended, up, told>>

\* Hijack, the answer to the client, and the goroutines of the relay.
Hijack(c) ==
  /\ HandlerGoes(c, "hijacking", "relaying") /\ Answer(c, "200")
  /\ up' = [up EXCEPT ![c] = "copying"]
  /\ UNCHANGED <<ctx, client, target, ended, told>> /\ Keep

\* A peer ends its direction of the connection.
PeerEnds(c, dir) ==
  /\ handler[c] \in {"relaying", "copying"} /\ dir \notin ended[c]
  /\ ended' = [ended EXCEPT ![c] = @ \cup {dir}]
  /\ UNCHANGED <<ctx, handler, client, target, up, told, status>> /\ Keep

\* The client has data for the target, and the target has room for it.
UpReads(c) ==
  /\ up[c] = "copying" /\ "up" \notin ended[c] /\ client[c] = "open"
  /\ up' = [up EXCEPT ![c] = "writing"]
  /\ UNCHANGED <<ctx, handler, client, target, ended, told, status>> /\ Keep
UpWrites(c) ==
  /\ up[c] = "writing" /\ up' = [up EXCEPT ![c] = "copying"]
  /\ UNCHANGED <<ctx, handler, client, target, ended, told, status>> /\ Keep

\* The copy from the client ends with what it reads, or with a write to a
\* target that breaks or that the handler has closed, and CloseWrite says so.
\* Nothing else ends a write: no deadline, and not the closer.
UpStops(c) ==
  \/ up[c] = "copying" /\ ("up" \in ended[c] \/ client[c] = "closed")
  \/ up[c] = "writing" /\ target[c] = "closed"
UpEnds(c) ==
  /\ UpStops(c) \/ up[c] = "writing"
  /\ up' = [up EXCEPT ![c] = "ended"] /\ told' = told \cup {c}
  /\ UNCHANGED <<ctx, handler, client, target, ended, status>> /\ Keep

\* The copy to the client ends with the target's data, or when data arrives
\* for a client that is gone, and with it the handler.
DownEnds(c) ==
  /\ ("down" \in ended[c] \/ client[c] = "closed") /\ Returns(c, "relaying")
  /\ UNCHANGED <<client, ended, up, told, status>>

\* Fault: the connection lives until its handler returns.
CloserWaits(c) ==
  /\ up[c] # "none" /\ client[c] = "open" /\ c \in ctx /\ handler[c] = "returned"
  /\ client' = [client EXCEPT ![c] = "closed"]
  /\ UNCHANGED <<ctx, handler, target, ended, up, told, status>> /\ Keep

\* The goroutine that waits for the context closes the hijacked connection.
Closer(c) ==
  /\ up[c] # "none" /\ client[c] = "open" /\ c \in ctx
  /\ client' = [client EXCEPT ![c] = "closed"]
  /\ UNCHANGED <<ctx, handler, target, ended, up, told, status>> /\ Keep

\* The forward handler never copies the target's status.
CopyResponse(c) ==
  /\ Returns(c, "copying")
  /\ \/ "down" \in ended[c] /\ Answer(c, IF via[c] = "path" THEN "copied" ELSE "200")
     \/ Answer(c, "broken")
  /\ UNCHANGED <<client, ended, up, told>>

(* ------------------------------ mobileproxy ------------------------------ *)
\* Stop: Shutdown runs the registered cancellation of every request's context.
Stop ==
  /\ server = "serving" /\ server' = "stopping" /\ ctx' = Clients
  /\ UNCHANGED <<urlProxy, via, handler, client, target, ended, up, told, status>>

\* It waits for the connections that nobody has hijacked.
InFlight == {c \in Clients : handler[c] \in {"dialing", "hijacking", "copying"}}
StopReturns ==
  /\ server = "stopping" /\ InFlight = {} /\ server' = "stopped" /\ urlProxy' = FALSE
  /\ UNCHANGED <<ctx, via, handler, client, target, ended, up, told, status>>

\* Its timeout is fatal for the process.
StopTimesOut ==
  /\ server = "stopping" /\ InFlight # {} /\ server' = "died"
  /\ UNCHANGED <<urlProxy, ctx, via, handler, client, target, ended, up, told, status>>

ClientStep(c) ==
  \/ ServeHTTP(c) \/ Refuse(c) \/ DialTarget(c) \/ HijackFails(c) \/ Hijack(c)
  \/ UpReads(c) \/ UpWrites(c) \/ UpEnds(c) \/ DownEnds(c) \/ Closer(c) \/ CopyResponse(c)
  \/ \E dir \in {"up", "down"} : PeerEnds(c, dir)
ProxyNext ==
  \/ AddURLProxy \/ Stop \/ StopReturns \/ StopTimesOut
  \/ server # "died" /\ \E c \in Clients : ClientStep(c)

\* Goroutines that can go on do.  A target need not send, end or take anything,
\* and a client need not read: a write to it ends when it is closed.
ProxyFairness ==
  /\ WF_proxyVars(StopReturns)
  /\ \A c \in Clients :
       /\ WF_proxyVars(server # "died" /\ UpStops(c) /\ UpEnds(c))
       /\ WF_proxyVars(server # "died" /\ Closer(c))
       /\ WF_proxyVars(server # "died" /\ "down" \in ended[c] /\ client[c] = "closed" /\ DownEnds(c))

ProxySpec == ProxyInit /\ [][ProxyNext]_proxyVars
ProxyFairSpec == ProxySpec /\ ProxyFairness

(* ------------------------------- properties ------------------------------ *)
\* Types of the server's and of the requests' state.
ProxyTypeOK ==
  /\ server \in {"serving", "stopping", "stopped", "died"} /\ urlProxy \in BOOLEAN
  /\ ctx \subseteq Clients /\ told \subseteq Clients
  /\ via \in [Clients -> Handlers \cup {"none"}]
  /\ handler \in [Clients -> {"idle", "dialing", "hijacking", "relaying", "copying",
                              "returned"}]
  /\ client \in [Clients -> {"open", "closed"}]
  /\ target \in [Clients -> {"none", "open", "closed"}]
  /\ ended \in [Clients -> SUBSET {"up", "down"}]
  /\ up \in [Clients -> {"none", "copying", "writing", "ended"}]
  /\ status \in [Clients -> {"none", "200", "error", "copied", "broken"}]

\* A write of what the client has sent, to a target that has not ended.
Stuck(c) == up[c] = "writing" /\ "down" \notin ended[c]

\* Stop reaches every relay, even one that Shutdown does not wait for, and so
\* does the return of a relay: its client is closed, and its target is told,
\* but for one that for ever neither takes what the client has sent nor ends
\* its own direction: that one keeps both its connection and the handler.
\* Until Stop or its end a relay reads its target after the client has said all
\* it has to say.
RelaysEnd ==
  /\ \A c \in Clients :
       (up[c] # "none" /\ c \in ctx) ~>
         (client[c] = "closed" /\ (c \in told \/ []Stuck(c))) \/ server = "died"
  /\ [][\A c \in Clients :
          up[c] # "none" /\ target[c] = "open" /\ target'[c] = "closed" =>
            "down" \in ended[c] \/ client[c] = "closed"]_proxyVars
=============================================================================
