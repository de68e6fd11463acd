--------------------------- MODULE PsiphonDialer ---------------------------
(* psiphon.Dialer: the goroutine of each Start sets up a tunnel, waits for  *)
(* its cancellation and cleans up; stop and tunnel are shared, and the lock *)
(* is free while a Start stops the one before it or starts its tunnel.      *)
EXTENDS Naturals, FiniteSets

CONSTANTS Starts,    \* calls of Start
          Stops      \* calls of Stop

Nobody == "none"

VARIABLES stop,       \* the Start whose stop function is stored
          tunnel,     \* the Start whose tunnel DialStream uses
          start,      \* where each Start is
          result,     \* what it has returned
          cancelled,  \* Starts whose dialerCtx is done
          waits,      \* the Start whose end each Start or Stop waits for
          stopping    \* where each Stop is

psiphonVars == <<stop, tunnel, start, result, cancelled, waits, stopping>>

PsiphonInit ==
  /\ stop = Nobody /\ tunnel = Nobody /\ cancelled = {}
  /\ start = [s \in Starts |-> "idle"] /\ result = [s \in Starts |-> Nobody]
  /\ waits = [x \in Starts \cup Stops |-> Nobody]
  /\ stopping = [p \in Stops |-> "idle"]

\* The stop function of t: it cancels its context and waits for its end.
CallStop(x, t) == cancelled' = cancelled \cup {t} /\ waits' = [waits EXCEPT ![x] = t]
Done(t) == start[t] = "ended"

StartBegins(s) ==
  /\ start[s] = "idle"
  /\ IF stop # Nobody
     THEN CallStop(s, stop) /\ stop' = Nobody /\ start' = [start EXCEPT ![s] = "waiting"]
     ELSE stop' = s /\ start' = [start EXCEPT ![s] = "starting"] /\ UNCHANGED <<cancelled, waits>>
  /\ UNCHANGED <<tunnel, result, stopping>>

\* The previous Start is done; what others stored meanwhile is overwritten.
StartGoesOn(s) ==
  /\ start[s] = "waiting" /\ Done(waits[s])
  /\ stop' = s /\ start' = [start EXCEPT ![s] = "starting"]
  /\ UNCHANGED <<tunnel, result, cancelled, waits, stopping>>

\* The context of the caller is done while the tunnel starts.
StartCancelled(s) ==
  /\ start[s] = "starting" /\ s \notin cancelled /\ cancelled' = cancelled \cup {s}
  /\ UNCHANGED <<stop, tunnel, start, result, waits, stopping>>

\* Fault: the cleanup leaves the stopped tunnel to DialStream.
EndsKeepingTunnel(s, usedTunnel) ==
  start' = [start EXCEPT ![s] = "ended"] /\ stop' = Nobody /\ UNCHANGED tunnel

\* What Start deferred: the tunnel, then stop, whoever has stored them.
Ends(s, usedTunnel) ==
  /\ start' = [start EXCEPT ![s] = "ended"] /\ stop' = Nobody
  /\ tunnel' = (IF usedTunnel THEN Nobody ELSE tunnel)

\* startTunnel returns an error, or its context is done; else the tunnel is in
\* use.
StartFails(s) ==
  /\ start[s] = "starting" /\ Ends(s, FALSE) /\ result' = [result EXCEPT ![s] = "error"]
  /\ UNCHANGED <<cancelled, waits, stopping>>
StartSucceeds(s) ==
  /\ start[s] = "starting" /\ s \notin cancelled
  /\ start' = [start EXCEPT ![s] = "running"] /\ tunnel' = s
  /\ result' = [result EXCEPT ![s] = "ok"]
  /\ UNCHANGED <<stop, cancelled, waits, stopping>>

TunnelEnds(s) ==
  /\ start[s] = "running" /\ s \in cancelled /\ Ends(s, TRUE)
  /\ UNCHANGED <<result, cancelled, waits, stopping>>

StopBegins(p) ==
  /\ stopping[p] = "idle"
  /\ IF stop = Nobody
     THEN stopping' = [stopping EXCEPT ![p] = "errNotStarted"] /\ UNCHANGED <<cancelled, waits>>
     ELSE CallStop(p, stop) /\ stopping' = [stopping EXCEPT ![p] = "waiting"]
  /\ UNCHANGED <<stop, tunnel, start, result>>

StopReturnsNil(p) ==
  /\ stopping[p] = "waiting" /\ Done(waits[p])
  /\ stopping' = [stopping EXCEPT ![p] = "nil"]
  /\ UNCHANGED <<stop, tunnel, start, result, cancelled, waits>>

StartStep(s) == \/ StartGoesOn(s) \/ StartFails(s) \/ StartSucceeds(s) \/ TunnelEnds(s)
PsiphonNext ==
  \/ \E s \in Starts : StartBegins(s) \/ StartCancelled(s) \/ StartStep(s)
  \/ \E p \in Stops : StopBegins(p) \/ StopReturnsNil(p)

PsiphonSpec == PsiphonInit /\ [][PsiphonNext]_psiphonVars
(* ------------------------------- properties ------------------------------ *)
\* Types of the dialer's state.
PsiphonTypeOK ==
  /\ stop \in Starts \cup {Nobody} /\ tunnel \in Starts \cup {Nobody}
  /\ start \in [Starts -> {"idle", "waiting", "starting", "running", "ended"}]
  /\ result \in [Starts -> {Nobody, "ok", "error"}] /\ cancelled \subseteq Starts
  /\ waits \in [Starts \cup Stops -> Starts \cup {Nobody}]
  /\ stopping \in [Stops -> {"idle", "waiting", "nil", "errNotStarted"}]

\* The tunnel that DialStream copies under the lock is running at that moment,
\* whatever Starts and Stops run at once: the one that stops it takes it away.
\* The dial itself uses the copy after the unlock, when it may have stopped.
TunnelRuns == tunnel # Nobody => start[tunnel] = "running"

\* The comment of Stop: it returns when the dialer is completely stopped; with
\* no Start under way nothing runs once the last Stop has returned without an
\* error.
StopStopsAll ==
  (/\ \A s \in Starts : start[s] \notin {"waiting", "starting"}
   /\ \E p \in Stops : stopping[p] = "nil"
   /\ stop = Nobody /\ \A p \in Stops : stopping[p] # "waiting")
    => \A s \in Starts : start[s] = "running" => s \in cancelled
=============================================================================
