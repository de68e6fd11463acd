---------------------------- MODULE HappyEyeballs --------------------------
(* transport.HappyEyeballsStreamDialer over the lookups of DnsQueries: one  *)
(* DialStream that races its connection attempts, its two delay timers, the *)
(* lookups and the cancellation of its context in one select.               *)
EXTENDS DnsQueries, Sequences

VARIABLES results,      \* buffered channel: lookups whose result waits in it
          resolutionOpen, \* FALSE once the channel was seen closed
          got,          \* lookups whose result was received
          dialed,       \* addresses of each family that were dialed
          last,         \* family of lastDialed, 0 before the first
          resolutionDelay, attemptDelay, \* "running" or "over"
          opsPending,   \* lookups and addresses to wait for
          attempt,      \* where the goroutine of each attempt is
          hadErr,       \* "dial" and "lookup" once there was such an error
          outcome       \* "none" until the dial returns, then how

dialVars == <<results, resolutionOpen, got, dialed, last, resolutionDelay,
              attemptDelay, opsPending, attempt, hadErr, outcome>>
eyeballsVars == <<ctxDone, queryVars, dialVars>>

Attempts == Families \X (1 .. MaxIps)

EyeballsInit ==
  /\ QueriesInit
  /\ results = <<>> /\ resolutionOpen = TRUE /\ got = {}
  /\ dialed = [f \in Families |-> 0] /\ last = 0
  /\ resolutionDelay = "running" /\ attemptDelay = "over"
  /\ opsPending = 1 /\ attempt = [a \in Attempts |-> "none"]
  /\ hadErr = {} /\ outcome = "none"

Selecting == outcome = "none"
Count(f) == IF f \in got /\ answer[f] # LookupError THEN answer[f] ELSE 0
Left(f) == Count(f) - dialed[f]

\* The context of the caller is cancelled, or its deadline passes.
CallerCancels ==
  /\ Selecting /\ ~ctxDone /\ ctxDone' = TRUE
  /\ UNCHANGED <<queryVars, dialVars>>

\* What the dial returns when nothing is pending any more.
NoConnection(errs) ==
  IF "dial" \in errs THEN "dialError"
  ELSE IF "lookup" \in errs THEN "lookupError" ELSE "noIPs"

\* The end of a round of the loop; returning runs the deferred dialDone.
Round(pending, errs) ==
  /\ opsPending' = pending /\ hadErr' = errs
  /\ IF pending > 0 THEN UNCHANGED <<outcome, ctxDone>>
     ELSE outcome' = NoConnection(errs) /\ ctxDone' = TRUE

\* A goroutine of NewParallelHappyEyeballsResolveFunc delivers its result.
LookupDelivers(f) ==
  /\ Goes(f, "answered", "delivered")
  /\ results' = Append(results, f)
  /\ UNCHANGED <<ctxDone, resolver, deadline, qconn, forged, answer, resolutionOpen,
                 got, dialed, last, resolutionDelay, attemptDelay, opsPending,
                 attempt, hadErr, outcome>>

\* Fault: a result counts as one operation, however many addresses it has.
TakeLookupAsOne ==
  /\ Selecting /\ results # <<>>
  /\ LET f == Head(results)
     IN /\ got' = got \cup {f}
        /\ IF answer[f] = LookupError THEN Round(opsPending, hadErr \cup {"lookup"})
           ELSE Round(opsPending + 1, hadErr)
  /\ results' = Tail(results)
  /\ UNCHANGED <<queryVars, resolutionOpen, dialed, last, resolutionDelay,
                 attemptDelay, attempt>>

TakeLookup ==
  /\ Selecting /\ results # <<>>
  /\ LET f == Head(results)
     IN /\ got' = got \cup {f}
        /\ IF answer[f] = LookupError THEN Round(opsPending, hadErr \cup {"lookup"})
           ELSE Round(opsPending + answer[f], hadErr)
  /\ results' = Tail(results)
  /\ UNCHANGED <<queryVars, resolutionOpen, dialed, last, resolutionDelay,
                 attemptDelay, attempt>>

LookupsClosed ==
  /\ Selecting /\ resolutionOpen /\ results = <<>>
  /\ \A f \in Families : query[f] = "delivered"
  /\ resolutionOpen' = FALSE
  /\ Round(opsPending - 1, hadErr)
  /\ UNCHANGED <<queryVars, results, got, dialed, last, resolutionDelay,
                 attemptDelay, attempt>>

\* readyToDialCh: with IPv4 addresses only and the other lookup under way the
\* first attempt waits for the resolution delay, later ones for their turn.
HasIps == \E f \in Families : Left(f) > 0
HoldForIp6 == last = 0 /\ Left(6) = 0 /\ resolutionOpen
ReadyToDial ==
  HasIps /\ (IF HoldForIp6 THEN resolutionDelay ELSE attemptDelay) = "over"

ResolutionDelayEnds ==
  /\ Selecting /\ HasIps /\ HoldForIp6 /\ resolutionDelay = "running"
  /\ resolutionDelay' = "over"
  /\ UNCHANGED <<ctxDone, queryVars, results, resolutionOpen, got, dialed, last,
                 attemptDelay, opsPending, attempt, hadErr, outcome>>

AttemptDelayEnds ==
  /\ Selecting /\ attemptDelay = "running" /\ attemptDelay' = "over"
  /\ UNCHANGED <<ctxDone, queryVars, results, resolutionOpen, got, dialed, last,
                 resolutionDelay, opsPending, attempt, hadErr, outcome>>

StartAttempt ==
  /\ Selecting /\ ReadyToDial
  /\ LET f == IF Left(6) = 0 \/ (last = 6 /\ Left(4) > 0) THEN 4 ELSE 6
     IN /\ dialed' = [dialed EXCEPT ![f] = @ + 1]
        /\ attempt' = [attempt EXCEPT ![<<f, dialed[f] + 1>>] = "dialing"]
        /\ last' = f
  /\ attemptDelay' = "running"
  /\ UNCHANGED <<ctxDone, queryVars, results, resolutionOpen, got,
                 resolutionDelay, opsPending, hadErr, outcome>>

\* The goroutine of an attempt: its dial returns.
AttemptReturns(a) ==
  /\ attempt[a] = "dialing"
  /\ \E e \in {"connected", "refused"} : attempt' = [attempt EXCEPT ![a] = e]
  /\ UNCHANGED <<ctxDone, queryVars, results, resolutionOpen, got, dialed, last,
                 resolutionDelay, attemptDelay, opsPending, hadErr, outcome>>

\* It ends, and with it the delay of the next attempt.
AttemptEnds(a) ==
  attemptDelay' = IF a = <<last, dialed[last]>> THEN "over" ELSE attemptDelay

\* Its result is taken by the select, or nobody will and it closes.
TakeAttempt(a) ==
  /\ Selecting /\ attempt[a] \in {"connected", "refused"}
  /\ AttemptEnds(a)
  /\ IF attempt[a] = "refused"
     THEN /\ attempt' = [attempt EXCEPT ![a] = "ended"]
          /\ Round(opsPending - 1, hadErr \cup {"dial"})
     ELSE /\ attempt' = [attempt EXCEPT ![a] = "returned"]
          /\ opsPending' = opsPending - 1 /\ UNCHANGED hadErr
          /\ outcome' = "connected" /\ ctxDone' = TRUE
  /\ UNCHANGED <<queryVars, results, resolutionOpen, got, dialed, last,
                 resolutionDelay>>

\* Fault: attempts wait for the select only.
AttemptNeverSeesDone(a) == FALSE /\ UNCHANGED eyeballsVars

AttemptSeesDone(a) ==
  /\ ctxDone /\ attempt[a] \in {"connected", "refused"}
  /\ AttemptEnds(a)
  /\ attempt' = [attempt EXCEPT ![a] = "ended"]
  /\ UNCHANGED <<ctxDone, queryVars, results, resolutionOpen, got, dialed, last,
                 resolutionDelay, opsPending, hadErr, outcome>>

SeeCancel ==
  /\ Selecting /\ ctxDone /\ outcome' = "cancelled"
  /\ UNCHANGED <<ctxDone, queryVars, results, resolutionOpen, got, dialed, last,
                 resolutionDelay, attemptDelay, opsPending, attempt, hadErr>>

(* ------------------------------- behaviour ------------------------------- *)
AttemptStep(a) == AttemptReturns(a) \/ TakeAttempt(a) \/ AttemptSeesDone(a)
SelectStep == \/ TakeLookup \/ LookupsClosed \/ StartAttempt \/ SeeCancel
              \/ ResolutionDelayEnds \/ AttemptDelayEnds

EyeballsNext ==
  \/ CallerCancels \/ SelectStep
  \/ \E f \in Families : (QueryStep(f) /\ UNCHANGED dialVars) \/ LookupDelivers(f)
  \/ \E a \in Attempts : AttemptStep(a)

\* Timers fire, base dialers return, deadlines pass and a select with a ready
\* case goes on; no packet is bound to arrive.
EyeballsFairness ==
  /\ WF_eyeballsVars(SelectStep)
  /\ WF_eyeballsVars(deadline /\ CallerCancels)
  /\ \A a \in Attempts : WF_eyeballsVars(AttemptReturns(a))
                         /\ WF_eyeballsVars(TakeAttempt(a) \/ AttemptSeesDone(a))
  /\ \A f \in Families :
       /\ WF_eyeballsVars(LookupDelivers(f))
       /\ WF_eyeballsVars((DialResolver(f) \/ Handshake(f) \/ SendQuery(f)
                             \/ ReceiveExpires(f)) /\ UNCHANGED dialVars)

EyeballsSpec == EyeballsInit /\ [][EyeballsNext]_eyeballsVars
EyeballsFairSpec == EyeballsSpec /\ EyeballsFairness

(* ------------------------------- properties ------------------------------ *)
\* Types of the lookups' and of the dial's state.
EyeballsTypeOK ==
  /\ resolver \in Transports /\ deadline \in BOOLEAN /\ ctxDone \in BOOLEAN
  /\ query \in [Families -> {"dialing", "handshaking", "sending", "receiving",
                             "answered", "delivered"}]
  /\ qconn \in [Families -> {"none", "open", "closed", "leaked", "kept"}]
  /\ forged \in [Families -> 0 .. MaxForged]
  /\ answer \in [Families -> {LookupError} \cup (0 .. MaxIps)]
  /\ got \subseteq Families /\ dialed \in [Families -> 0 .. MaxIps]
  /\ last \in {0} \cup Families /\ opsPending \in Nat
  /\ attempt \in [Attempts -> {"none", "dialing", "connected", "refused",
                               "returned", "ended"}]
  /\ outcome \in {"none", "connected", "dialError", "lookupError", "noIPs",
                  "cancelled"}

\* opsPending counts exactly what is still to come (the lookups, the addresses
\* to dial and the attempts whose result was not taken), so the dial gives up by
\* itself only after both lookups have answered and every address they gave was
\* dialed and refused; and it hands out one connection.
PendingExact ==
  Selecting /\ ~ctxDone =>
    opsPending = (IF resolutionOpen THEN 1 ELSE 0) + Left(4) + Left(6)
      + Cardinality({a \in Attempts :
                       attempt[a] \in {"dialing", "connected", "refused"}})
AllTried ==
  /\ PendingExact
  /\ outcome \in {"dialError", "lookupError", "noIPs"} =>
       /\ got = Families
       /\ \A f \in Families : answer[f] # LookupError =>
            \A i \in 1 .. answer[f] : attempt[<<f, i>>] = "ended"
  /\ \A a, b \in Attempts :
       attempt[a] = "returned" /\ attempt[b] = "returned" => a = b

\* With a deadline the dial returns and no query stays behind with an open
\* connection, whatever packets are lost or forged: but for those the HTTP
\* client keeps, and one whose TLS handshake failed, which stays open.  Every
\* connection that an attempt makes is returned or closed, even one made after
\* the dial is over.
DeadlineEndsAll ==
  /\ deadline ~> ~Selecting /\ \A f \in Families :
       \/ qconn[f] \in {"none", "closed", "kept"}
       \/ qconn[f] = "leaked" /\ resolver = "tls" /\ answer[f] = LookupError
  /\ \A a \in Attempts :
       attempt[a] = "connected" ~> attempt[a] \in {"returned", "ended"}
=============================================================================
