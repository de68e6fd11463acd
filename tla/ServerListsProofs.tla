-------------------------- MODULE ServerListsProofs -------------------------
(* Theorems about FeedCaches and HomeServers for every set of services, of  *)
(* callers and of taps, every length of the hour and every bound.  The      *)
(* services: while a list waits for its timestamp the stored list is that   *)
(* one, a later one, or gone (InFlight); so a timestamp is at most one unit *)
(* later than the list it stands beside (Stamped).  The screen: whenever    *)
(* its list is not the stored one, some task is on its way to store or to   *)
(* reset it, and a spinner that is on belongs to a load that will store     *)
(* (HomeInv); its timestamp, too, is at most one unit later (HomeKeys).     *)
EXTENDS ServerLists, TLAPS

(* -------------------------------- services ------------------------------- *)

\* What a caller that is storing a list knows of the stored list; only the
\* VPN Gate service asks for the CSV feed.
InFlight ==
  \A c \in Calls :
    /\ At(c, "csv") => service = "vpngate"
    /\ At(c, "stamping") =>
         /\ call[c].got \in Times
         /\ call[c].got <= now /\ now <= call[c].got + 1
         /\ list[service] # Null =>
              list[service] \in Times /\ call[c].got <= list[service]

\* A timestamp lies in the past, at most one unit later than its list.
Stamped ==
  \A o \in Owners :
    /\ stamp[o] # Null => stamp[o] <= now
    /\ Usable(o) => list[o] \in Times /\ stamp[o] <= list[o] + 1

\* Nothing was stored in the future, and nothing empty.
Sent == \A o \in Owners : list[o] # Null => list[o] \in Times /\ list[o] <= now

\* The stored list is no older than a refresh that is under way.
RefreshFrom ==
  \A c \in Calls : call[c].op = "refresh" /\ ~ At(c, "idle") =>
    /\ call[c].since <= now
    /\ list[service] # Null => call[c].since <= list[service]
    /\ At(c, "stamping") => call[c].since <= call[c].got

\* A caller is sure of the cache only while both keys are there.
SureKept == sure # {} => Usable(service)

FeedInv == /\ FeedTypeOK /\ Sent /\ InFlight /\ Stamped
       /\ RefreshFrom /\ RefreshIsNew /\ SureKept /\ KeptListAnswers

\* The values that stand for a time, an absent key and an empty list differ.
LEMMA TimesFact == Times \subseteq Nat /\ Null \notin Times /\ NoServers \notin Times
                     /\ NoServers # Null
  BY CachesAssumption DEF Times, Lists

\* Initially the invariant holds.
LEMMA FeedInitInv == FeedInit => FeedInv
<1> SUFFICES ASSUME FeedInit PROVE FeedInv
  OBVIOUS
<1>1. 0 \in Times /\ 0 \in 0 .. MaxKills /\ NoServers \in Lists
  BY CachesAssumption DEF Times, Lists
<1>2. FeedTypeOK
  BY <1>1 DEF FeedInit, FeedTypeOK, CallType, AnswerType, Idle, Places, Ops, Vias
<1>3. Sent /\ Stamped
  BY DEF FeedInit, Sent, Stamped, Usable
<1>4. InFlight /\ RefreshFrom
  BY DEF FeedInit, InFlight, RefreshFrom, At, Idle
<1>5. RefreshIsNew /\ SureKept /\ KeptListAnswers
  BY DEF FeedInit, RefreshIsNew, SureKept, KeptListAnswers
<1> QED
  BY <1>2, <1>3, <1>4, <1>5 DEF FeedInv

\* Going on to another await keeps the rest of the call.
LEMMA WaitFacts ==
  ASSUME call \in [Calls -> CallType], NEW c \in Calls, NEW p \in Places,
         Wait(c, p)
  PROVE  /\ call' \in [Calls -> CallType]
         /\ \A d \in Calls : d # c => call'[d] = call[d]
         /\ call'[c].at = p /\ call'[c].op = call[c].op
         /\ call'[c].since = call[c].since /\ call'[c].got = call[c].got
<1> DEFINE new == [call[c] EXCEPT !.at = p]
<1>1. call' = [call EXCEPT ![c] = new]
  BY DEF Wait
<1>2. /\ new \in CallType
      /\ new.at = p /\ new.op = call[c].op
      /\ new.since = call[c].since /\ new.got = call[c].got
  BY DEF CallType
<1> HIDE DEF new
<1> QED
  BY <1>1, <1>2

\* An answer ends the call.
LEMMA AnswerFacts ==
  ASSUME call \in [Calls -> CallType], NEW c \in Calls, NEW op \in Ops,
         NEW since \in Times, NEW l \in Lists, NEW via \in Vias,
         Answer(c, op, since, l, via)
  PROVE  /\ call' \in [Calls -> CallType] /\ answer' \in AnswerType
         /\ \A d \in Calls : d # c => call'[d] = call[d]
         /\ call'[c].at = "idle"
         /\ answer'.op = op /\ answer'.list = l /\ answer'.since = since
         /\ c \notin sure => answer'.sure = FALSE
<1>1. Idle \in CallType /\ Idle.at = "idle"
  BY CachesAssumption DEF Idle, CallType, Places, Ops, Times, Lists
<1>2. call' = [call EXCEPT ![c] = Idle]
  BY DEF Answer
<1>3. PICK b \in BOOLEAN : b <=> c \in sure
  OBVIOUS
<1>4. answer' = [op |-> op, list |-> l, via |-> via, since |-> since,
                 sure |-> b]
  <2>1. CASE c \in sure
    <3>1. (c \in sure) = TRUE /\ b = TRUE
      BY <1>3, <2>1
    <3> QED
      BY <3>1, Zenon DEF Answer
  <2>2. CASE c \notin sure
    <3>1. (c \in sure) = FALSE /\ b = FALSE
      BY <1>3, <2>2
    <3> QED
      BY <3>1, Zenon DEF Answer
  <2> QED
    BY <2>1, <2>2
<1>5. answer' \in AnswerType
  BY <1>4 DEF AnswerType
<1>6. answer'.sure = b
  BY <1>4
<1> HIDE DEF Idle
<1> QED
  BY <1>1, <1>2, <1>3, <1>4, <1>5, <1>6

\* A turn that leaves the keys and the clock alone and saves nothing.
LEMMA QuietTurn ==
  ASSUME FeedInv, UNCHANGED <<now, service, list, stamp, kills>>, NEW c \in Calls,
         call' \in [Calls -> CallType],
         \A d \in Calls : d # c => call'[d] = call[d],
         call'[c].at # "stamping", call'[c].at = "csv" => service = "vpngate",
         call'[c].op = "refresh" /\ call'[c].at # "idle" =>
           /\ call[c].op = "refresh" /\ ~ At(c, "idle")
           /\ call'[c].since = call[c].since,
         sure' \subseteq Calls, SureKept', answer' \in AnswerType,
         RefreshIsNew', KeptListAnswers'
  PROVE  FeedInv'
<1>1. FeedTypeOK' /\ Sent' /\ Stamped'
  BY DEF FeedInv, FeedTypeOK, Sent, Stamped, Usable
<1>2. InFlight' /\ RefreshFrom'
  <2> SUFFICES ASSUME NEW d \in Calls
               PROVE  /\ InFlight!(d)'
                      /\ RefreshFrom!(d)'
    BY DEF InFlight, RefreshFrom
  <2> QED
    BY DEF FeedInv, InFlight, RefreshFrom, At
<1> QED
  BY <1>1, <1>2 DEF FeedInv

\* What a stored list reads as is a list, and servers unless it is CSV.
LEMMA StoredFacts ==
  ASSUME FeedInv, Usable(service)
  PROVE  /\ Stored(service) \in Lists
         /\ service # "vpngate" => Stored(service) \in Times
  BY CachesAssumption DEF FeedInv, FeedTypeOK, Sent, Usable, Stored, ParseCsv, Lists

\* An answer that only reads the keys.
LEMMA RespondInv ==
  ASSUME FeedInv, NEW c \in Calls, NEW l \in Lists, NEW via \in Vias,
         Respond(c, l, via),
         UNCHANGED <<now, service, list, stamp, sure, kills>>,
         call[c].op = "refresh" /\ l # NoServers => l >= call[c].since,
         service = "unified" /\ call[c].op = "fetch" /\ c \in sure
           => l # NoServers
  PROVE  FeedInv'
<1>1. /\ call \in [Calls -> CallType] /\ call[c].op \in Ops
      /\ call[c].since \in Times
  BY DEF FeedInv, FeedTypeOK, CallType
<1>2. Answer(c, call[c].op, call[c].since, l, via)
  BY DEF Respond
<1>3. /\ call' \in [Calls -> CallType] /\ answer' \in AnswerType
      /\ \A d \in Calls : d # c => call'[d] = call[d]
      /\ call'[c].at = "idle"
      /\ answer'.op = call[c].op /\ answer'.list = l
      /\ answer'.since = call[c].since
  BY <1>1, <1>2, AnswerFacts
<1>4. c \notin sure => answer'.sure = FALSE
  BY <1>1, <1>2, AnswerFacts
<1>5. RefreshIsNew'
  BY <1>3 DEF RefreshIsNew
<1>6. KeptListAnswers'
  BY <1>3, <1>4 DEF KeptListAnswers
<1> QED
  BY <1>3, <1>5, <1>6, QuietTurn DEF FeedInv, SureKept, Usable, FeedTypeOK

\* fetch: an answer from the cache, or a request.
LEMMA FetchInv == ASSUME FeedInv, NEW c \in Calls, Fetch(c) PROVE FeedInv'
<1> USE TimesFact DEF Ops, Vias, Places, storeVars
<1>1. CASE Hit(service)
  <2>1. Usable(service) /\ Answer(c, "fetch", now, Stored(service), "window")
    BY <1>1 DEF Fetch, Hit, Fresh
  <2>2. /\ call \in [Calls -> CallType] /\ now \in Times
        /\ Stored(service) \in Lists
    BY <2>1, StoredFacts DEF FeedInv, FeedTypeOK
  <2>3. /\ call' \in [Calls -> CallType] /\ answer' \in AnswerType
        /\ \A d \in Calls : d # c => call'[d] = call[d]
        /\ call'[c].at = "idle"
        /\ answer'.op = "fetch" /\ answer'.list = Stored(service)
    BY <2>1, <2>2, AnswerFacts
  <2>4. KeptListAnswers' /\ RefreshIsNew'
    BY <1>1, <2>1, <2>3, StoredFacts DEF Fetch, KeptListAnswers, RefreshIsNew
  <2> QED
    BY <1>1, <2>3, <2>4, QuietTurn DEF Fetch, FeedInv, SureKept, Usable, FeedTypeOK
<1>2. CASE ~ Hit(service)
  <2> DEFINE new == [at |-> "asking", op |-> "fetch", since |-> now,
                     got |-> NoServers]
  <2>1. call' = [call EXCEPT ![c] = new] /\ UNCHANGED answer
    BY <1>2 DEF Fetch, Begin
  <2>2. new \in CallType /\ new.at = "asking" /\ new.op = "fetch"
    BY DEF CallType, FeedInv, FeedTypeOK, Lists
  <2> HIDE DEF new
  <2>3. /\ call' \in [Calls -> CallType]
        /\ call'[c] = new
        /\ \A d \in Calls : d # c => call'[d] = call[d]
    BY <2>1, <2>2 DEF FeedInv, FeedTypeOK
  <2>4. sure' \subseteq Calls /\ SureKept'
    BY <1>2 DEF Fetch, FeedInv, FeedTypeOK, SureKept, Usable
  <2> QED
    BY <1>2, <2>1, <2>2, <2>3, <2>4, QuietTurn
       DEF Fetch, FeedInv, FeedTypeOK, RefreshIsNew, KeptListAnswers
<1> QED
  BY <1>1, <1>2

\* The endpoint gives nothing: whatever the service does then is quiet.
LEMMA MissInv ==
  ASSUME FeedInv, NEW c \in Calls, At(c, "asking") \/ At(c, "again"), Miss(c),
         UNCHANGED <<now, service, storeVars, sure, kills>>
  PROVE  FeedInv'
<1> USE TimesFact DEF Ops, Vias, Places, storeVars
<1>1. /\ call \in [Calls -> CallType] /\ call[c].op \in Ops
      /\ call[c].since \in Times /\ NoServers \in Lists
      /\ ~ At(c, "idle")
    BY DEF FeedInv, FeedTypeOK, CallType, Lists, At
<1>3. CASE service = "unified" /\ call[c].op = "fetch"
  <2> DEFINE l == IF Usable(service) THEN Stored(service) ELSE NoServers
  <2>1. l \in Lists /\ (c \in sure => l # NoServers)
    BY <1>3, StoredFacts DEF FeedInv, SureKept, Lists
  <2>2. Respond(c, l, "stale")
    BY <1>3 DEF Miss
  <2> HIDE DEF l
  <2> QED
    BY <1>3, <2>1, <2>2, RespondInv
<1>4. CASE service = "vpngate"
  <2>1. Wait(c, "csv") /\ UNCHANGED answer
    BY <1>4 DEF Miss
  <2>2. /\ call' \in [Calls -> CallType]
        /\ \A d \in Calls : d # c => call'[d] = call[d]
        /\ call'[c].at = "csv" /\ call'[c].op = call[c].op
        /\ call'[c].since = call[c].since
    BY <1>1, <2>1, WaitFacts
  <2> QED
    BY <1>1, <1>4, <2>1, <2>2, QuietTurn
       DEF FeedInv, FeedTypeOK, SureKept, Usable, RefreshIsNew, KeptListAnswers
<1>5. CASE ~ (service = "unified" /\ call[c].op = "fetch") /\ service # "vpngate"
  BY <1>1, <1>5, RespondInv DEF Miss
<1> QED
  BY <1>3, <1>4, <1>5

\* A refresh or a clear removes the list ...
LEMMA ClearInv ==
  ASSUME FeedInv, NEW c \in Calls, NEW op \in {"refresh", "clear"}, Clear(c, op)
  PROVE  FeedInv'
<1> USE TimesFact DEF storeVars
<1> DEFINE new == [at |-> "clearing", op |-> op, since |-> now,
                   got |-> NoServers]
<1>1. new \in CallType /\ new.at = "clearing" /\ new.since = now /\ new.op = op
  BY DEF CallType, FeedInv, FeedTypeOK, Lists, Ops, Places
<1>2. /\ call' = [call EXCEPT ![c] = new]
      /\ list' = [list EXCEPT ![service] = Null]
      /\ sure' = {} /\ UNCHANGED <<now, service, stamp, answer, kills>>
  BY DEF Clear, Begin, SetList
<1> HIDE DEF new
<1>3. /\ call' \in [Calls -> CallType] /\ call'[c] = new
      /\ \A d \in Calls : d # c => call'[d] = call[d]
      /\ service \in Owners /\ now \in Nat
  BY <1>1, <1>2, CachesAssumption DEF FeedInv, FeedTypeOK
<1>4. list' \in [Owners -> Lists \cup {Null}] /\ list'[service] = Null
  BY <1>2, <1>3 DEF FeedInv, FeedTypeOK
<1>5. FeedTypeOK'
  BY <1>2, <1>3, <1>4 DEF FeedInv, FeedTypeOK
<1>6. Sent' /\ Stamped'
  BY <1>2, <1>3, <1>4 DEF FeedInv, FeedTypeOK, Sent, Stamped, Usable
<1>7. InFlight' /\ RefreshFrom'
  BY <1>1, <1>2, <1>3, <1>4 DEF FeedInv, InFlight, RefreshFrom, At
<1>8. RefreshIsNew' /\ SureKept' /\ KeptListAnswers'
  BY <1>2 DEF FeedInv, RefreshIsNew, SureKept, KeptListAnswers
<1> QED
  BY <1>5, <1>6, <1>7, <1>8 DEF FeedInv

\* ... and then the timestamp.
LEMMA ClearStampInv == ASSUME FeedInv, NEW c \in Calls, ClearStamp(c) PROVE FeedInv'
<1> USE TimesFact DEF storeVars
<1>1. /\ stamp' = [stamp EXCEPT ![service] = Null]
      /\ sure' = {} /\ UNCHANGED <<now, service, list, answer, kills>>
  BY DEF ClearStamp, SetStamp
<1>2. /\ call' \in [Calls -> CallType]
      /\ \A d \in Calls : d # c => call'[d] = call[d]
      /\ call'[c].at # "stamping" /\ call'[c].at # "csv"
      /\ call'[c].at # "idle" => /\ call'[c].op = call[c].op
                                /\ call'[c].since = call[c].since
                                /\ ~ At(c, "idle")
  <2>1. CASE call[c].op = "clear"
    <3>1. Idle \in CallType /\ Idle.at = "idle"
      BY CachesAssumption DEF Idle, CallType, Places, Ops, Times, Lists
    <3>2. call' = [call EXCEPT ![c] = Idle]
      BY <2>1 DEF ClearStamp
    <3> HIDE DEF Idle
    <3> QED
      BY <3>1, <3>2 DEF FeedInv, FeedTypeOK
  <2>2. CASE call[c].op # "clear"
    BY <2>2, WaitFacts DEF ClearStamp, FeedInv, FeedTypeOK, Places, At
  <2> QED
    BY <2>1, <2>2
<1>3. FeedTypeOK'
  BY <1>1, <1>2 DEF FeedInv, FeedTypeOK
<1>4. Sent' /\ Stamped'
  BY <1>1, CachesAssumption DEF FeedInv, FeedTypeOK, Sent, Stamped, Usable
<1>5. InFlight' /\ RefreshFrom'
  BY <1>1, <1>2 DEF FeedInv, InFlight, RefreshFrom, At
<1>6. RefreshIsNew' /\ SureKept' /\ KeptListAnswers'
  BY <1>1 DEF FeedInv, RefreshIsNew, SureKept, KeptListAnswers
<1> QED
  BY <1>3, <1>4, <1>5, <1>6 DEF FeedInv

\* A refresh goes on, with a list stored since it began or with a request.
LEMMA RefetchInv == ASSUME FeedInv, NEW c \in Calls, Refetch(c) PROVE FeedInv'
<1> USE TimesFact DEF Vias, Places, storeVars
<1>1. /\ call \in [Calls -> CallType] /\ call[c].op \in Ops
      /\ call[c].since \in Times /\ ~ At(c, "idle")
  BY DEF Refetch, FeedInv, FeedTypeOK, CallType, At
<1>2. CASE service # "unified" /\ Hit(service)
  <2>1. Usable(service) /\ Respond(c, Stored(service), "window")
    BY <1>2 DEF Refetch, Hit, Fresh
  <2>2. Stored(service) \in Lists
    BY <2>1, StoredFacts
  <2>3. call[c].op = "refresh" /\ Stored(service) # NoServers
          => Stored(service) >= call[c].since
    BY <1>1, <2>1 DEF FeedInv, RefreshFrom, Stored, ParseCsv, Usable
  <2> QED
    BY <1>2, <2>1, <2>2, <2>3, RespondInv DEF Refetch
<1>3. CASE ~ (service # "unified" /\ Hit(service))
  <2>1. Wait(c, "asking") /\ UNCHANGED answer
    BY <1>3 DEF Refetch
  <2>2. /\ call' \in [Calls -> CallType]
        /\ \A d \in Calls : d # c => call'[d] = call[d]
        /\ call'[c].at = "asking" /\ call'[c].op = call[c].op
        /\ call'[c].since = call[c].since
    BY <1>1, <2>1, WaitFacts
  <2> QED
    BY <1>1, <2>1, <2>2, QuietTurn
       DEF Refetch, FeedInv, FeedTypeOK, SureKept, Usable, RefreshIsNew,
           KeptListAnswers
<1> QED
  BY <1>2, <1>3

\* Servers came and are stored.
LEMMA ReplyServersInv ==
  ASSUME FeedInv, NEW c \in Calls, ReplyServers(c) PROVE FeedInv'
<1> USE TimesFact DEF storeVars
<1> DEFINE new == [[call[c] EXCEPT !.at = "stamping"] EXCEPT !.got = now]
<1>1. /\ call' = [call EXCEPT ![c] = new]
      /\ list' = [list EXCEPT ![service] = now]
      /\ UNCHANGED <<now, service, stamp, sure, answer, kills>>
      /\ ~ At(c, "idle")
  BY DEF ReplyServers, SetList, At
<1>2. /\ new \in CallType /\ new.at = "stamping" /\ new.got = now
      /\ new.op = call[c].op /\ new.since = call[c].since
  BY DEF CallType, FeedInv, FeedTypeOK, Lists, Places
<1> HIDE DEF new
<1>3. /\ call' \in [Calls -> CallType] /\ call'[c] = new
      /\ \A d \in Calls : d # c => call'[d] = call[d]
      /\ service \in Owners /\ now \in Times /\ now \in Nat
  BY <1>1, <1>2, CachesAssumption DEF FeedInv, FeedTypeOK
<1>4. /\ list' \in [Owners -> Lists \cup {Null}] /\ list'[service] = now
      /\ \A o \in Owners : o # service => list'[o] = list[o]
  BY <1>1, <1>3 DEF FeedInv, FeedTypeOK, Lists
<1>5. FeedTypeOK'
  BY <1>1, <1>3, <1>4 DEF FeedInv, FeedTypeOK
<1>6. Sent'
  BY <1>1, <1>3, <1>4 DEF FeedInv, Sent
<1>7. Stamped'
  <2> SUFFICES ASSUME NEW o \in Owners, Usable(o)'
               PROVE  (list[o] \in Times /\ stamp[o] <= list[o] + 1)'
    BY <1>1 DEF FeedInv, Stamped
  <2>1. stamp[o] \in Nat /\ stamp[o] <= now
    BY <1>1 DEF Usable, FeedInv, FeedTypeOK, Stamped
  <2>2. CASE o = service
    BY <1>1, <1>3, <1>4, <2>1, <2>2
  <2>3. CASE o # service
    BY <1>1, <1>4, <2>3 DEF FeedInv, Stamped, Usable
  <2> QED
    BY <2>2, <2>3
<1>8. InFlight' /\ RefreshFrom'
  BY <1>1, <1>2, <1>3, <1>4 DEF FeedInv, InFlight, RefreshFrom, At, FeedTypeOK, CallType
<1>9. RefreshIsNew' /\ SureKept' /\ KeptListAnswers'
  BY <1>1, <1>3, <1>4 DEF FeedInv, RefreshIsNew, SureKept, KeptListAnswers, Usable
<1> QED
  BY <1>5, <1>6, <1>7, <1>8, <1>9 DEF FeedInv

\* The timestamp of the list that a caller has stored.
LEMMA StampInv == ASSUME FeedInv, NEW c \in Calls, Stamp(c) PROVE FeedInv'
<1> USE TimesFact DEF storeVars
<1>1. /\ stamp' = [stamp EXCEPT ![service] = now]
      /\ Answer(c, call[c].op, call[c].since, call[c].got, "network")
      /\ UNCHANGED <<now, service, list, sure, kills>>
      /\ At(c, "stamping") /\ ~ At(c, "idle")
  BY DEF Stamp, SetStamp, Respond, At
<1>2. /\ call \in [Calls -> CallType] /\ call[c].op \in Ops
      /\ call[c].since \in Times /\ call[c].got \in Times
      /\ call[c].got \in Lists /\ "network" \in Vias
      /\ service \in Owners /\ now \in Times
  BY <1>1, CachesAssumption DEF FeedInv, InFlight, FeedTypeOK, CallType, Lists, Vias
<1>3. /\ call' \in [Calls -> CallType] /\ answer' \in AnswerType
      /\ \A d \in Calls : d # c => call'[d] = call[d]
      /\ call'[c].at = "idle"
      /\ answer'.op = call[c].op /\ answer'.list = call[c].got
      /\ answer'.since = call[c].since
  BY <1>1, <1>2, AnswerFacts, ZenonT(60)
<1>4. /\ stamp' \in [Owners -> Times \cup {Null}] /\ stamp'[service] = now
      /\ \A o \in Owners : o # service => stamp'[o] = stamp[o]
  BY <1>1, <1>2 DEF FeedInv, FeedTypeOK
<1>5. FeedTypeOK' /\ Sent'
  BY <1>1, <1>3, <1>4 DEF FeedInv, FeedTypeOK, Sent
<1>6. Stamped'
  <2> SUFFICES ASSUME NEW o \in Owners PROVE Stamped!(o)'
    BY DEF Stamped
  <2>1. CASE o = service
    <3>1. list[service] # Null => /\ list[service] \in Times
                                  /\ now <= list[service] + 1
      <4>1. /\ now <= call[c].got + 1
            /\ list[service] # Null => /\ list[service] \in Times
                                       /\ call[c].got <= list[service]
        BY <1>1 DEF FeedInv, InFlight
      <4>2. now \in Nat /\ call[c].got \in Nat
        BY <1>2
      <4>3. list[service] # Null => list[service] \in Nat
        BY <4>1
      <4> QED
        BY <4>1, <4>2, <4>3
    <3> QED
      BY <1>1, <1>2, <1>4, <2>1, <3>1 DEF Usable
  <2>2. CASE o # service
    BY <1>1, <1>4, <2>2 DEF FeedInv, Stamped, Usable
  <2> QED
    BY <2>1, <2>2
<1>7. InFlight' /\ RefreshFrom'
  BY <1>1, <1>3 DEF FeedInv, InFlight, RefreshFrom, At
<1>8. RefreshIsNew'
  BY <1>1, <1>2, <1>3 DEF FeedInv, RefreshFrom, RefreshIsNew
<1>9. SureKept' /\ KeptListAnswers'
  BY <1>1, <1>2, <1>3, <1>4 DEF FeedInv, SureKept, KeptListAnswers, Usable
<1> QED
  BY <1>5, <1>6, <1>7, <1>8, <1>9 DEF FeedInv

\* Time passes, at most one unit while a list waits for its timestamp.
LEMMA TickInv == ASSUME FeedInv, Tick PROVE FeedInv'
<1> USE TimesFact DEF storeVars, callVars
<1>1. /\ now' = now + 1 /\ now \in Nat /\ now' \in Times
      /\ UNCHANGED <<service, list, stamp, call, sure, answer, kills>>
  BY CachesAssumption DEF Tick, FeedInv, FeedTypeOK, Times
<1>2. FeedTypeOK'
  BY <1>1 DEF FeedInv, FeedTypeOK
<1>3. Sent'
  <2> SUFFICES ASSUME NEW o \in Owners PROVE Sent!(o)'
    BY DEF Sent
  <2>1. list[o] # Null => list[o] \in Times /\ list[o] <= now
    BY DEF FeedInv, Sent
  <2>2. list[o] # Null => list[o] \in Nat
    BY <2>1
  <2> QED
    BY <1>1, <2>1, <2>2
<1>4. Stamped'
  <2> SUFFICES ASSUME NEW o \in Owners PROVE Stamped!(o)'
    BY DEF Stamped
  <2>1. stamp[o] # Null => stamp[o] \in Nat
    BY DEF FeedInv, FeedTypeOK
  <2> QED
    BY <1>1, <2>1 DEF FeedInv, Stamped, Usable
<1>5. InFlight'
  BY <1>1 DEF Tick, FeedInv, InFlight, At
<1>6. RefreshFrom'
  <2> SUFFICES ASSUME NEW c \in Calls PROVE RefreshFrom!(c)'
    BY DEF RefreshFrom
  <2>1. call[c].since \in Nat
    BY DEF FeedInv, FeedTypeOK, CallType
  <2> QED
    BY <1>1, <2>1 DEF FeedInv, RefreshFrom, At
<1>7. RefreshIsNew' /\ SureKept' /\ KeptListAnswers'
  BY <1>1 DEF FeedInv, RefreshIsNew, SureKept, KeptListAnswers, Usable
<1> QED
  BY <1>2, <1>3, <1>4, <1>5, <1>6, <1>7 DEF FeedInv

\* The process dies: no call is left.
LEMMA KillInv == ASSUME FeedInv, Kill PROVE FeedInv'
<1> USE DEF storeVars
<1>1. Idle \in CallType /\ Idle.at = "idle"
  BY CachesAssumption DEF Idle, CallType, Places, Ops, Times, Lists
<1>2. /\ call' = [c \in Calls |-> Idle] /\ sure' = {}
      /\ kills' = kills + 1 /\ kills < MaxKills
      /\ UNCHANGED <<now, service, list, stamp, answer>>
  BY DEF Kill
<1> HIDE DEF Idle
<1>3. FeedTypeOK'
  BY <1>1, <1>2, CachesAssumption DEF FeedInv, FeedTypeOK
<1>4. Sent' /\ Stamped'
  BY <1>2 DEF FeedInv, Sent, Stamped, Usable
<1>5. InFlight' /\ RefreshFrom'
  BY <1>1, <1>2 DEF InFlight, RefreshFrom, At
<1>6. RefreshIsNew' /\ SureKept' /\ KeptListAnswers'
  BY <1>2 DEF FeedInv, RefreshIsNew, SureKept, KeptListAnswers
<1> QED
  BY <1>3, <1>4, <1>5, <1>6 DEF FeedInv

\* Every step keeps the invariant.
LEMMA FeedNextInv == FeedInv /\ [FeedNext]_feedVars => FeedInv'
<1> SUFFICES ASSUME FeedInv, [FeedNext]_feedVars PROVE FeedInv'
  OBVIOUS
<1>1. CASE Tick
  BY <1>1, TickInv
<1>2. CASE Kill
  BY <1>2, KillInv
<1>3. ASSUME NEW c \in Calls, Call(c) PROVE FeedInv'
  <2>1. CASE Fetch(c)
    BY <2>1, FetchInv
  <2>2. CASE Clear(c, "refresh") \/ Clear(c, "clear")
    BY <2>2, ClearInv
  <2>3. CASE ClearStamp(c)
    BY <2>3, ClearStampInv
  <2>4. CASE Refetch(c)
    BY <2>4, RefetchInv
  <2>5. CASE ReplyServers(c)
    BY <2>5, ReplyServersInv
  <2>6. CASE ReplyEmpty(c)
    <3>1. CASE service = "unified" /\ At(c, "asking")
      <4>1. /\ Wait(c, "again") /\ call \in [Calls -> CallType]
            /\ "again" \in Places /\ ~ At(c, "idle")
            /\ UNCHANGED <<now, service, list, stamp, sure, answer, kills>>
        BY <2>6, <3>1 DEF ReplyEmpty, FeedInv, FeedTypeOK, Places, At, storeVars
      <4>2. /\ call' \in [Calls -> CallType]
            /\ \A d \in Calls : d # c => call'[d] = call[d]
            /\ call'[c].at = "again" /\ call'[c].op = call[c].op
            /\ call'[c].since = call[c].since
        BY <4>1, WaitFacts
      <4> QED
        BY <4>1, <4>2, QuietTurn
           DEF FeedInv, FeedTypeOK, SureKept, Usable, RefreshIsNew, KeptListAnswers
    <3>2. CASE ~ (service = "unified" /\ At(c, "asking"))
      BY <2>6, <3>2, MissInv DEF ReplyEmpty
    <3> QED
      BY <3>1, <3>2
  <2>7. CASE ReplyError(c)
    BY <2>7, MissInv DEF ReplyError
  <2>8. CASE ReplyCsv(c)
    <3>1. /\ Respond(c, NoServers, "network")
          /\ NoServers \in Lists /\ "network" \in Vias
          /\ UNCHANGED <<now, service, list, stamp, sure, kills>>
          /\ At(c, "csv")
      BY <2>8 DEF ReplyCsv, ParseCsv, Lists, Vias, storeVars
    <3> QED
      BY <3>1, RespondInv DEF FeedInv, InFlight
  <2>9. CASE Stamp(c)
    BY <2>9, StampInv
  <2> QED
    BY <1>3, <2>1, <2>2, <2>3, <2>4, <2>5, <2>6, <2>7, <2>8, <2>9 DEF Call
<1>4. CASE UNCHANGED feedVars
  BY <1>4 DEF feedVars, storeVars, callVars, FeedInv, FeedTypeOK, Sent, InFlight,
              Stamped, RefreshFrom, RefreshIsNew, SureKept, KeptListAnswers,
              Usable, At
<1> QED
  BY <1>1, <1>2, <1>3, <1>4 DEF FeedNext

\* Every behaviour keeps the invariant.
THEOREM FeedInvariance == FeedSpec => []FeedInv
<1>1. FeedInit => FeedInv
  BY FeedInitInv
<1>2. FeedInv /\ [FeedNext]_feedVars => FeedInv'
  BY FeedNextInv
<1> QED
  BY <1>1, <1>2, PTL DEF FeedSpec

\* Keys and calls keep their types.
THEOREM FeedTypes == FeedSpec => []FeedTypeOK
<1>1. FeedInv => FeedTypeOK
  BY DEF FeedInv
<1> QED
  BY <1>1, FeedInvariance, PTL

\* A timestamp is at most one unit later than its list.
LEMMA FeedIsRecent == FeedInv => FreshIsRecent
<1> SUFFICES ASSUME FeedInv, NEW o \in Owners, Fresh(o), list[o] # NoServers
             PROVE  Within(o, list[o], 1)
  BY DEF FreshIsRecent
<1>1. /\ list[o] \in Nat /\ stamp[o] \in Nat /\ now \in Nat
      /\ stamp[o] <= list[o] + 1
  BY TimesFact DEF FeedInv, FeedTypeOK, Stamped, Fresh, Usable
<1>2. Window(o) \in Nat
  BY CachesAssumption DEF Window
<1> QED
  BY <1>1, <1>2 DEF Fresh, Within

\* A list within its window was sent within the window, or one unit before.
THEOREM FreshListsAreRecent == FeedSpec => []FreshIsRecent
BY FeedIsRecent, FeedInvariance, PTL

\* No service stores an empty list.
THEOREM EmptyIsNeverStored == FeedSpec => []NoEmptyStored
<1>1. FeedInv => NoEmptyStored
  BY TimesFact, CachesAssumption DEF FeedInv, Sent, NoEmptyStored
<1> QED
  BY <1>1, FeedInvariance, PTL

\* What a forced refresh answers was sent after it began.
THEOREM RefreshesAreNew == FeedSpec => []RefreshIsNew
<1>1. FeedInv => RefreshIsNew
  BY DEF FeedInv
<1> QED
  BY <1>1, FeedInvariance, PTL

\* A kept list keeps the unified service from answering with nothing.
THEOREM KeptListsAnswer == FeedSpec => []KeptListAnswers
<1>1. FeedInv => KeptListAnswers
  BY DEF FeedInv
<1> QED
  BY <1>1, FeedInvariance, PTL

(* ------------------------------- home screen ----------------------------- *)

Underway == {"initializing", "loading", "removing", "refreshing"}

HomeInv ==
  /\ DOMAIN task = HomeTasks /\ "home" \in DOMAIN list
  /\ \A t \in HomeTasks : DOMAIN task[t] = {"at", "left", "since"}
  /\ loading => \E t \in HomeTasks : In(t, "loading")
  /\ \/ servers = list["home"]
     \/ \E t \in HomeTasks : task[t].at \in Underway

\* Initially the launch is under way.
LEMMA HomeInitInv == HomeInit => HomeInv
<1> SUFFICES ASSUME HomeInit PROVE HomeInv
  OBVIOUS
<1>1. Launch \in HomeTasks /\ task[Launch].at = "initializing"
  BY DEF HomeInit, HomeTasks, Starting, Resting
<1>2. "home" \in DOMAIN list
  BY DEF HomeInit, FeedInit, Owners
<1>3. \A t \in HomeTasks : DOMAIN task[t] = {"at", "left", "since"}
  BY DEF HomeInit, Starting, Resting
<1> QED
  BY <1>1, <1>2, <1>3 DEF HomeInit, HomeInv, Underway

\* Task t went to a place, and the others stay where they are.
Went(t, place) ==
  /\ DOMAIN task' = HomeTasks /\ task'[t].at = place
  /\ \A u \in HomeTasks : DOMAIN task'[u] = {"at", "left", "since"}
  /\ \A u \in HomeTasks : u # t => task'[u] = task[u]

\* A task that moves, or rests, goes to one place.
LEMMA TaskMoves ==
  ASSUME HomeInv, NEW t \in HomeTasks
  PROVE  (\A place : Move(t, place) => Went(t, place)) /\ (Rest(t) => Went(t, "idle"))
  BY DEF HomeInv, Move, Rest, Resting, Went

\* A load that is asked for runs, or another one does.
LEMMA StartKeeps ==
  ASSUME HomeInv, NEW t \in HomeTasks, ~In(t, "loading"), StartLoading(t), UNCHANGED list
  PROVE  HomeInv'
<1>1. CASE loading
  <2>1. Went(t, "idle") /\ loading' = loading
    BY <1>1, TaskMoves DEF StartLoading
  <2>2. PICK u \in HomeTasks : In(u, "loading")
    BY <1>1 DEF HomeInv
  <2>3. task'[u].at = "loading"
    BY <2>1, <2>2 DEF Went, In
  <2> QED
    BY <2>1, <2>3 DEF HomeInv, Went, In, Underway
<1>2. CASE ~loading
  <2>1. Went(t, "loading")
    BY <1>2, TaskMoves DEF StartLoading
  <2> QED
    BY <2>1 DEF HomeInv, Went, In, Underway
<1> QED
  BY <1>1, <1>2

\* The launch takes a fresh list from the cache, or loads one.
LEMMA CacheKeeps == HomeInv /\ LoadFromCache => HomeInv'
<1> SUFFICES ASSUME HomeInv, LoadFromCache PROVE HomeInv'
  OBVIOUS
<1>1. Launch \in HomeTasks /\ UNCHANGED list /\ ~In(Launch, "loading")
  BY DEF HomeTasks, LoadFromCache, In, feedVars, storeVars
<1>2. CASE Fresh("home")
  <2>1. Went(Launch, "idle") /\ servers' = list["home"] /\ loading' = FALSE
    BY <1>1, <1>2, TaskMoves DEF LoadFromCache
  <2> QED
    BY <1>1, <2>1 DEF HomeInv, Went
<1>3. CASE ~Fresh("home")
  BY <1>1, <1>3, StartKeeps DEF LoadFromCache
<1> QED
  BY <1>2, <1>3

\* Each step of a load or of a refresh keeps its promise.
LEMMA TaskKeeps ==
  ASSUME HomeInv, service # "home", NEW t \in HomeTasks, Home(t)
  PROVE  HomeInv'
<1>1. CASE Loaded(t)
  <2>1. loading' = FALSE /\ servers' = list'["home"] /\ DOMAIN list' = DOMAIN list
    BY <1>1 DEF Loaded, SetList, HomeInv
  <2>2. /\ DOMAIN task' = HomeTasks
        /\ \A u \in HomeTasks : DOMAIN task'[u] = {"at", "left", "since"}
    BY <1>1 DEF Loaded, HomeInv
  <2> QED
    BY <2>1, <2>2 DEF HomeInv
<1>2. CASE StampLoaded(t)
  <2>1. Went(t, "idle") /\ task[t].at = "stamping" /\ UNCHANGED <<list, servers, loading>>
    BY <1>2, TaskMoves DEF StampLoaded, In
  <2>2. \A u \in HomeTasks : task[u].at \in Underway => task'[u] = task[u]
    BY <2>1 DEF Went, Underway
  <2> QED
    BY <2>1, <2>2 DEF HomeInv, Went, In, Underway
<1>3. CASE RemoveKey(t)
  <2>1. UNCHANGED <<servers, loading>> /\ "home" \in DOMAIN list'
    BY <1>3 DEF RemoveKey, SetList, HomeInv
  <2>2. /\ DOMAIN task' = HomeTasks /\ task'[t].at \in {"removing", "refreshing"}
        /\ \A u \in HomeTasks : DOMAIN task'[u] = {"at", "left", "since"}
        /\ \A u \in HomeTasks : u # t => task'[u] = task[u]
    BY <1>3 DEF RemoveKey, HomeInv, In
  <2>3. \A u \in HomeTasks : In(u, "loading") => u # t
    BY <1>3 DEF RemoveKey, In
  <2> QED
    BY <2>1, <2>2, <2>3 DEF HomeInv, In, Underway
<1>4. CASE Reload(t)
  BY <1>4, StartKeeps DEF Reload, In, feedVars, storeVars
<1> QED
  BY <1>1, <1>2, <1>3, <1>4 DEF Home

\* Every step preserves the invariant.
LEMMA HomeNextInv == HomeInv /\ service # "home" /\ [HomeNext]_appVars => HomeInv'
<1> SUFFICES ASSUME HomeInv, service # "home", [HomeNext]_appVars PROVE HomeInv'
  OBVIOUS
<1> USE DEF feedVars, storeVars, callVars, homeVars
<1>1. CASE HomeTick \/ FeedFlips \/ UNCHANGED appVars
  BY <1>1 DEF HomeInv, HomeTick, Tick, FeedFlips, appVars, In
<1>2. CASE Relaunch
  <2>1. Launch \in HomeTasks /\ task'[Launch].at = "initializing"
    BY <1>2 DEF Relaunch, HomeTasks, Starting, Resting
  <2>2. \A u \in HomeTasks : DOMAIN task'[u] = {"at", "left", "since"}
    BY <1>2 DEF Relaunch, Starting, Resting
  <2> QED
    BY <1>2, <2>1, <2>2 DEF HomeInv, Relaunch, Kill, Underway
<1>3. CASE LoadFromCache
  BY <1>3, CacheKeeps
<1>4. ASSUME NEW t \in Retries, Retry(t) PROVE HomeInv'
  <2>1. t \in HomeTasks /\ loading' = FALSE /\ "home" \in DOMAIN list'
    BY <1>4 DEF Retry, HomeTasks, SetList, HomeInv
  <2>2. /\ DOMAIN task' = HomeTasks /\ task'[t].at = "removing"
        /\ \A u \in HomeTasks : DOMAIN task'[u] = {"at", "left", "since"}
    BY <1>4, <2>1 DEF Retry, HomeInv
  <2> QED
    BY <2>1, <2>2 DEF HomeInv, Underway
<1>5. ASSUME NEW t \in HomeTasks, Home(t) PROVE HomeInv'
  BY <1>5, TaskKeeps
<1> QED
  BY <1>1, <1>2, <1>3, <1>4, <1>5 DEF HomeNext

\* The service that a behaviour follows is one of the three, and stays it.
LEMMA ServiceStays ==
  /\ HomeInit => service # "home"
  /\ service # "home" /\ [HomeNext]_appVars => service' # "home"
<1>1. HomeInit => service # "home"
  BY CachesAssumption DEF HomeInit, FeedInit
<1>2. [HomeNext]_appVars => service' = service
  BY DEF HomeNext, appVars, feedVars, HomeTick, Tick, Relaunch, Kill, FeedFlips, LoadFromCache,
         Retry, Home, Loaded, StampLoaded, RemoveKey, Reload
<1> QED
  BY <1>1, <1>2

\* With nothing under way the next launch shows what the user last saw,
\* whatever loads, refreshes and kills have overlapped.
THEOREM ScreenAgrees == HomeSpec => []ScreenIsStored
<1> DEFINE I == HomeInv /\ service # "home"
<1>1. HomeInit => I
  BY HomeInitInv, ServiceStays
<1>2. I /\ [HomeNext]_appVars => I'
  BY HomeNextInv, ServiceStays
<1>3. I => ScreenIsStored
  BY DEF HomeInv, ScreenIsStored, In, Underway
<1> QED
  BY <1>1, <1>2, <1>3, PTL DEF HomeSpec

(* What the launch and the refreshes keep true of the screen's two keys: a  *)
(* list that waits for its timestamp is still the stored one, or a later    *)
(* one, or an empty or no list is stored; and no call of a service is under *)
(* way, so the services' keys stay absent.                                  *)
HomeKeys ==
  /\ HomeTypeOK
  /\ \A t \in HomeTasks :
       /\ In(t, "removing") => task[t].left # <<>>
       /\ In(t, "stamping") =>
            /\ task[t].since <= now /\ now <= task[t].since + 1
            /\ list["home"] \in Times => task[t].since <= list["home"]
  /\ list["home"] \in Times => list["home"] <= now
  /\ stamp["home"] # Null => stamp["home"] <= now
  /\ list["home"] \in Times /\ stamp["home"] # Null
       => stamp["home"] <= list["home"] + 1
  /\ \A o \in Owners \ {"home"} : list[o] = Null
  /\ answer.sure = FALSE

\* A state of a task, as HomeTypeOK has it.
TaskType == [at : {"idle", "initializing", "loading", "stamping", "removing", "refreshing"},
             left : Seq({"list", "stamp"} \X Owners), since : Times]

\* The launch and the resting task are such states.
LEMMA TasksAreTyped ==
  /\ Resting \in TaskType /\ Starting \in TaskType
  /\ Resting.at = "idle" /\ Starting.at = "initializing"
<1>1. 0 \in Times
  BY CachesAssumption DEF Times
<1>2. <<>> \in Seq({"list", "stamp"} \X Owners)
  OBVIOUS
<1> QED
  BY <1>1, <1>2 DEF Resting, Starting, TaskType

\* Initially both keys are absent.
LEMMA HomeInitKeys == HomeInit => HomeKeys
<1> SUFFICES ASSUME HomeInit PROVE HomeKeys
  OBVIOUS
<1>1. FeedTypeOK
  BY FeedInitInv DEF HomeInit, FeedInv
<1>2. \A t \in HomeTasks : task[t] \in TaskType /\ task[t].at \in {"idle", "initializing"}
  BY TasksAreTyped DEF HomeInit
<1>3. task \in [HomeTasks -> TaskType] /\ DOMAIN task = HomeTasks
  BY <1>2 DEF HomeInit
<1>4. HomeTypeOK
  BY <1>1, <1>3 DEF HomeInit, HomeTypeOK, TaskType, Lists
<1>5. /\ \A o \in Owners : list[o] = Null /\ stamp[o] = Null
      /\ "home" \in Owners /\ answer.sure = FALSE
  BY DEF HomeInit, FeedInit, Owners
<1>6. Null \notin Times
  BY TimesFact
<1> QED
  BY <1>2, <1>4, <1>5, <1>6 DEF HomeKeys, In

\* Task t, and no other, went on, to a state of its type.
Goes(t) == /\ task' \in [HomeTasks -> TaskType]
           /\ \A u \in HomeTasks : u # t => task'[u] = task[u]

\* Where a task moves, or rests, it keeps its type.
LEMMA TaskGoes ==
  ASSUME HomeKeys, NEW t \in HomeTasks
  PROVE  /\ \A place \in {"idle", "initializing", "loading", "stamping", "removing", "refreshing"} :
               Move(t, place) => Goes(t) /\ task'[t].at = place
         /\ Rest(t) => Goes(t) /\ task'[t].at = "idle"
<1>1. task \in [HomeTasks -> TaskType]
  BY DEF HomeKeys, HomeTypeOK, TaskType
<1>2. ASSUME Rest(t) PROVE Goes(t) /\ task'[t].at = "idle"
  BY <1>1, <1>2, TasksAreTyped DEF Rest, Goes
<1>3. ASSUME NEW place \in {"idle", "initializing", "loading", "stamping", "removing", "refreshing"},
             Move(t, place)
      PROVE  Goes(t) /\ task'[t].at = place
  <2> DEFINE new == [task[t] EXCEPT !.at = place]
  <2>1. task' = [task EXCEPT ![t] = new]
    BY <1>3 DEF Move
  <2>2. new \in TaskType /\ new.at = place
    BY <1>1 DEF TaskType
  <2> HIDE DEF new
  <2> QED
    BY <1>1, <2>1, <2>2 DEF Goes
<1> QED
  BY <1>2, <1>3

\* A step that leaves the keys and the clock alone and starts no write.
LEMMA QuietKeys ==
  ASSUME HomeKeys, NEW t \in HomeTasks, Goes(t),
         task'[t].at \notin {"removing", "stamping"}, UNCHANGED <<feedVars, up>>,
         servers' \in Lists, loading' \in BOOLEAN
  PROVE  HomeKeys'
<1>1. UNCHANGED <<now, list, stamp, answer>>
  BY DEF feedVars, storeVars, callVars
<1>2. FeedTypeOK'
  BY DEF HomeKeys, HomeTypeOK, FeedTypeOK, feedVars, storeVars, callVars
<1>3. HomeTypeOK'
  BY <1>2 DEF HomeKeys, HomeTypeOK, Goes, TaskType
<1>4. \A u \in HomeTasks : u # t => task'[u] = task[u]
  BY DEF Goes
<1> QED
  BY <1>1, <1>3, <1>4 DEF HomeKeys, In

\* A load that is asked for: this task loads, or rests.
LEMMA StartGoes ==
  ASSUME HomeKeys, NEW t \in HomeTasks, StartLoading(t)
  PROVE  /\ Goes(t) /\ task'[t].at \in {"idle", "loading"}
         /\ loading' \in BOOLEAN
  BY TaskGoes DEF StartLoading, HomeKeys, HomeTypeOK

\* The launch takes a fresh list from the cache, or loads one.
LEMMA CacheKeepsKeys == HomeKeys /\ LoadFromCache => HomeKeys'
<1> SUFFICES ASSUME HomeKeys, LoadFromCache PROVE HomeKeys'
  OBVIOUS
<1>1. Launch \in HomeTasks /\ UNCHANGED <<feedVars, up>>
  BY DEF HomeTasks, LoadFromCache
<1>2. CASE Fresh("home")
  <2>1. list["home"] \in Lists
    BY <1>2 DEF Fresh, Usable, HomeKeys, HomeTypeOK, FeedTypeOK, Owners
  <2>2. servers' = list["home"] /\ loading' = FALSE /\ Rest(Launch)
    BY <1>2 DEF LoadFromCache
  <2> QED
    BY <1>1, <2>1, <2>2, TaskGoes, QuietKeys
<1>3. CASE ~Fresh("home")
  <2>1. StartLoading(Launch) /\ UNCHANGED servers
    BY <1>3 DEF LoadFromCache
  <2> QED
    BY <1>1, <2>1, StartGoes, QuietKeys DEF HomeKeys, HomeTypeOK
<1> QED
  BY <1>2, <1>3

\* A list loaded now is the newest of all.
LEMMA LoadedKeepsKeys ==
  ASSUME HomeKeys, NEW t \in HomeTasks, Loaded(t)
  PROVE  HomeKeys'
<1> DEFINE got == IF up THEN now ELSE NoServers
           new == [[task[t] EXCEPT !.at = "stamping"] EXCEPT !.since = now]
<1>1. /\ servers' = got /\ loading' = FALSE
      /\ list' = [list EXCEPT !["home"] = got]
      /\ task' = [task EXCEPT ![t] = new]
      /\ UNCHANGED <<now, service, stamp, call, sure, answer, kills, up>>
  BY DEF Loaded, SetList, callVars
<1>2. /\ now \in Times /\ now \in Nat /\ got \in Lists
      /\ got \in Times => got = now
      /\ "home" \in Owners
  BY TimesFact DEF HomeKeys, HomeTypeOK, FeedTypeOK, Lists, Owners
<1>3. /\ list' \in [Owners -> Lists \cup {Null}] /\ list'["home"] = got
      /\ \A o \in Owners \ {"home"} : list'[o] = list[o]
  BY <1>1, <1>2 DEF HomeKeys, HomeTypeOK, FeedTypeOK
<1>4. /\ task' \in [HomeTasks -> TaskType]
      /\ task'[t].at = "stamping" /\ task'[t].since = now
      /\ \A u \in HomeTasks : u # t => task'[u] = task[u]
  <2>1. task \in [HomeTasks -> TaskType]
    BY DEF HomeKeys, HomeTypeOK, TaskType
  <2>2. new \in TaskType /\ new.at = "stamping" /\ new.since = now
    BY <1>2, <2>1 DEF TaskType
  <2> HIDE DEF new
  <2> QED
    BY <1>1, <2>1, <2>2
<1>5. FeedTypeOK'
  BY <1>1, <1>3 DEF HomeKeys, HomeTypeOK, FeedTypeOK
<1>6. HomeTypeOK'
  BY <1>1, <1>2, <1>4, <1>5 DEF HomeKeys, HomeTypeOK, TaskType
<1> HIDE DEF got, new
<1>7. \A u \in HomeTasks :
        /\ task'[u].at = "removing" => task'[u].left # <<>>
        /\ task'[u].at = "stamping" =>
             /\ task'[u].since <= now /\ now <= task'[u].since + 1
             /\ got \in Times => task'[u].since <= got
  BY <1>2, <1>4 DEF HomeKeys, In
<1>8. got \in Times /\ stamp["home"] # Null => stamp["home"] <= got + 1
  <2> SUFFICES ASSUME stamp["home"] # Null, got = now PROVE stamp["home"] <= now + 1
    BY <1>2
  <2>1. stamp["home"] <= now /\ stamp["home"] \in Nat
    BY <1>2, TimesFact DEF HomeKeys, HomeTypeOK, FeedTypeOK
  <2> QED
    BY <1>2, <2>1
<1> QED
  BY <1>1, <1>2, <1>3, <1>6, <1>7, <1>8 DEF HomeKeys, In

\* The timestamp follows, within a unit of its list.
LEMMA StampKeepsKeys ==
  ASSUME HomeKeys, NEW t \in HomeTasks, StampLoaded(t)
  PROVE  HomeKeys'
<1>1. /\ In(t, "stamping") /\ Rest(t)
      /\ stamp' = [stamp EXCEPT !["home"] = now]
      /\ UNCHANGED <<now, service, list, call, sure, answer, kills, servers, loading, up>>
  BY DEF StampLoaded, SetStamp, callVars
<1>2. now \in Times /\ now \in Nat /\ "home" \in Owners
  BY TimesFact DEF HomeKeys, HomeTypeOK, FeedTypeOK, Owners
<1>3. stamp' \in [Owners -> Times \cup {Null}] /\ stamp'["home"] = now
  BY <1>1, <1>2 DEF HomeKeys, HomeTypeOK, FeedTypeOK
<1>4. /\ task' \in [HomeTasks -> TaskType] /\ task'[t].at = "idle"
      /\ \A u \in HomeTasks : u # t => task'[u] = task[u]
  BY <1>1, TaskGoes DEF Goes
<1>5. HomeTypeOK'
  BY <1>1, <1>3, <1>4 DEF HomeKeys, HomeTypeOK, FeedTypeOK, TaskType
<1>6. list["home"] \in Times => now <= list["home"] + 1
  <2> SUFFICES ASSUME list["home"] \in Times PROVE now <= list["home"] + 1
    OBVIOUS
  <2>1. task[t].since <= list["home"] /\ now <= task[t].since + 1
    BY <1>1 DEF HomeKeys
  <2>2. task[t].since \in Nat /\ list["home"] \in Nat
    BY TimesFact DEF HomeKeys, HomeTypeOK
  <2> QED
    BY <1>2, <2>1, <2>2
<1>7. \A u \in HomeTasks :
        /\ task'[u].at = "removing" => task'[u].left # <<>>
        /\ task'[u].at = "stamping" =>
             /\ task'[u].since <= now /\ now <= task'[u].since + 1
             /\ list["home"] \in Times => task'[u].since <= list["home"]
  BY <1>4 DEF HomeKeys, In
<1>8. now <= now
  BY <1>2
<1>9. /\ list["home"] \in Times => list["home"] <= now
      /\ \A o \in Owners \ {"home"} : list[o] = Null
      /\ answer.sure = FALSE
  BY DEF HomeKeys
<1> QED
  BY <1>1, <1>3, <1>5, <1>6, <1>7, <1>8, <1>9 DEF HomeKeys, In

\* The tap removes the stored list, and has keys left to remove.
LEMMA RetryKeepsKeys ==
  ASSUME HomeKeys, NEW t \in Retries, Retry(t)
  PROVE  HomeKeys'
<1> DEFINE new == [[task[t] EXCEPT !.at = "removing"] EXCEPT !.left = OtherKeys]
<1>1. /\ list' = [list EXCEPT !["home"] = Null]
      /\ task' = [task EXCEPT ![t] = new]
      /\ UNCHANGED <<now, service, stamp, call, sure, answer, kills, servers, loading, up>>
      /\ t \in HomeTasks
  BY DEF Retry, SetList, callVars, HomeTasks
<1>2. /\ "home" \in Owners /\ service \in Owners
      /\ OtherKeys \in Seq({"list", "stamp"} \X Owners) /\ OtherKeys # <<>>
  <2>1. "home" \in Owners /\ service \in Owners
    BY CachesAssumption DEF HomeKeys, HomeTypeOK, FeedTypeOK, Owners
  <2> QED
    BY <2>1 DEF OtherKeys
<1>3. /\ list' \in [Owners -> Lists \cup {Null}] /\ list'["home"] = Null
      /\ \A o \in Owners \ {"home"} : list'[o] = list[o]
  BY <1>1, <1>2 DEF HomeKeys, HomeTypeOK, FeedTypeOK
<1>4. /\ task' \in [HomeTasks -> TaskType]
      /\ task'[t].at = "removing" /\ task'[t].left # <<>>
      /\ \A u \in HomeTasks : u # t => task'[u] = task[u]
  <2>1. task \in [HomeTasks -> TaskType]
    BY DEF HomeKeys, HomeTypeOK, TaskType
  <2>2. new \in TaskType /\ new.at = "removing" /\ new.left # <<>>
    BY <1>1, <1>2, <2>1 DEF TaskType
  <2> HIDE DEF new
  <2> QED
    BY <1>1, <2>1, <2>2
<1>5. HomeTypeOK'
  BY <1>1, <1>3, <1>4 DEF HomeKeys, HomeTypeOK, FeedTypeOK, TaskType
<1>6. Null \notin Times
  BY TimesFact
<1> HIDE DEF new
<1> QED
  BY <1>1, <1>3, <1>4, <1>5, <1>6 DEF HomeKeys, In

\* The next of those keys goes, whosever it is.
LEMMA RemoveKeepsKeys ==
  ASSUME HomeKeys, NEW t \in HomeTasks, RemoveKey(t)
  PROVE  HomeKeys'
<1> DEFINE key == Head(task[t].left)
           rest == Tail(task[t].left)
           at == IF rest = <<>> THEN "refreshing" ELSE task[t].at
           new == [[task[t] EXCEPT !.left = rest] EXCEPT !.at = at]
<1>1. /\ IF key[1] = "list" THEN list' = [list EXCEPT ![key[2]] = Null] /\ UNCHANGED stamp
                            ELSE stamp' = [stamp EXCEPT ![key[2]] = Null] /\ UNCHANGED list
      /\ sure' = IF key[2] = service THEN {} ELSE sure
      /\ task' = [task EXCEPT ![t] = new]
      /\ UNCHANGED <<now, service, call, answer, kills, servers, loading, up>>
      /\ task[t].at = "removing"
  BY DEF RemoveKey, SetList, SetStamp, In
<1>2. /\ task \in [HomeTasks -> TaskType]
      /\ task[t].left \in Seq({"list", "stamp"} \X Owners) /\ task[t].left # <<>>
  BY <1>1 DEF HomeKeys, HomeTypeOK, TaskType, In
<1>3. /\ key \in {"list", "stamp"} \X Owners
      /\ rest \in Seq({"list", "stamp"} \X Owners)
  BY <1>2
<1>4. key[2] \in Owners
  BY <1>3
<1>5. /\ new \in TaskType /\ new.at \in {"refreshing", "removing"}
      /\ new.at = "removing" => new.left # <<>>
  BY <1>1, <1>2, <1>3 DEF TaskType
<1> HIDE DEF key, rest, at, new
<1>6. /\ task' \in [HomeTasks -> TaskType] /\ task'[t].at \in {"refreshing", "removing"}
      /\ task'[t].at = "removing" => task'[t].left # <<>>
      /\ \A u \in HomeTasks : u # t => task'[u] = task[u]
  BY <1>1, <1>2, <1>5
<1>7. /\ list' \in [Owners -> Lists \cup {Null}] /\ stamp' \in [Owners -> Times \cup {Null}]
      /\ \A o \in Owners : /\ list'[o] \in {list[o], Null}
                           /\ stamp'[o] \in {stamp[o], Null}
  BY <1>1, <1>4 DEF HomeKeys, HomeTypeOK, FeedTypeOK
<1>8. sure' \subseteq Calls
  BY <1>1 DEF HomeKeys, HomeTypeOK, FeedTypeOK
<1>9. HomeTypeOK'
  BY <1>1, <1>6, <1>7, <1>8 DEF HomeKeys, HomeTypeOK, FeedTypeOK, TaskType
<1>10. Null \notin Times /\ "home" \in Owners
  BY TimesFact DEF Owners
<1>11. \A u \in HomeTasks :
        /\ task'[u].at = "removing" => task'[u].left # <<>>
        /\ task'[u].at = "stamping" =>
             /\ task'[u].since <= now /\ now <= task'[u].since + 1
             /\ list'["home"] \in Times => task'[u].since <= list'["home"]
  BY <1>6, <1>7, <1>10 DEF HomeKeys, In
<1>12. /\ list'["home"] \in Times => list'["home"] <= now
       /\ list'["home"] \in Times /\ stamp'["home"] # Null => stamp'["home"] <= list'["home"] + 1
       /\ stamp'["home"] # Null => stamp'["home"] <= now
       /\ \A o \in Owners \ {"home"} : list'[o] = Null
  BY <1>7, <1>10 DEF HomeKeys
<1> QED
  BY <1>1, <1>9, <1>11, <1>12 DEF HomeKeys, In

\* Time passes, at most one unit while a list waits for its timestamp.
LEMMA HomeTickKeepsKeys == HomeKeys /\ HomeTick => HomeKeys'
<1> SUFFICES ASSUME HomeKeys, HomeTick PROVE HomeKeys'
  OBVIOUS
<1>1. /\ now' = now + 1 /\ now \in Nat /\ now' \in Times /\ now < now'
      /\ \A u \in HomeTasks : In(u, "stamping") => task[u].since = now
      /\ UNCHANGED <<service, list, stamp, call, sure, answer, kills, servers, loading, task, up>>
  BY CachesAssumption
     DEF HomeTick, Tick, HomeKeys, HomeTypeOK, FeedTypeOK, Times, storeVars, callVars, homeVars
<1>2. HomeTypeOK'
  BY <1>1 DEF HomeKeys, HomeTypeOK, FeedTypeOK
<1>3. \A u \in HomeTasks :
        In(u, "stamping") => task[u].since <= now' /\ now' <= task[u].since + 1
  BY <1>1
<1>4. list["home"] \in Times => list["home"] <= now'
  <2> SUFFICES ASSUME list["home"] \in Times PROVE list["home"] <= now'
    OBVIOUS
  <2>1. list["home"] \in Nat /\ list["home"] <= now
    BY TimesFact DEF HomeKeys
  <2> QED
    BY <1>1, <2>1
<1>5. stamp["home"] # Null => stamp["home"] <= now'
  <2>1. stamp["home"] # Null => stamp["home"] \in Nat
    BY TimesFact DEF HomeKeys, HomeTypeOK, FeedTypeOK, Owners
  <2> QED
    BY <1>1, <2>1 DEF HomeKeys
<1> QED
  BY <1>1, <1>2, <1>3, <1>4, <1>5 DEF HomeKeys, In

\* The process dies and is launched again: the keys stay.
LEMMA RelaunchKeepsKeys == HomeKeys /\ Relaunch => HomeKeys'
<1> SUFFICES ASSUME HomeKeys, Relaunch PROVE HomeKeys'
  OBVIOUS
<1>1. /\ call' = [c \in Calls |-> Idle] /\ sure' = {}
      /\ kills' = kills + 1 /\ kills < MaxKills
      /\ servers' = NoServers /\ loading' = FALSE
      /\ task' = [t \in HomeTasks |-> IF t = Launch THEN Starting ELSE Resting]
      /\ UNCHANGED <<now, service, list, stamp, answer, up>>
  BY DEF Relaunch, Kill, storeVars
<1>2. Idle \in CallType
  BY CachesAssumption DEF Idle, CallType, Places, Ops, Times, Lists
<1>3. kills' \in 0 .. MaxKills
  BY <1>1, CachesAssumption DEF HomeKeys, HomeTypeOK, FeedTypeOK
<1> HIDE DEF Idle
<1>4. FeedTypeOK'
  BY <1>1, <1>2, <1>3 DEF HomeKeys, HomeTypeOK, FeedTypeOK
<1>5. \A t \in HomeTasks : task'[t] \in TaskType /\ task'[t].at \in {"idle", "initializing"}
  BY <1>1, TasksAreTyped
<1>6. task' \in [HomeTasks -> TaskType]
  BY <1>1, <1>5
<1>7. HomeTypeOK'
  BY <1>1, <1>4, <1>6 DEF HomeKeys, HomeTypeOK, TaskType, Lists
<1> QED
  BY <1>1, <1>5, <1>7 DEF HomeKeys, In

\* Every step of the screen keeps its keys in order.
LEMMA HomeNextKeys == HomeKeys /\ [HomeNext]_appVars => HomeKeys'
<1> SUFFICES ASSUME HomeKeys, [HomeNext]_appVars PROVE HomeKeys'
  OBVIOUS
<1>1. CASE FeedFlips \/ UNCHANGED appVars
  <2>1. UNCHANGED <<feedVars, homeVars>> /\ up' \in BOOLEAN
    BY <1>1 DEF FeedFlips, appVars, HomeKeys, HomeTypeOK
  <2>2. HomeTypeOK'
    BY <2>1 DEF HomeKeys, HomeTypeOK, FeedTypeOK, feedVars, homeVars, storeVars, callVars
  <2> QED
    BY <2>1, <2>2 DEF HomeKeys, In, feedVars, homeVars, storeVars, callVars
<1>2. ASSUME NEW t \in HomeTasks, Reload(t) PROVE HomeKeys'
  <2>1. servers' \in Lists /\ UNCHANGED <<feedVars, up>> /\ StartLoading(t)
    BY <1>2 DEF Reload, Lists
  <2> QED
    BY <2>1, StartGoes, QuietKeys
<1> QED
  BY <1>1, <1>2, CacheKeepsKeys, LoadedKeepsKeys, StampKeepsKeys, RetryKeepsKeys,
     RemoveKeepsKeys, HomeTickKeepsKeys, RelaunchKeepsKeys DEF HomeNext, Home

\* The screen's state and its tasks keep their types: a refresh never runs
\* out of keys to remove, and a key it removes is one of the four stores'.
THEOREM HomeTypes == HomeSpec => []HomeTypeOK
<1>1. HomeKeys => HomeTypeOK
  BY DEF HomeKeys
<1> QED
  BY <1>1, HomeInitKeys, HomeNextKeys, PTL DEF HomeSpec

(* ------------------------ either user of the caches ---------------------- *)

\* A list within its window was stored within it, also on the screen.
LEMMA HomeIsRecent == HomeKeys => FreshIsRecent
<1> SUFFICES ASSUME HomeKeys, NEW o \in Owners, Fresh(o), list[o] # NoServers
             PROVE  Within(o, list[o], 1)
  BY DEF FreshIsRecent
<1>1. o = "home" /\ list[o] \in Times /\ stamp[o] \in Times
  BY DEF HomeKeys, HomeTypeOK, FeedTypeOK, Fresh, Usable, Lists
<1>2. list[o] \in Nat /\ stamp[o] \in Nat /\ now \in Nat /\ stamp[o] <= list[o] + 1
  BY <1>1, TimesFact DEF HomeKeys, HomeTypeOK, FeedTypeOK
<1>3. Window(o) \in Nat
  BY CachesAssumption DEF Window
<1> QED
  BY <1>1, <1>2, <1>3 DEF Fresh, Within

\* Whichever of the two a behaviour follows, the other keeps its first state.
ListsInv ==
  /\ user \in {"services", "home"}
  /\ user = "services" =>
       FeedInv /\ HomeTypeOK /\ In(Launch, "initializing")
  /\ user = "home" => HomeInv /\ HomeKeys /\ service # "home"

\* Of the services, all that the run checks; of the screen too.
LEMMA ListsInvSays ==
  ListsInv => /\ FeedTypeOK /\ FreshIsRecent /\ KeptListAnswers
              /\ HomeTypeOK /\ ScreenIsStored
<1>1. Launch \in HomeTasks
  BY DEF HomeTasks
<1> QED
  BY <1>1, FeedIsRecent, HomeIsRecent
     DEF ListsInv, FeedInv, HomeInv, HomeKeys, HomeTypeOK, KeptListAnswers, ScreenIsStored,
         In, Underway

\* Both users begin in order, and each of their steps keeps it so.
LEMMA ListsSteps ==
  /\ ListsInit => ListsInv
  /\ ListsInv /\ [ListsNext]_listsVars => ListsInv'
<1>1. ListsInit => ListsInv
  <2> SUFFICES ASSUME ListsInit PROVE ListsInv
    OBVIOUS
  <2>1. HomeInv /\ HomeKeys /\ service # "home" /\ FeedInv /\ HomeTypeOK
    BY HomeInitInv, HomeInitKeys, ServiceStays, FeedInitInv DEF ListsInit, HomeInit, HomeKeys
  <2>2. In(Launch, "initializing")
    BY TasksAreTyped DEF ListsInit, HomeInit, In, HomeTasks
  <2> QED
    BY <2>1, <2>2 DEF ListsInv, ListsInit
<1>2. ASSUME ListsInv, [ListsNext]_listsVars PROVE ListsInv'
  <2>1. user' = user /\ user \in {"services", "home"}
    BY <1>2 DEF ListsNext, listsVars, ListsInv
  <2>2. CASE user = "services"
    <3>1. [FeedNext]_feedVars /\ UNCHANGED <<homeVars, up>> /\ FeedInv
      BY <1>2, <2>2 DEF ListsNext, listsVars, appVars, ListsInv
    <3>2. FeedInv'
      BY <3>1, FeedNextInv
    <3>3. HomeTypeOK' /\ In(Launch, "initializing")'
      BY <1>2, <2>2, <3>1, <3>2 DEF ListsInv, HomeTypeOK, FeedInv, In, homeVars
    <3> QED
      BY <2>1, <2>2, <3>2, <3>3 DEF ListsInv
  <2>3. CASE user = "home"
    <3>1. [HomeNext]_appVars /\ HomeInv /\ HomeKeys /\ service # "home"
      BY <1>2, <2>3 DEF ListsNext, listsVars, ListsInv
    <3> QED
      BY <2>1, <2>3, <3>1, HomeNextInv, HomeNextKeys, ServiceStays DEF ListsInv
  <2> QED
    BY <2>1, <2>2, <2>3
<1> QED
  BY <1>1, <1>2

\* All that is checked of the caches, whoever uses them: types, a fresh list
\* sent within its window, a kept list that answers, a screen that shows what
\* the next launch loads.
THEOREM ListsSafe ==
  ListsSpec => [](/\ FeedTypeOK /\ FreshIsRecent /\ KeptListAnswers
                  /\ HomeTypeOK /\ ScreenIsStored)
BY ListsSteps, ListsInvSays, PTL DEF ListsSpec
=============================================================================
