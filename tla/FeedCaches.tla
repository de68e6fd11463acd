----------------------------- MODULE FeedCaches -----------------------------
(* The caching server services of lib/core/network: unified_vpn_service,    *)
(* vpngate_service and outline_service.  Each keeps a list of servers and   *)
(* the time it was stored under two keys of the preferences, answers from   *)
(* them within a window, and asks its endpoint otherwise.  The keys of two  *)
(* services differ, so a behaviour follows one service, any of Services.    *)
(*                                                                          *)
(* An hour is Hour units of the clock.  A list is the time at which the     *)
(* endpoint sent it, or NoServers.  A call is in one of the awaits named by *)
(* its `at`; a write takes effect in the turn that issues it, because the   *)
(* preferences answer reads from memory and keep the order of writes, and a *)
(* kill that loses a write on its way is a kill before that turn.           *)
EXTENDS Naturals

CONSTANTS
  Null,            \* an absent key
  NoServers,       \* an empty list
  Services,        \* the services considered
  Calls,           \* callers of the service, each reusable
  Hour,            \* one hour, in units of the clock
  Horizon,         \* bound of the clock
  MaxKills         \* bound: deaths of the process

Times == 0 .. Horizon
Lists == Times \cup {NoServers}
Owners == {"unified", "vpngate", "outline", "home"}

ASSUME CachesAssumption ==
  /\ Services \subseteq Owners \ {"home"}
  /\ Hour \in Nat \ {0} /\ Horizon \in Nat /\ MaxKills \in Nat
  /\ Null \notin Lists /\ NoServers \notin Times

VARIABLES
  now,             \* DateTime.now()
  service,         \* the service this behaviour follows
  list,            \* [owner -> its stored list, Null when absent]
  stamp,           \* [owner -> its stored timestamp, Null when absent]
  call,            \* [caller -> the call it has under way]
  sure,            \* callers whose cache was usable all along (history)
  answer,          \* the latest answer (history)
  kills

storeVars == <<list, stamp>>
callVars  == <<call, sure, answer>>
feedVars  == <<now, service, storeVars, callVars, kills>>

Ops == {"fetch", "refresh", "clear"}
Idle == [at |-> "idle", op |-> "fetch", since |-> 0, got |-> NoServers]

FeedInit ==
  /\ now = 0
  /\ service \in Services
  /\ list = [o \in Owners |-> Null] /\ stamp = [o \in Owners |-> Null]
  /\ call = [c \in Calls |-> Idle]
  /\ sure = {}
  /\ answer = [op |-> "fetch", list |-> NoServers, via |-> "none",
               since |-> 0, sure |-> FALSE]
  /\ kills = 0

(* ------------------------------ the cache ------------------------------- *)
\* _cacheDuration of the services, the validity of the home screen's list.
Window(o) == IF o = "vpngate" THEN 2 * Hour ELSE Hour

\* t is within o's window, or at most `slack` past it: the services compare
\* durations (> expires), the home screen whole hours (< keeps).
Within(o, t, slack) ==
  IF o = "home" THEN now - t < Window(o) + slack
                ELSE now - t <= Window(o) + slack

Usable(o) == list[o] # Null /\ stamp[o] # Null

Fresh(o) == Usable(o) /\ Within(o, stamp[o], 0)

\* What _parseServers makes of any CSV: it first deletes every control
\* character, line breaks included, and then needs two lines.
ParseCsv(l) == NoServers

\* What a stored list reads as.  VpnGateService stores CSV, the others JSON.
Stored(o) == IF o = "vpngate" THEN ParseCsv(list[o]) ELSE list[o]

\* _getCachedData() gives a list.
Hit(s) == Fresh(s) /\ (s = "unified" => Stored(s) # NoServers)

SetList(o, v) == list' = [list EXCEPT ![o] = v]
SetStamp(o, v) == stamp' = [stamp EXCEPT ![o] = v]

(* ------------------------------ one call -------------------------------- *)
At(c, place) == call[c].at = place
Wait(c, place) == call' = [call EXCEPT ![c].at = place]

Begin(c, op, place) ==
  call' = [call EXCEPT ![c] = [at |-> place, op |-> op, since |-> now,
                               got |-> NoServers]]

Answer(c, op, since, l, via) ==
  /\ call' = [call EXCEPT ![c] = Idle]
  /\ answer' = [op |-> op, list |-> l, via |-> via, since |-> since,
                sure |-> c \in sure]

Respond(c, l, via) == Answer(c, call[c].op, call[c].since, l, via)

\* Fault: an answer from the cache renews the timestamp.
FetchRenewing(c) ==
  /\ At(c, "idle")
  /\ IF Hit(service)
     THEN /\ Answer(c, "fetch", now, Stored(service), "window")
          /\ SetStamp(service, now)
     ELSE /\ Begin(c, "fetch", "asking")
          /\ UNCHANGED <<stamp, answer>>
  /\ UNCHANGED <<now, service, list, sure, kills>>

\* fetchAllServers, fetchServersFromVercel, fetchOutlineServers.
Fetch(c) ==
  /\ At(c, "idle")
  /\ IF Hit(service)
     THEN /\ Answer(c, "fetch", now, Stored(service), "window")
          /\ UNCHANGED sure
     ELSE /\ Begin(c, "fetch", "asking")
          /\ sure' = IF Usable(service) THEN sure \cup {c} ELSE sure \ {c}
          /\ UNCHANGED answer
  /\ UNCHANGED <<now, service, storeVars, kills>>

\* clearCache and forceRefresh first remove the list ...
Clear(c, op) ==
  /\ At(c, "idle")
  /\ SetList(service, Null)
  /\ Begin(c, op, "clearing")
  /\ sure' = {}
  /\ UNCHANGED <<now, service, stamp, answer, kills>>

\* Fault: the timestamp is blanked, not removed.
BlankStamp(c) ==
  /\ At(c, "clearing")
  /\ SetStamp(service, NoServers)
  /\ Wait(c, "cleared")
  /\ UNCHANGED <<now, service, list, sure, answer, kills>>

\* ... and then its timestamp.
ClearStamp(c) ==
  /\ At(c, "clearing")
  /\ SetStamp(service, Null)
  /\ IF call[c].op = "clear" THEN call' = [call EXCEPT ![c] = Idle]
                             ELSE Wait(c, "cleared")
  /\ sure' = {}
  /\ UNCHANGED <<now, service, list, answer, kills>>

\* forceRefresh goes on: unified asks its endpoint, the others fetch again.
Refetch(c) ==
  /\ At(c, "cleared")
  /\ IF service # "unified" /\ Hit(service)
     THEN Respond(c, Stored(service), "window")
     ELSE Wait(c, "asking") /\ UNCHANGED answer
  /\ UNCHANGED <<now, service, storeVars, sure, kills>>

\* Servers came: _cacheData stores the list, and next its timestamp.
ReplyServers(c) ==
  /\ At(c, "asking") \/ At(c, "again")
  /\ SetList(service, now)
  /\ call' = [call EXCEPT ![c].at = "stamping", ![c].got = now]
  /\ UNCHANGED <<now, service, stamp, sure, answer, kills>>

Stamp(c) ==
  /\ At(c, "stamping")
  /\ SetStamp(service, now)
  /\ Respond(c, call[c].got, "network")
  /\ UNCHANGED <<now, service, list, sure, kills>>

\* Fault: no look at the expired copy when the endpoint has nothing.
MissPlainly(c) ==
  IF service = "vpngate" THEN Wait(c, "csv") /\ UNCHANGED answer
                         ELSE Respond(c, NoServers, "network")

\* The endpoint gave nothing: unified's fetch falls back on the stored list,
\* expired or not; vpngate asks for the CSV feed.
Miss(c) ==
  \/ /\ service = "unified" /\ call[c].op = "fetch"
     /\ Respond(c, IF Usable(service) THEN Stored(service) ELSE NoServers,
                "stale")
  \/ /\ service = "vpngate"
     /\ Wait(c, "csv") /\ UNCHANGED answer
  \/ /\ service = "unified" => call[c].op # "fetch"
     /\ service # "vpngate"
     /\ Respond(c, NoServers, "network")

\* A 200 without servers: unified asks once more.
ReplyEmpty(c) ==
  /\ At(c, "asking") \/ At(c, "again")
  /\ IF service = "unified" /\ At(c, "asking")
     THEN Wait(c, "again") /\ UNCHANGED answer
     ELSE Miss(c)
  /\ UNCHANGED <<now, service, storeVars, sure, kills>>

\* Another status, an exception, a timeout: an empty list at once.
ReplyError(c) ==
  /\ At(c, "asking") \/ At(c, "again")
  /\ Miss(c)
  /\ UNCHANGED <<now, service, storeVars, sure, kills>>

\* The CSV feed, which parses to nothing whatever it sends.
ReplyCsv(c) ==
  /\ At(c, "csv")
  /\ Respond(c, ParseCsv(now), "network")
  /\ UNCHANGED <<now, service, storeVars, sure, kills>>

Call(c) ==
  \/ Fetch(c) \/ Clear(c, "refresh") \/ Clear(c, "clear")
  \/ ClearStamp(c) \/ Refetch(c)
  \/ ReplyServers(c) \/ ReplyEmpty(c) \/ ReplyError(c) \/ ReplyCsv(c)
  \/ Stamp(c)

(* ------------------------------ the rest -------------------------------- *)
\* A write is quick: the clock moves at most once while a list waits for its
\* timestamp.
Tick ==
  /\ now < Horizon
  /\ \A c \in Calls : At(c, "stamping") => call[c].got = now
  /\ now' = now + 1
  /\ UNCHANGED <<service, storeVars, callVars, kills>>

\* The process dies: the calls are gone, the keys stay.
Kill ==
  /\ kills < MaxKills
  /\ kills' = kills + 1
  /\ call' = [c \in Calls |-> Idle]
  /\ sure' = {}
  /\ UNCHANGED <<now, service, storeVars, answer>>

FeedNext == Tick \/ Kill \/ \E c \in Calls : Call(c)

FeedSpec == FeedInit /\ [][FeedNext]_feedVars

(* ------------------------------ properties ------------------------------ *)
Places == {"idle", "asking", "again", "csv", "stamping", "clearing",
           "cleared"}
Vias == {"none", "window", "stale", "network"}
CallType == [at : Places, op : Ops, since : Times, got : Lists]
AnswerType == [op : Ops, list : Lists, since : Times, sure : BOOLEAN,
               via : Vias]

\* Types of the keys and of the calls under way.
FeedTypeOK ==
  /\ now \in Times /\ service \in Services
  /\ list \in [Owners -> Lists \cup {Null}]
  /\ stamp \in [Owners -> Times \cup {Null}]
  /\ call \in [Calls -> CallType]
  /\ sure \subseteq Calls
  /\ answer \in AnswerType
  /\ kills \in 0 .. MaxKills

\* A list that counts as fresh was sent by its endpoint within the window,
\* give or take the time of one write, however saves, clears and kills
\* between the two keys interleave (_getCachedData, _loadServersFromCache).
FreshIsRecent ==
  \A o \in Owners :
    Fresh(o) /\ list[o] # NoServers => Within(o, list[o], 1)

\* No service ever stores an empty list: "Clear cache if no servers to avoid
\* persisting empty state" (unified_vpn_service.dart:243), and the
\* isNotEmpty tests of the other two.
NoEmptyStored == \A o \in Services : list[o] # NoServers

\* What forceRefresh answers was sent after it began: it bypasses the cache,
\* also when another call stores or clears beside it.
RefreshIsNew ==
  answer.op = "refresh" /\ answer.list # NoServers
    => answer.list >= answer.since

\* As long as nothing clears the cache of the unified service, a stored list
\* keeps its fetches from answering with no servers: "If unified API fails,
\* return cached data if available" (unified_vpn_service.dart:46).
KeptListAnswers ==
  service = "unified" /\ answer.op = "fetch" /\ answer.sure
    => answer.list # NoServers
=============================================================================
