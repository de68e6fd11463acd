---------------------------- MODULE HomeServers ----------------------------
(* The server list of lib/features/home/home_screen.dart: what a launch      *)
(* loads, the refresh button, and the two keys it caches the list under, on  *)
(* the same preferences as the services of FeedCaches, whose keys a refresh  *)
(* removes as well; nothing under lib/ calls those services yet, so no call  *)
(* of theirs is a step here.  A task is the launch or one tap on the button. *)
EXTENDS FeedCaches, Sequences, FiniteSets

CONSTANTS
  Launch,          \* the microtask of initState, once per process
  Retries          \* taps on "Hard refresh servers", each reusable

HomeTasks == Retries \cup {Launch}

ASSUME HomeAssumption == Launch \notin Retries

VARIABLES
  servers,         \* the list on the screen
  loading,         \* _loadingServers
  task,            \* [HomeTasks -> where the task is suspended]
  up               \* the VPN Gate feed answers with servers (environment)

homeVars == <<servers, loading, task>>
appVars  == <<feedVars, homeVars, up>>

Resting == [at |-> "idle", left |-> <<>>, since |-> 0]
Starting == [Resting EXCEPT !.at = "initializing"]

HomeInit ==
  /\ FeedInit
  /\ servers = NoServers /\ loading = FALSE
  /\ task = [t \in HomeTasks |-> IF t = Launch THEN Starting ELSE Resting]
  /\ up \in BOOLEAN

In(t, place) == task[t].at = place
Move(t, place) == task' = [task EXCEPT ![t].at = place]
Rest(t) == task' = [task EXCEPT ![t] = Resting]

(* ------------------------------ loading --------------------------------- *)
\* _loadServers(forceRefresh: true): nothing while another load runs.
StartLoading(t) ==
  IF loading THEN Rest(t) /\ UNCHANGED loading
             ELSE loading' = TRUE /\ Move(t, "loading")

\* _loadServersFromCache, after ctrl.init(): a fresh list goes on the screen.
LoadFromCache ==
  /\ In(Launch, "initializing")
  /\ IF Fresh("home")
     THEN servers' = list["home"] /\ loading' = FALSE /\ Rest(Launch)
     ELSE StartLoading(Launch) /\ UNCHANGED servers
  /\ UNCHANGED <<feedVars, up>>

\* Fault: a feed that gives nothing leaves the spinner on.
LoadedUnlessEmpty(t) ==
  /\ In(t, "loading")
  /\ LET got == IF up THEN now ELSE NoServers IN
       /\ servers' = got
       /\ loading' = (got = NoServers)
       /\ SetList("home", got)
       /\ task' = [task EXCEPT ![t].at = "stamping", ![t].since = now]
  /\ UNCHANGED <<now, service, stamp, callVars, kills, up>>

\* getVPNServers() answers, an empty list when anything went wrong: the list
\* is shown and, empty or not, stored; its timestamp follows.
Loaded(t) ==
  /\ In(t, "loading")
  /\ LET got == IF up THEN now ELSE NoServers IN
       /\ servers' = got
       /\ loading' = FALSE
       /\ SetList("home", got)
       /\ task' = [task EXCEPT ![t].at = "stamping", ![t].since = now]
  /\ UNCHANGED <<now, service, stamp, callVars, kills, up>>

StampLoaded(t) ==
  /\ In(t, "stamping")
  /\ SetStamp("home", now)
  /\ Rest(t)
  /\ UNCHANGED <<now, service, list, callVars, kills, servers, loading, up>>

(* ------------------------------ refresh --------------------------------- *)
\* The keys _retryLoadServers removes one by one after 'cached_servers'; of
\* the services' keys, those of the service this behaviour follows.
OtherKeys == <<<<"stamp", "home">>, <<"list", service>>, <<"stamp", service>>>>

\* _retryLoadServers, on a button that is off while _loadingServers.
Retry(t) ==
  /\ In(t, "idle") /\ ~ loading
  /\ SetList("home", Null)
  /\ task' = [task EXCEPT ![t].at = "removing", ![t].left = OtherKeys]
  /\ UNCHANGED <<now, service, stamp, callVars, kills, servers, loading, up>>

\* Fault: a timestamp is blanked, not removed.
BlankKey(t) ==
  /\ In(t, "removing")
  /\ LET key == Head(task[t].left)
         rest == Tail(task[t].left) IN
       /\ IF key[1] = "list" THEN SetList(key[2], Null) /\ UNCHANGED stamp
                             ELSE SetStamp(key[2], NoServers) /\ UNCHANGED list
       /\ task' = [task EXCEPT ![t].left = rest,
                     ![t].at = IF rest = <<>> THEN "refreshing" ELSE @]
  /\ UNCHANGED <<now, service, callVars, kills, servers, loading, up>>

\* The next key is removed; after the last, ctrl.refreshStage() is awaited.
RemoveKey(t) ==
  /\ In(t, "removing")
  /\ LET key == Head(task[t].left)
         rest == Tail(task[t].left) IN
       /\ IF key[1] = "list" THEN SetList(key[2], Null) /\ UNCHANGED stamp
                             ELSE SetStamp(key[2], Null) /\ UNCHANGED list
       /\ sure' = IF key[2] = service THEN {} ELSE sure
       /\ task' = [task EXCEPT ![t].left = rest,
                     ![t].at = IF rest = <<>> THEN "refreshing" ELSE @]
  /\ UNCHANGED <<now, service, call, answer, kills, servers, loading, up>>

\* Fault: the list on the screen is neither reset nor replaced by force.
ReloadUnforced(t) ==
  /\ In(t, "refreshing")
  /\ IF servers = NoServers THEN StartLoading(t) ELSE Rest(t) /\ UNCHANGED loading
  /\ UNCHANGED <<feedVars, servers, up>>

\* The list is reset and loaded anew.
Reload(t) ==
  /\ In(t, "refreshing")
  /\ servers' = NoServers
  /\ StartLoading(t)
  /\ UNCHANGED <<feedVars, up>>

(* ------------------------------ everything ------------------------------ *)
Home(t) == Loaded(t) \/ StampLoaded(t) \/ RemoveKey(t) \/ Reload(t)

\* As Tick of FeedCaches, for the home screen's timestamp too.
HomeTick ==
  /\ \A t \in HomeTasks : In(t, "stamping") => task[t].since = now
  /\ Tick
  /\ UNCHANGED <<homeVars, up>>

\* The process dies and is launched again.
Relaunch ==
  /\ Kill
  /\ servers' = NoServers /\ loading' = FALSE
  /\ task' = [t \in HomeTasks |-> IF t = Launch THEN Starting ELSE Resting]
  /\ UNCHANGED up

FeedFlips == up' = ~ up /\ UNCHANGED <<feedVars, homeVars>>

HomeNext ==
  \/ HomeTick \/ Relaunch \/ FeedFlips
  \/ LoadFromCache
  \/ \E t \in Retries : Retry(t)
  \/ \E t \in HomeTasks : Home(t)

HomeSpec == HomeInit /\ [][HomeNext]_appVars

\* The event loop runs what is ready, and a feed that is up answers; the
\* request of getVPNServers has no timeout, so nothing is said of one that
\* is down.
HomeFairness ==
  /\ WF_appVars(LoadFromCache)
  /\ \A t \in HomeTasks : WF_appVars(Home(t) /\ (In(t, "loading") => up))

HomeFairSpec == HomeSpec /\ HomeFairness

(* ------------------------------ properties ------------------------------ *)
\* Types of the screen's state and of its tasks.
HomeTypeOK ==
  /\ FeedTypeOK
  /\ servers \in Lists /\ loading \in BOOLEAN /\ up \in BOOLEAN
  /\ task \in [HomeTasks -> [at : {"idle", "initializing", "loading",
                                  "stamping", "removing", "refreshing"},
                            left : Seq({"list", "stamp"} \X Owners),
                            since : Times]]

\* When nothing is under way, the list on the screen is the stored one: what
\* the next launch loads is what the user last saw (_cacheServers stores what
\* _loadServers showed, a refresh clears both).
ScreenIsStored ==
  (\A t \in HomeTasks : In(t, "idle")) => servers = list["home"]

\* While the feed stays up, an empty screen with a refresh or a load under
\* way gets servers, also when the load a refresh asks for is refused because
\* another is running ("No servers available - tap refresh to retry",
\* home_screen.dart:626).
RefreshRecovers ==
  \A n \in 0 .. MaxKills :
    (/\ servers = NoServers /\ kills = n
     /\ loading \/ \E t \in Retries : In(t, "removing") \/ In(t, "refreshing"))
      ~> (servers # NoServers \/ ~ up \/ kills # n)
=============================================================================
