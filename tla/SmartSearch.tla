---------------------------- MODULE SmartSearch ----------------------------
(* smart.StrategyFinder.NewDialer: races of tests over the DNS, the TLS and *)
(* the fallback strategies of a config, and the cache that remembers which  *)
(* strategy won: a map in memory, and the JSON file that smart-proxy keeps  *)
(* it in.  Calls follow one another; each may bring another config, and the *)
(* process may be killed and started again at any moment.                   *)
EXTENDS Naturals, Sequences, SequencesExt

CONSTANTS Configs,       \* records of three sequences: dns, tls and fallback
          System,        \* the DNS entry of the system's resolver
          Secure,        \* the DNS entries over TLS or HTTPS
          Malformed,     \* the DNS entries that no resolver can be made of
          Direct,        \* the TLS entry "", and what a config without TLS returns
          MaxCalls       \* bound: calls of NewDialer

Nothing == "none"
ASSUME SearchAssumption ==
  /\ MaxCalls \in Nat /\ Direct # Nothing
  /\ \A c \in Configs :
       /\ c = [dns |-> c.dns, tls |-> c.tls, fallback |-> c.fallback]
       /\ \A list \in {c.dns, c.tls, c.fallback} :
            list \in Seq(Range(list)) /\ Nothing \notin Range(list)

\* Strategies: what NewDialer found, and what is kept of it.
NoWinner == [dns |-> Nothing, tls |-> Nothing, fallback |-> Nothing]
Proxyless(d, t) == [dns |-> d, tls |-> t, fallback |-> Nothing]
Fallback(f) == [dns |-> Nothing, tls |-> Nothing, fallback |-> f]
Torn == Proxyless("torn", "torn")       \* a file that does not parse

\* newProxylessWinningConfig, newFallbackWinningConfig: a TLS entry "" is left out.
WinningConfig(s) == [s EXCEPT !.tls = IF @ = Direct THEN Nothing ELSE @]

Races == {"cached", "dns", "tls", "fallback"}

VARIABLES base,       \* whether the base dialer is a plain TCPDialer
          config,     \* the config of the call, ranked by the cache
          stage,      \* the race that runs, "putting" or "idle"
          calls,
          cancelled,  \* the context of the call is done
          entries,    \* the strategies that the race is over
          next,       \* how many of them were started
          ready,      \* whether waitCh lets the next one start
          tests,      \* where the test of each entry is
          arrived,    \* resultChan: entries whose result waits in it
          refused,    \* strategies that failed in this call
          winner,     \* the DNS entry that won, for the TLS race
          found,    \* NoWinner on an error, else the strategy returned
          searched,   \* whether this process has completed a search
          store,      \* whether the finder has a cache
          cache,      \* the winning strategy that is stored, or NoWinner
          file,       \* the one in the file: NoWinner if it is absent or empty
          flushed     \* whether the file has been written since the last Put

raceVars == <<entries, next, ready, tests, arrived>>
storeVars == <<store, cache, file, flushed>>
searchVars == <<base, config, stage, calls, cancelled, raceVars, refused, winner,
                found, searched, storeVars>>

\* A finder over some base dialer, with or without a cache.
Finder == base \in BOOLEAN /\ store \in BOOLEAN

SearchInit ==
  /\ Finder /\ config \in Configs
  /\ stage = "idle" /\ calls = 0 /\ cancelled = FALSE
  /\ entries = <<>> /\ next = 0 /\ ready = FALSE /\ tests = <<>> /\ arrived = <<>>
  /\ refused = {} /\ winner = Nothing /\ found = NoWinner /\ searched = FALSE
  /\ cache = NoWinner /\ file = NoWinner /\ flushed = TRUE

(* ------------------------------ raceTests -------------------------------- *)
\* The race over a list of strategies starts; an empty list has lost already.
Race(what, list) ==
  /\ stage' = what /\ entries' = list /\ next' = 0 /\ ready' = TRUE
  /\ tests' = [i \in DOMAIN list |-> "waiting"] /\ arrived' = <<>>

FindDNS(list) == Race("dns", list)
FindTLS(list) == Race("tls", list)
FindFallback(what, list) == Race(what, list)

Racing == stage \in Races

\* A server has shaken hands in some test and owes it the response.
Unanswered == \E i \in DOMAIN tests : tests[i] = "asking"

\* dnsConfigToResolver: one entry that is no good is an error of the whole list.
DnsConfigFails == stage = "dns" /\ Range(entries) \cap Malformed # {}

StartTest ==
  /\ Racing /\ ~DnsConfigFails /\ ready /\ next < Len(entries)
  /\ next' = next + 1
  /\ tests' = [tests EXCEPT ![next + 1] = "running"]
  /\ ready' = FALSE
  /\ UNCHANGED <<base, config, stage, calls, cancelled, entries, arrived, refused,
                 winner, found, searched, storeVars>>

\* 250 ms have passed since the last test started.
MaxWaitPasses ==
  /\ Racing /\ ~ready /\ next > 0 /\ ready' = TRUE
  /\ UNCHANGED <<base, config, stage, calls, cancelled, entries, next, tests,
                 arrived, refused, winner, found, searched, storeVars>>

\* What a resolver makes of a query: no response, an error or an answer of the
\* wrong shape, an address nobody can have, the name in another case, the truth.
Replies == {"lost", "malformed", "bogus", "otherCase", "honest"}
EvaluateAddressResponse(reply) == reply = "honest"
EvaluateCNAMEResponse(reply) == reply \in {"otherCase", "honest"}
LookupCNAME(cname) == cname # "lost"
EvaluateNetResolver(cname, reply) ==
  LookupCNAME(cname) /\ reply \in {"otherCase", "honest"}

\* The resolver of an entry, none for the system's, and whether it is secure.
NewDNSResolverFromEntry(e) ==
  [resolver |-> IF e = System THEN Nothing ELSE e, secure |-> e \in Secure]

\* testDNSResolver, given the replies to its two queries.
TestDNSResolver(r, reply, cname) ==
  IF r.resolver = Nothing THEN EvaluateNetResolver(cname, reply)
  ELSE /\ reply # "lost"
       /\ r.secure \/ (EvaluateAddressResponse(reply) /\ EvaluateCNAMEResponse(cname))

\* A test ends; its end is the end of the wait it started.
Ends(i, ok) ==
  /\ tests' = [tests EXCEPT ![i] = IF ok THEN "passed" ELSE "failed"]
  /\ arrived' = Append(arrived, i)
  /\ ready' = (ready \/ i = next)

\* A DNS entry is tested under a deadline, to its end.
TestResolver(i) ==
  /\ stage = "dns"
  /\ \E reply, cname \in Replies :
       Ends(i, TestDNSResolver(NewDNSResolverFromEntry(entries[i]), reply, cname))

\* No dialer can be made of the entry.
MakeDialerFromConfig(i) == stage # "dns" /\ Ends(i, FALSE)

\* testDialer: the dialer does not connect or does not shake hands, under a
\* deadline; or the request is under way.
TestDialer(i) ==
  /\ stage # "dns"
  /\ \/ Ends(i, FALSE)
     \/ tests' = [tests EXCEPT ![i] = "asking"] /\ UNCHANGED <<arrived, ready>>

TestGoes(i) ==
  /\ Racing /\ i \in DOMAIN tests /\ tests[i] = "running"
  /\ TestResolver(i) \/ MakeDialerFromConfig(i) \/ TestDialer(i)
  /\ UNCHANGED <<base, config, stage, calls, cancelled, entries, next, refused,
                 winner, found, searched, storeVars>>

\* The server takes the request and responds, or breaks the connection: no
\* deadline and no context bounds the wait for that.
Answered(i) ==
  /\ Racing /\ i \in DOMAIN tests /\ tests[i] = "asking"
  /\ \E ok \in BOOLEAN : Ends(i, ok)
  /\ UNCHANGED <<base, config, stage, calls, cancelled, entries, next, refused,
                 winner, found, searched, storeVars>>

(* ------------------------------- NewDialer ------------------------------- *)
\* promoteProxylessToFront: the first entry that is the cached one moves to the
\* front, the others stay as they were.
ToFront(list, e) ==
  IF e \notin Range(list) THEN list
  ELSE LET i == CHOOSE j \in DOMAIN list : list[j] = e /\ \A k \in 1 .. (j - 1) : list[k] # e
       IN <<e>> \o RemoveAt(list, i)

\* rankStrategiesFromCache: a cached fallback that the config still has comes
\* before everything; a cached proxyless strategy is moved to the front.
Exclusive(c) == store /\ cache.fallback \in Range(c.fallback)
Ranked(c) == IF Exclusive(c) \/ ~store THEN c
             ELSE [c EXCEPT !.dns = ToFront(@, cache.dns), !.tls = ToFront(@, cache.tls)]

\* parseConfig: an error, before the cache is looked at.
ParseFails ==
  /\ stage = "idle" /\ calls < MaxCalls /\ calls' = calls + 1
  /\ found' = NoWinner /\ searched' = FALSE
  /\ UNCHANGED <<base, config, stage, cancelled, raceVars, refused, winner, storeVars>>

NewDialer ==
  /\ stage = "idle" /\ calls < MaxCalls /\ calls' = calls + 1
  /\ \E c \in Configs :
       /\ config' = Ranked(c)
       /\ IF Exclusive(c) THEN FindFallback("cached", <<cache.fallback>>)
          ELSE FindDNS(Ranked(c).dns)
  /\ cancelled' = FALSE /\ refused' = {} /\ winner' = Nothing /\ found' = NoWinner
  /\ searched' = FALSE /\ UNCHANGED <<base, storeVars>>

CallerGivesUp ==
  /\ Racing /\ ~cancelled /\ cancelled' = TRUE
  /\ UNCHANGED <<base, config, stage, calls, raceVars, refused, winner, found, searched, storeVars>>

\* The call has its result; the races it leaves behind have no effect any more.
Finish(result, then) ==
  /\ stage' = then /\ found' = result /\ searched' = (then = "idle")
  /\ entries' = <<>> /\ next' = 0 /\ ready' = FALSE /\ tests' = <<>> /\ arrived' = <<>>
  /\ UNCHANGED winner
Return(result) == Finish(result, "idle") /\ UNCHANGED storeVars

\* JSONFileCache.Put: the entry in memory, and then the file.
Put(result) ==
  /\ Finish(result, "putting") /\ cache' = WinningConfig(result) /\ flushed' = FALSE
  /\ UNCHANGED <<store, file>>

\* Fault: an error leaves what is stored alone.
PersistWins(result) ==
  IF store /\ result # NoWinner THEN Put(result) ELSE Return(result)

\* Persist the potential winner: an error erases what is stored.
Persist(result) == IF store THEN Put(result) ELSE Return(result)

\* flushNoLock, in the call of Put: os.WriteFile empties the file and writes
\* it; an error is only printed, and may leave the file in any of its states.
Contents(result) == {file, NoWinner, Torn, result}
FlushNoLock ==
  /\ stage = "putting" /\ stage' = "idle" /\ searched' = TRUE
  /\ \/ file' = cache /\ flushed' = TRUE
     \/ file' \in Contents(cache) /\ UNCHANGED flushed
  /\ UNCHANGED <<base, config, calls, cancelled, raceVars, refused, winner, found,
                 store, cache>>

\* NewJSONFileCache: a file that does not parse is an error, and smart-proxy
\* then goes without a cache, so that nothing ever writes the file again.
NewJSONFileCache(content) ==
  /\ store' = (content # Torn)
  /\ cache' = IF content = Torn THEN NoWinner ELSE content

\* The process is killed, in the midst of a write it may be, and starts again.
Restart ==
  /\ store /\ calls > 0
  /\ file' \in (IF stage = "putting" THEN Contents(cache) ELSE {file})
  /\ NewJSONFileCache(file') /\ stage' = "idle" /\ found' = NoWinner /\ searched' = FALSE
  /\ entries' = <<>> /\ next' = 0 /\ ready' = FALSE /\ tests' = <<>> /\ arrived' = <<>>
  /\ cancelled' = FALSE /\ refused' = {} /\ winner' = Nothing /\ flushed' = TRUE
  /\ UNCHANGED <<base, config, calls>>

\* Fault: the fallbacks are for a DNS that does not work, not for a TLS.
TryFallbacksAfterDns ==
  IF config.fallback = <<>> \/ stage = "tls" THEN Persist(NoWinner)
  ELSE FindFallback("fallback", config.fallback) /\ UNCHANGED <<winner, found, searched, storeVars>>

\* newProxylessDialer has failed.
TryFallbacks ==
  IF config.fallback = <<>> THEN Persist(NoWinner)
  ELSE FindFallback("fallback", config.fallback) /\ UNCHANGED <<winner, found, searched, storeVars>>

\* The race of this stage has found nothing.
Lost ==
  \/ stage = "cached" /\ FindDNS(config.dns) /\ UNCHANGED <<winner, found, searched, storeVars>>
  \/ stage \in {"dns", "tls"} /\ TryFallbacks
  \/ stage = "fallback" /\ Persist(NoWinner)

\* The race of this stage was won by e.
Won(e) ==
  \/ stage = "cached" /\ Return(Fallback(e))
  \/ stage = "fallback" /\ Persist(Fallback(e))
  \/ stage = "tls" /\ Persist(Proxyless(winner, e))
  \/ /\ stage = "dns"
     /\ IF NewDNSResolverFromEntry(e).resolver = Nothing /\ ~base THEN TryFallbacks
        ELSE IF config.tls = <<>> THEN Persist(Proxyless(e, Direct))
        ELSE FindTLS(config.tls) /\ winner' = e /\ UNCHANGED <<found, searched, storeVars>>

TakeResult ==
  /\ Racing /\ arrived # <<>>
  /\ LET i == Head(arrived)
         lost == {j \in DOMAIN tests : tests[j] = "failed"} \ Range(Tail(arrived))
     IN /\ refused' = IF tests[i] = "failed" THEN refused \cup {entries[i]} ELSE refused
        /\ IF tests[i] = "passed" THEN Won(entries[i])
           ELSE IF lost = DOMAIN tests THEN Lost
           ELSE /\ arrived' = Tail(arrived)
                /\ UNCHANGED <<stage, entries, next, ready, tests, winner, found, searched, storeVars>>
  /\ UNCHANGED <<base, config, calls, cancelled>>

\* A list without entries, or a DNS list that fails, is an error before any race.
NoEntries ==
  /\ Racing /\ (entries = <<>> \/ DnsConfigFails) /\ Lost
  /\ UNCHANGED <<base, config, calls, cancelled, refused>>

SeeGivenUp ==
  /\ Racing /\ cancelled /\ Lost
  /\ UNCHANGED <<base, config, calls, cancelled, refused>>

SearchNext ==
  \/ ParseFails \/ NewDialer \/ FlushNoLock \/ Restart \/ CallerGivesUp \/ StartTest \/ MaxWaitPasses
  \/ TakeResult \/ NoEntries \/ SeeGivenUp
  \/ \E i \in DOMAIN tests : TestGoes(i) \/ Answered(i)

\* The timed part of a test ends, and the select goes on when it can, with the
\* context too: the other cases run out.  Nothing makes a server respond.
SearchFairness ==
  /\ WF_searchVars(StartTest) /\ WF_searchVars(MaxWaitPasses)
  /\ WF_searchVars(TakeResult) /\ WF_searchVars(NoEntries) /\ WF_searchVars(SeeGivenUp)
  /\ WF_searchVars(\E i \in DOMAIN tests : TestGoes(i)) /\ WF_searchVars(FlushNoLock)

SearchSpec == SearchInit /\ [][SearchNext]_searchVars
SearchFairSpec == SearchSpec /\ SearchFairness

(* ------------------------------- properties ------------------------------ *)
\* Types of the search's state.
SearchTypeOK ==
  /\ base \in BOOLEAN /\ stage \in Races \cup {"idle", "putting"} /\ calls \in 0 .. MaxCalls
  /\ cancelled \in BOOLEAN /\ ready \in BOOLEAN /\ next \in 0 .. Len(entries)
  /\ tests \in [DOMAIN entries -> {"waiting", "running", "asking", "passed", "failed"}]
  /\ Range(arrived) \subseteq DOMAIN tests
  /\ searched \in BOOLEAN /\ store \in BOOLEAN /\ flushed \in BOOLEAN

\* NewDialer returns when its context is cancelled; and without that too, unless
\* a server that has shaken hands never answers a test's request.  An error
\* means that there was nothing left to try: every fallback has failed its test
\* in this very call, and so have all DNS entries or all TLS entries, or one DNS
\* entry is malformed, or the system's resolver won over a base dialer that
\* cannot use it; unless its caller has given up.
NothingLeft ==
  /\ Range(config.fallback) \subseteq refused
  /\ \/ Range(config.dns) \subseteq refused
     \/ Range(config.dns) \cap Malformed # {}
     \/ config.tls # <<>> /\ Range(config.tls) \subseteq refused
     \/ ~base /\ System \in Range(config.dns) \ refused
SearchExhausts ==
  /\ cancelled ~> stage = "idle"
  /\ Racing ~> (stage = "idle" \/ []Unanswered)
  /\ [](stage = "idle" /\ searched /\ found = NoWinner /\ ~cancelled => NothingLeft)

\* After a search the cache names the strategy of the dialer that the call
\* returned, its TLS only when that is not "", and nothing after a search
\* without one: the next call with the same config resumes the fallback, or
\* tests that DNS entry and a TLS entry with a name first.  After "" it keeps
\* the order of the config, where an entry that has just failed may come first.
NextStartsThere ==
  IF found.fallback # Nothing THEN Exclusive(config)
  ELSE /\ ~Exclusive(config) /\ Ranked(config).dns[1] = found.dns
       /\ found.tls # Direct => Ranked(config).tls[1] = found.tls
CacheNamesWinner ==
  (store /\ stage = "idle" /\ searched) =>
    /\ cache.dns = found.dns /\ cache.fallback = found.fallback
    /\ cache.tls = found.tls \/ (cache.tls = Nothing /\ found.tls = Direct)
    /\ found # NoWinner => NextStartsThere
    /\ flushed => file = cache
=============================================================================
