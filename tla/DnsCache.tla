------------------------------ MODULE DnsCache -----------------------------
(* simpleLRUCacheResolver of x/smart: queries that run at once over one     *)
(* list of answers.  The lock is held by each of RemoveExpired, SearchCache *)
(* and AddToCache, and by nothing in between; time passes everywhere.       *)
EXTENDS Naturals, Sequences, FiniteSets, SequencesExt

CONSTANTS Queries,     \* queries that may be under way at once
          Keys,        \* name, type and class asked for, in canonical form
          Capacity,    \* numEntries
          Lifetime,    \* of an answer: 60 seconds
          MaxTime,     \* bound: the clock stops here
          MaxAsked     \* bound: queries ever made
ASSUME CacheAssumption ==
  Capacity \in Nat \ {0} /\ Lifetime \in Nat \ {0} /\ MaxTime \in Nat /\ MaxAsked \in Nat

Entry == [key : Keys, added : Nat, expire : Nat]

VARIABLES lru,         \* cache: entries, the most recently used one first
          clock,
          asked,       \* queries made so far
          at,          \* where each query is
          key,         \* what it asks for
          began,       \* the time it read before it locked
          served       \* entries that were returned from the cache, by query

dnsCacheVars == <<lru, clock, asked, at, key, began, served>>

DnsCacheInit ==
  /\ lru = <<>> /\ clock = 0 /\ asked = 0
  /\ at = [q \in Queries |-> "idle"] /\ key \in [Queries -> Keys]
  /\ began = [q \in Queries |-> 0] /\ served = [q \in Queries |-> <<>>]

Moves(q, from, to) == at[q] = from /\ at' = [at EXCEPT ![q] = to]

PassTime ==
  /\ clock < MaxTime /\ clock' = clock + 1
  /\ UNCHANGED <<lru, asked, at, key, began, served>>

\* Query(k), up to the clock that RemoveExpired reads.
Query(q) ==
  /\ asked < MaxAsked /\ asked' = asked + 1
  /\ Moves(q, "idle", "removing")
  /\ \E k \in Keys : key' = [key EXCEPT ![q] = k]
  /\ began' = [began EXCEPT ![q] = clock] /\ served' = [served EXCEPT ![q] = <<>>]
  /\ UNCHANGED <<lru, clock>>

\* The entries that have not expired, in their order.
RemoveExpired(q) ==
  /\ Moves(q, "removing", "searching")
  /\ LET kept == {i \in DOMAIN lru : lru[i].expire > began[q]}
     IN \E order \in [1 .. Cardinality(kept) -> kept] :
          /\ \A m, n \in DOMAIN order : m < n => order[m] < order[n]
          /\ lru' = [n \in DOMAIN order |-> lru[order[n]]]
  /\ UNCHANGED <<clock, asked, key, began, served>>

MoveToFront(i) == <<lru[i]>> \o RemoveAt(lru, i)

Hits(q) == {i \in DOMAIN lru : lru[i].key = key[q]}

\* Fault: the last entry of the key is returned.
SearchCacheOldest(q) ==
  /\ IF Hits(q) = {} THEN Moves(q, "searching", "asking") /\ UNCHANGED <<lru, served>>
     ELSE LET i == CHOOSE j \in Hits(q) : \A k \in Hits(q) : j >= k
          IN /\ Moves(q, "searching", "idle")
             /\ lru' = MoveToFront(i) /\ served' = [served EXCEPT ![q] = <<lru[i]>>]
  /\ UNCHANGED <<clock, asked, key, began>>

\* The first entry of the key is returned, however many there are.
SearchCache(q) ==
  /\ IF Hits(q) = {} THEN Moves(q, "searching", "asking") /\ UNCHANGED <<lru, served>>
     ELSE LET i == CHOOSE j \in Hits(q) : \A k \in Hits(q) : j <= k
          IN /\ Moves(q, "searching", "idle")
             /\ lru' = MoveToFront(i) /\ served' = [served EXCEPT ![q] = <<lru[i]>>]
  /\ UNCHANGED <<clock, asked, key, began>>

\* The resolver fails, answers with an error code, or with a response to keep.
ResolverAnswers(q) ==
  /\ \E to \in {"idle", "adding"} : Moves(q, "asking", to)
  /\ UNCHANGED <<lru, clock, asked, key, began, served>>

\* Fault: a full list grows.
AddToCacheGrowing(q) ==
  /\ Moves(q, "adding", "idle")
  /\ lru' = <<[key |-> key[q], added |-> clock, expire |-> clock + Lifetime]>> \o lru
  /\ UNCHANGED <<clock, asked, key, began, served>>

AddToCache(q) ==
  /\ Moves(q, "adding", "idle")
  /\ LET e == [key |-> key[q], added |-> clock, expire |-> clock + Lifetime]
         longer == <<e>> \o lru
     IN lru' = SubSeq(longer, 1, IF Len(longer) > Capacity THEN Capacity ELSE Len(longer))
  /\ UNCHANGED <<clock, asked, key, began, served>>

QueryGoesOn(q) == \/ Query(q) \/ RemoveExpired(q) \/ SearchCache(q)
                  \/ ResolverAnswers(q) \/ AddToCache(q)
DnsCacheNext == PassTime \/ \E q \in Queries : QueryGoesOn(q)
DnsCacheSpec == DnsCacheInit /\ [][DnsCacheNext]_dnsCacheVars

(* ------------------------------- properties ------------------------------ *)
\* Types of the cache's and of the queries' state; the list never outgrows
\* the array it was made with.
DnsCacheTypeOK ==
  /\ lru \in Seq(Entry) /\ Len(lru) <= Capacity
  /\ at \in [Queries -> {"idle", "removing", "searching", "asking", "adding"}]
  /\ key \in [Queries -> Keys]

\* An answer from the cache had not expired when its query began, although
\* nothing looks at the time again once the expired ones are removed; and of
\* the answers that queries at once have added for one name, the newest that
\* is there is returned.
ServedNewest ==
  /\ [](\A q \in Queries : \A i \in DOMAIN served[q] : served[q][i].expire > began[q])
  /\ [][\A q \in Queries : at[q] = "searching" /\ at'[q] = "idle" =>
          \A i \in DOMAIN lru : lru[i].key = key[q] => lru[i].added <= served'[q][1].added
       ]_dnsCacheVars
=============================================================================
