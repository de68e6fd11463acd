------------------------- MODULE VpnControllerProofs ------------------------
(* Theorems about VpnController for every set of callers and of servers,    *)
(* every ranking and every bound.  What it persists, unawaited and in the   *)
(* midst of other writes, is what it has in memory: each step sends writes  *)
(* that lead a key from its old value in memory to its new one (Leads), so  *)
(* that the youngest pending write of a key is always the value in memory,  *)
(* or the device has it already (DestinedIn).  The state connected is under *)
(* the session's clock (TimedInv).  The types hold, of memory, of the       *)
(* device and of the writes between them (TypeInv).  And a single attempt   *)
(* leaves no tunnel up behind a state that denies it (OrphanInv).           *)
EXTENDS VpnController, FiniteSetTheorems, SequenceTheorems, TLAPS

\* A sequence, whatever it holds.
IsSeq(s) == s \in Seq({s[i] : i \in DOMAIN s})

\* Destined, of any content d of the device and any writes w.
YoungestIn(w, i, key) == /\ i \in DOMAIN w /\ w[i].key = key
                         /\ \A j \in DOMAIN w : j > i => w[j].key # key
DestinedIn(d, w, key, val) ==
  /\ \A i \in DOMAIN w : YoungestIn(w, i, key) => w[i].val = val
  /\ (\A i \in DOMAIN w : w[i].key # key) => d[key] = val

\* A turn that sends puts takes key from the value old to the value new.
Leads(puts, key, old, new) ==
  /\ IsSeq(puts)
  /\ \/ old = new /\ \A i \in DOMAIN puts : puts[i].key # key
     \/ \E i \in DOMAIN puts : YoungestIn(puts, i, key) /\ puts[i].val = new

\* A sequence over any set is one.
LEMMA SeqIsSeq == ASSUME NEW S, NEW s \in Seq(S) PROVE IsSeq(s)
<1>1. \A i \in 1 .. Len(s) : s[i] \in {s[j] : j \in DOMAIN s}
  OBVIOUS
<1>2. Len(s) \in Nat /\ s \in [1 .. Len(s) -> {s[j] : j \in DOMAIN s}]
  BY <1>1
<1> QED
  BY <1>2 DEF IsSeq

\* The elements of a join are those of its parts, in order.
LEMMA JoinIsSeq ==
  ASSUME NEW s, NEW t, IsSeq(s), IsSeq(t)
  PROVE  /\ IsSeq(s \o t) /\ Len(s) \in Nat /\ Len(t) \in Nat
         /\ DOMAIN s = 1 .. Len(s) /\ DOMAIN t = 1 .. Len(t)
         /\ DOMAIN (s \o t) = 1 .. Len(s) + Len(t)
         /\ \A i \in 1 .. Len(s) : (s \o t)[i] = s[i]
         /\ \A i \in 1 .. Len(t) : (s \o t)[Len(s) + i] = t[i]
<1> DEFINE S == {s[i] : i \in DOMAIN s} \cup {t[i] : i \in DOMAIN t}
<1>1. s \in Seq(S) /\ t \in Seq(S)
  BY SeqMonotonic DEF IsSeq
<1> HIDE DEF S
<1>2. s \o t \in Seq(S)
  BY <1>1, ConcatProperties
<1>3. IsSeq(s \o t)
  BY <1>2, SeqIsSeq
<1> QED
  BY <1>1, <1>3

\* No write at all leaves a key where it is.
LEMMA LeadsNothing == \A key, val : Leads(<<>>, key, val, val)
<1>1. IsSeq(<<>>)
  BY EmptySeq, SeqIsSeq
<1> QED
  BY <1>1 DEF Leads

\* A write leads its key to its value.
LEMMA LeadsPut ==
  \A key, old, val, by : Leads(<<Put(key, val, by)>>, key, old, val)
<1> SUFFICES ASSUME NEW key, NEW old, NEW val, NEW by
             PROVE  Leads(<<Put(key, val, by)>>, key, old, val)
  OBVIOUS
<1> DEFINE w == <<Put(key, val, by)>>
<1>1. IsSeq(w)
  <2>1. w \in Seq({Put(key, val, by)})
    OBVIOUS
  <2> QED
    BY <2>1, SeqIsSeq
<1>2. YoungestIn(w, 1, key) /\ w[1].val = val /\ 1 \in DOMAIN w
  BY DEF YoungestIn, Put
<1> QED
  BY <1>1, <1>2 DEF Leads

\* A write of another key leaves a key where it is.
LEMMA LeadsOther ==
  \A key, other, old, val, by : key # other => Leads(<<Put(other, val, by)>>, key, old, old)
<1> SUFFICES ASSUME NEW key, NEW other, NEW old, NEW val, NEW by, key # other
             PROVE  Leads(<<Put(other, val, by)>>, key, old, old)
  OBVIOUS
<1>1. <<Put(other, val, by)>> \in Seq({Put(other, val, by)})
  OBVIOUS
<1>2. IsSeq(<<Put(other, val, by)>>)
  BY <1>1, SeqIsSeq
<1> QED
  BY <1>2 DEF Leads, Put

\* What two turns' writes do, their join does.
LEMMA LeadsJoin ==
  ASSUME NEW p, NEW q, NEW key, NEW a, NEW b, NEW c,
         Leads(p, key, a, b), Leads(q, key, b, c)
  PROVE  Leads(p \o q, key, a, c)
<1>1. IsSeq(p) /\ IsSeq(q)
  BY DEF Leads
<1> DEFINE m == Len(p)
           n == Len(q)
           w == p \o q
<1>2. /\ IsSeq(w) /\ m \in Nat /\ n \in Nat
      /\ DOMAIN p = 1 .. m /\ DOMAIN q = 1 .. n /\ DOMAIN w = 1 .. m + n
      /\ \A i \in 1 .. m : w[i] = p[i]
      /\ \A i \in 1 .. n : w[m + i] = q[i]
  BY <1>1, JoinIsSeq
<1>3. \A j \in 1 .. m + n : j > m => j - m \in 1 .. n /\ w[j] = q[j - m]
  <2> SUFFICES ASSUME NEW j \in 1 .. m + n, j > m PROVE j - m \in 1 .. n /\ w[j] = q[j - m]
    OBVIOUS
  <2>1. j - m \in 1 .. n /\ m + (j - m) = j
    BY <1>2
  <2> QED
    BY <1>2, <2>1
<1> HIDE DEF m, n, w
<1>4. CASE \E i \in DOMAIN q : YoungestIn(q, i, key) /\ q[i].val = c
  <2>1. PICK i \in DOMAIN q : YoungestIn(q, i, key) /\ q[i].val = c
    BY <1>4
  <2>2. m + i \in DOMAIN w /\ w[m + i] = q[i]
    BY <1>2, <2>1
  <2>3. ASSUME NEW j \in DOMAIN w, j > m + i PROVE w[j].key # key
    <3>1. j - m \in DOMAIN q /\ j - m > i /\ w[j] = q[j - m]
      BY <1>2, <1>3, <2>1, <2>3
    <3> QED
      BY <2>1, <3>1 DEF YoungestIn
  <2>4. YoungestIn(w, m + i, key) /\ w[m + i].val = c
    BY <2>1, <2>2, <2>3 DEF YoungestIn
  <2> QED
    BY <1>2, <2>2, <2>4 DEF Leads, w
<1>5. CASE b = c /\ \A i \in DOMAIN q : q[i].key # key
  <2>1. \A j \in DOMAIN w : j > m => w[j].key # key
    BY <1>2, <1>3, <1>5
  <2>2. CASE a = b /\ \A i \in DOMAIN p : p[i].key # key
    <3>1. \A j \in DOMAIN w : w[j].key # key
      BY <1>2, <2>1, <2>2
    <3> QED
      BY <1>2, <1>5, <2>2, <3>1 DEF Leads, w
  <2>3. CASE \E i \in DOMAIN p : YoungestIn(p, i, key) /\ p[i].val = b
    <3>1. PICK i \in DOMAIN p : YoungestIn(p, i, key) /\ p[i].val = b
      BY <2>3
    <3>2. i \in DOMAIN w /\ w[i] = p[i]
      BY <1>2, <3>1
    <3>3. ASSUME NEW j \in DOMAIN w, j > i PROVE w[j].key # key
      <4>1. j <= m => j \in DOMAIN p /\ w[j] = p[j]
        BY <1>2
      <4> QED
        BY <1>2, <2>1, <3>1, <3>3, <4>1 DEF YoungestIn
    <3>4. YoungestIn(w, i, key) /\ w[i].val = c
      BY <1>5, <3>1, <3>2, <3>3 DEF YoungestIn
    <3> QED
      BY <1>2, <3>2, <3>4 DEF Leads, w
  <2> QED
    BY <2>2, <2>3 DEF Leads
<1> QED
  BY <1>4, <1>5 DEF Leads
\* Writes that are sent take the key's destination along.
LEMMA SendDestines ==
  ASSUME NEW d, NEW w, NEW puts, NEW key, NEW old, NEW new,
         IsSeq(w), DestinedIn(d, w, key, old), Leads(puts, key, old, new)
  PROVE  IsSeq(w \o puts) /\ DestinedIn(d, w \o puts, key, new)
<1>1. IsSeq(puts)
  BY DEF Leads
<1> DEFINE m == Len(w)
           n == Len(puts)
           v == w \o puts
<1>2. /\ IsSeq(v) /\ m \in Nat /\ n \in Nat
      /\ DOMAIN w = 1 .. m /\ DOMAIN puts = 1 .. n /\ DOMAIN v = 1 .. m + n
      /\ \A i \in 1 .. m : v[i] = w[i]
      /\ \A i \in 1 .. n : v[m + i] = puts[i]
  BY <1>1, JoinIsSeq
<1>3. \A j \in 1 .. m + n : j > m => j - m \in 1 .. n /\ v[j] = puts[j - m]
  <2> SUFFICES ASSUME NEW j \in 1 .. m + n, j > m PROVE j - m \in 1 .. n /\ v[j] = puts[j - m]
    OBVIOUS
  <2>1. j - m \in 1 .. n /\ m + (j - m) = j
    BY <1>2
  <2> QED
    BY <1>2, <2>1
<1> HIDE DEF m, n, v
<1>4. CASE \E i \in DOMAIN puts : YoungestIn(puts, i, key) /\ puts[i].val = new
  <2>1. PICK i \in DOMAIN puts : YoungestIn(puts, i, key) /\ puts[i].val = new
    BY <1>4
  <2>2. m + i \in DOMAIN v /\ v[m + i] = puts[i] /\ v[m + i].key = key
    BY <1>2, <2>1 DEF YoungestIn
  <2>3. ASSUME NEW j \in DOMAIN v, YoungestIn(v, j, key) PROVE v[j].val = new
    <3>1. ~(m + i > j)
      BY <2>2, <2>3 DEF YoungestIn
    <3>2. j > m /\ j - m \in DOMAIN puts /\ v[j] = puts[j - m] /\ v[j].key = key
      BY <1>2, <1>3, <2>1, <3>1, <2>3 DEF YoungestIn
    <3>3. ~(j - m > i)
      BY <2>1, <3>2 DEF YoungestIn
    <3>4. j = m + i
      BY <1>2, <2>1, <3>1, <3>2, <3>3
    <3> QED
      BY <2>1, <2>2, <3>4
  <2> QED
    BY <1>2, <2>2, <2>3 DEF DestinedIn, v
<1>5. CASE old = new /\ \A i \in DOMAIN puts : puts[i].key # key
  <2>1. \A j \in DOMAIN v : j > m => v[j].key # key
    BY <1>2, <1>3, <1>5
  <2>2. ASSUME NEW j \in DOMAIN v, YoungestIn(v, j, key) PROVE v[j].val = new
    <3>1. j \in DOMAIN w /\ v[j] = w[j]
      BY <1>2, <2>1, <2>2 DEF YoungestIn
    <3>2. ASSUME NEW k \in DOMAIN w, k > j PROVE w[k].key # key
      <4>1. k \in DOMAIN v /\ v[k] = w[k]
        BY <1>2
      <4> QED
        BY <2>2, <3>2, <4>1 DEF YoungestIn
    <3>3. YoungestIn(w, j, key)
      BY <2>2, <3>1, <3>2 DEF YoungestIn
    <3> QED
      BY <1>5, <3>1, <3>3 DEF DestinedIn
  <2>3. ASSUME \A j \in DOMAIN v : v[j].key # key PROVE d[key] = new
    <3>1. \A j \in DOMAIN w : w[j].key # key
      BY <1>2, <2>3
    <3> QED
      BY <1>5, <3>1 DEF DestinedIn
  <2> QED
    BY <1>2, <2>2, <2>3 DEF DestinedIn, v
<1> QED
  BY <1>4, <1>5 DEF Leads

\* The oldest write reaches the device: the destination of a key stays.
LEMMA LandDestines ==
  ASSUME NEW d, NEW w, NEW key, NEW val, key \in DOMAIN d,
         IsSeq(w), w # <<>>, DestinedIn(d, w, key, val)
  PROVE  /\ IsSeq(Tail(w))
         /\ DestinedIn([d EXCEPT ![Head(w).key] = Head(w).val], Tail(w), key, val)
<1> DEFINE n == Len(w)
           v == Tail(w)
           e == [d EXCEPT ![Head(w).key] = Head(w).val]
           S == {w[i] : i \in DOMAIN w}
<1>1. w \in Seq(S)
  BY DEF IsSeq
<1>2. v \in Seq(S) /\ Len(v) = n - 1 /\ \A i \in 1 .. Len(v) : v[i] = w[i + 1]
  <2> HIDE DEF S
  <2> QED
    BY <1>1, HeadTailProperties
<1>3. /\ n \in Nat \ {0} /\ DOMAIN w = 1 .. n /\ DOMAIN v = 1 .. n - 1
      /\ \A i \in 1 .. n - 1 : v[i] = w[i + 1]
      /\ Head(w) = w[1]
  <2> HIDE DEF S
  <2> QED
    BY <1>1, <1>2
<1>4. IsSeq(v)
  <2> HIDE DEF S
  <2> QED
    BY <1>2, SeqIsSeq
<1>5. e[key] = IF w[1].key = key THEN w[1].val ELSE d[key]
  BY <1>3
<1> HIDE DEF n, v, e, S
<1>6. ASSUME NEW i \in DOMAIN v, YoungestIn(v, i, key) PROVE v[i].val = val
  <2>1. i + 1 \in DOMAIN w /\ v[i] = w[i + 1]
    BY <1>3, <1>6
  <2>2. ASSUME NEW j \in DOMAIN w, j > i + 1 PROVE w[j].key # key
    <3>1. j - 1 \in DOMAIN v /\ j - 1 > i /\ v[j - 1] = w[j]
      BY <1>3, <1>6, <2>2
    <3> QED
      BY <1>6, <3>1 DEF YoungestIn
  <2>3. YoungestIn(w, i + 1, key)
    BY <1>6, <2>1, <2>2 DEF YoungestIn
  <2> QED
    BY <2>1, <2>3 DEF DestinedIn
<1>7. ASSUME \A i \in DOMAIN v : v[i].key # key PROVE e[key] = val
  <2>1. ASSUME NEW j \in DOMAIN w, j > 1 PROVE w[j].key # key
    <3>1. j - 1 \in DOMAIN v /\ v[j - 1] = w[j]
      BY <1>3, <2>1
    <3> QED
      BY <1>7, <3>1
  <2>2. CASE w[1].key = key
    <3>1. YoungestIn(w, 1, key)
      BY <1>3, <2>1, <2>2 DEF YoungestIn
    <3> QED
      BY <1>3, <1>5, <2>2, <3>1 DEF DestinedIn
  <2>3. CASE w[1].key # key
    <3>1. \A j \in DOMAIN w : w[j].key # key
      BY <1>3, <2>1, <2>3
    <3> QED
      BY <1>5, <2>3, <3>1 DEF DestinedIn
  <2> QED
    BY <2>2, <2>3
<1> QED
  BY <1>4, <1>6, <1>7 DEF DestinedIn, v, e
(* ---------------------------- the controller ---------------------------- *)
\* The pending writes take the device to the state and the server in memory.
DestInv ==
  /\ IsSeq(writes) /\ "lastState" \in DOMAIN disk /\ "server" \in DOMAIN disk
  /\ DestinedIn(disk, writes, "lastState", lastState)
  /\ DestinedIn(disk, writes, "server", savedServer)

\* The state is the one persisted, and the first one when none is.
StateInv ==
  /\ lastState = Null => state = "disconnected"
  /\ initialized => state = IF lastState = Null THEN "disconnected" ELSE lastState

PersistInv == DestInv /\ StateInv

\* A turn that sends writes which lead both keys along.
LEMMA SentKeeps ==
  ASSUME PersistInv, NEW puts, Send(puts), StateInv',
         Leads(puts, "lastState", lastState, lastState'),
         Leads(puts, "server", savedServer, savedServer')
  PROVE  PersistInv'
<1>1. writes' = writes \o puts /\ disk' = disk
  BY DEF Send
<1>2. IsSeq(writes) /\ DestinedIn(disk, writes, "lastState", lastState)
                    /\ DestinedIn(disk, writes, "server", savedServer)
  BY DEF PersistInv, DestInv
<1>3. IsSeq(writes \o puts) /\ DestinedIn(disk, writes \o puts, "lastState", lastState')
  BY <1>2, SendDestines
<1>4. DestinedIn(disk, writes \o puts, "server", savedServer')
  BY <1>2, SendDestines
<1> QED
  BY <1>1, <1>3, <1>4 DEF PersistInv, DestInv

\* A turn that does not touch the state.
LEMMA StateStays ==
  StateInv /\ UNCHANGED <<state, lastState, initialized>> => StateInv'
  BY DEF StateInv

\* A turn that does not touch what is persisted.
LEMMA QuietKeeps ==
  PersistInv /\ UNCHANGED <<disk, writes, state, lastState, savedServer, initialized>> => PersistInv'
  BY DEF PersistInv, DestInv, StateInv

\* A turn that sends nothing.
LEMMA NothingSent ==
  PersistInv /\ Send(<<>>) /\ UNCHANGED <<state, lastState, savedServer, initialized>>
    => PersistInv'
<1> SUFFICES ASSUME PersistInv, Send(<<>>), UNCHANGED <<state, lastState, savedServer, initialized>>
             PROVE  PersistInv'
  OBVIOUS
<1>1. StateInv'
  BY StateStays DEF PersistInv
<1>2. Leads(<<>>, "lastState", lastState, lastState')
      /\ Leads(<<>>, "server", savedServer, savedServer')
  BY LeadsNothing
<1> QED
  BY <1>1, <1>2, SentKeeps

\* _set: the state, and the write that it sends if the state differs.
LEMMA SetKeeps ==
  ASSUME StateInv, NEW v \in States, SetState(v), initialized' = initialized
  PROVE  /\ StateInv'
         /\ Leads(SetPuts(v), "lastState", lastState, lastState')
         /\ \A x : Leads(SetPuts(v), "server", x, x)
<1>1. StateInv'
  BY ControllerAssumption DEF StateInv, SetState
<1>2. CASE state = v
  BY <1>1, <1>2, LeadsNothing DEF SetPuts, SetState
<1>3. CASE state # v
  <2>1. SetPuts(v) = <<Put("lastState", v, Null)>> /\ lastState' = v
    BY <1>3 DEF SetPuts, SetState
  <2> QED
    BY <1>1, <2>1, LeadsPut, LeadsOther
<1> QED
  BY <1>2, <1>3

\* _set alone.
LEMMA SetSent ==
  ASSUME PersistInv, NEW v \in States, SetState(v), Send(SetPuts(v)),
         UNCHANGED <<savedServer, initialized>>
  PROVE  PersistInv'
<1>1. StateInv' /\ Leads(SetPuts(v), "lastState", lastState, lastState')
        /\ \A x : Leads(SetPuts(v), "server", x, x)
  BY SetKeeps DEF PersistInv
<1>2. Leads(SetPuts(v), "server", savedServer, savedServer')
  BY <1>1
<1> QED
  BY <1>1, <1>2, SentKeeps

\* The end of a session sends its own key behind the writes of the turn.
LEMMA EndKeeps ==
  ASSUME PersistInv, NEW puts, NEW callers, IsSeq(callers), EndSession(puts, callers), StateInv',
         Leads(puts, "lastState", lastState, lastState'),
         Leads(puts, "server", savedServer, savedServer')
  PROVE  PersistInv'
<1> DEFINE ends == [i \in DOMAIN callers |-> Put("session", Null, callers[i])]
<1>1. IsSeq(ends)
  <2> DEFINE P == {Put("session", Null, callers[i]) : i \in DOMAIN callers}
  <2>1. Len(callers) \in Nat /\ DOMAIN callers = 1 .. Len(callers)
    BY DEF IsSeq
  <2>2. ends \in [1 .. Len(callers) -> P]
    BY <2>1
  <2>3. ends \in Seq(P)
    <3> HIDE DEF P, ends
    <3> QED
      BY <2>1, <2>2
  <2> HIDE DEF P, ends
  <2> QED
    BY <2>3, SeqIsSeq
<1>2. \A i \in DOMAIN ends : ends[i].key = "session"
  BY DEF Put
<1> HIDE DEF ends
<1>3. \A key, x : key # "session" => Leads(ends, key, x, x)
  BY <1>1, <1>2 DEF Leads
<1>4. /\ Leads(puts \o ends, "lastState", lastState, lastState')
      /\ Leads(puts \o ends, "server", savedServer, savedServer')
  BY <1>3, LeadsJoin
<1>5. Send(puts \o ends)
  BY DEF EndSession, ends
<1> QED
  BY <1>4, <1>5, SentKeeps

\* One or two callers are a sequence.
LEMMA Callers == \A t, u : IsSeq(<<t>>) /\ IsSeq(<<t, u>>)
<1> SUFFICES ASSUME NEW t, NEW u PROVE IsSeq(<<t>>) /\ IsSeq(<<t, u>>)
  OBVIOUS
<1>1. <<t>> \in Seq({t}) /\ <<t, u>> \in Seq({t, u})
  OBVIOUS
<1> QED
  BY <1>1, SeqIsSeq

\* _set and the end of the session in one turn.
LEMMA SetEnds ==
  ASSUME PersistInv, NEW v \in States, NEW callers, IsSeq(callers), SetState(v),
         EndSession(SetPuts(v), callers), UNCHANGED <<savedServer, initialized>>
  PROVE  PersistInv'
<1>1. StateInv' /\ Leads(SetPuts(v), "lastState", lastState, lastState')
        /\ \A x : Leads(SetPuts(v), "server", x, x)
  BY SetKeeps DEF PersistInv
<1>2. Leads(SetPuts(v), "server", savedServer, savedServer')
  BY <1>1
<1> QED
  BY <1>1, <1>2, EndKeeps

\* startSession sends its own key, or nothing, behind the writes of the turn.
LEMMA StartKeeps ==
  ASSUME PersistInv, NEW puts, NEW t, StartSession(puts, t), StateInv',
         Leads(puts, "lastState", lastState, lastState'),
         Leads(puts, "server", savedServer, savedServer')
  PROVE  PersistInv'
<1>1. CASE Send(puts)
  BY <1>1, SentKeeps
<1>2. CASE Send(puts \o <<Put("session", now, t)>>)
  <2>1. \A key, x : key # "session" => Leads(<<Put("session", now, t)>>, key, x, x)
    BY LeadsOther
  <2>2. /\ Leads(puts \o <<Put("session", now, t)>>, "lastState", lastState, lastState')
        /\ Leads(puts \o <<Put("session", now, t)>>, "server", savedServer, savedServer')
    BY <2>1, LeadsJoin
  <2> QED
    BY <1>2, <2>2, SentKeeps
<1> QED
  BY <1>1, <1>2 DEF StartSession

\* The server is adopted and its write sent behind those of the turn.
LEMMA PickKeeps ==
  ASSUME PersistInv, NEW t, NEW list, NEW puts, PickServer(t, list, puts), StateInv',
         Leads(puts, "lastState", lastState, lastState'),
         Leads(puts, "server", savedServer, savedServer)
  PROVE  PersistInv'
<1> DEFINE put == <<Put("server", Head(list), t)>>
<1>1. Leads(put, "lastState", lastState', lastState')
      /\ Leads(put, "server", savedServer, savedServer')
  BY LeadsOther, LeadsPut DEF PickServer
<1>2. Send(puts \o put)
  BY DEF PickServer
<1> HIDE DEF put
<1>3. Leads(puts \o put, "lastState", lastState, lastState')
  BY <1>1, LeadsJoin
<1>4. Leads(puts \o put, "server", savedServer, savedServer')
  BY <1>1, LeadsJoin
<1> QED
  BY <1>2, <1>3, <1>4, SentKeeps
\* connect() gives up.
LEMMA GiveUpKeeps ==
  ASSUME PersistInv, NEW t, GiveUp(t), initialized' = initialized
  PROVE  PersistInv'
<1>1. "failed" \in States
  BY DEF States
<1> QED
  BY <1>1, SetSent DEF GiveUp, serverVars

\* connect() goes on with a list of servers.
LEMMA NextServerKeeps ==
  ASSUME PersistInv, NEW t, NEW list, NextServer(t, list), initialized' = initialized
  PROVE  PersistInv'
<1>1. CASE PickServer(t, list, <<>>) /\ UNCHANGED stateVars
  <2>1. StateInv' /\ lastState' = lastState
    BY <1>1, StateStays DEF PersistInv, stateVars
  <2>2. /\ Leads(<<>>, "lastState", lastState, lastState')
        /\ Leads(<<>>, "server", savedServer, savedServer)
    BY <2>1, LeadsNothing
  <2> QED
    BY <1>1, <2>1, <2>2, PickKeeps
<1>2. CASE GiveUp(t)
  BY <1>2, GiveUpKeeps
<1> QED
  BY <1>1, <1>2 DEF NextServer

\* An attempt that returns false, or throws.
LEMMA FailedKeeps ==
  ASSUME PersistInv, NEW t, ReturnFalse(t) \/ Throw(t), initialized' = initialized
  PROVE  PersistInv'
<1>1. CASE Send(<<>>) /\ UNCHANGED <<stateVars, serverVars>>
  BY <1>1, NothingSent DEF stateVars, serverVars
<1> QED
  BY <1>1, NextServerKeeps, GiveUpKeeps DEF ReturnFalse, Throw

\* _set(connected) and startSession in one turn.
LEMMA SetStarts ==
  ASSUME PersistInv, NEW t, SetState("connected"), StartSession(SetPuts("connected"), t),
         UNCHANGED <<savedServer, initialized>>
  PROVE  PersistInv'
<1>1. "connected" \in States
  BY DEF States
<1>2. StateInv' /\ Leads(SetPuts("connected"), "lastState", lastState, lastState')
        /\ \A x : Leads(SetPuts("connected"), "server", x, x)
  BY <1>1, SetKeeps DEF PersistInv
<1>3. Leads(SetPuts("connected"), "server", savedServer, savedServer')
  BY <1>2
<1> QED
  BY <1>2, <1>3, StartKeeps

\* What is restored is what was persisted.
LEMMA RestoreKeeps ==
  ASSUME StateInv, NEW i, Restore(i)
  PROVE  StateInv' /\ UNCHANGED <<lastState, savedServer>>
  BY DEF StateInv, Restore

\* init() by either of its callers.
LEMMA InitKeeps ==
  ASSUME PersistInv, NEW i, InitEngineReady(i) \/ InitSessionEnded(i)
  PROVE  PersistInv'
<1>1. CASE InitSessionEnded(i)
  <2>1. StateInv' /\ UNCHANGED <<disk, writes, lastState, savedServer>>
    BY <1>1, RestoreKeeps DEF PersistInv, InitSessionEnded, vars
  <2> QED
    BY <2>1 DEF PersistInv, DestInv
<1>2. CASE InitEngineReady(i)
  <2>1. StateInv' /\ UNCHANGED <<lastState, savedServer>>
    BY <1>2, RestoreKeeps, StateStays DEF PersistInv, InitEngineReady, stateVars, serverVars
  <2>2. /\ Leads(<<>>, "lastState", lastState, lastState')
        /\ Leads(<<>>, "server", savedServer, savedServer')
    BY <2>1, LeadsNothing
  <2>3. CASE Send(<<>>)
    BY <2>1, <2>2, <2>3, SentKeeps
  <2>4. CASE EndSession(<<>>, <<i>>)
    BY <2>1, <2>2, <2>4, Callers, EndKeeps
  <2> QED
    BY <1>2, <2>3, <2>4 DEF InitEngineReady, Initialize
<1> QED
  BY <1>1, <1>2

\* The process ends: what is on the device is what the next one reads.
LEMMA KillKeeps == PersistInv /\ KillApp => PersistInv'
<1> SUFFICES ASSUME PersistInv, KillApp PROVE PersistInv'
  OBVIOUS
<1>1. /\ writes' = <<>> /\ disk' = disk
      /\ lastState' = disk["lastState"] /\ savedServer' = disk["server"]
      /\ state' = "disconnected" /\ initialized' = FALSE
  BY DEF KillApp, ForgetSession, LoseWrites
<1>2. IsSeq(<<>>)
  BY LeadsNothing DEF Leads
<1> QED
  BY <1>1, <1>2 DEF PersistInv, DestInv, StateInv, DestinedIn

\* disconnect(), called by a tap, by connectToServer or by the expiry.
LEMMA DisconnectKeeps ==
  ASSUME PersistInv, NEW t, TapDisconnect(t) \/ ExpireSession(t) \/ TapServer(t) \/ DisconnectEnded(t)
  PROVE  PersistInv'
<1>1. CASE TapDisconnect(t) \/ ExpireSession(t) \/ TapServer(t)
  <2>1. "disconnected" \in States /\ IsSeq(<<t>>) /\ IsSeq(<<t, Null>>)
    BY Callers DEF States
  <2>2. SetState("disconnected") /\ UNCHANGED <<savedServer, initialized>>
    BY <1>1 DEF TapDisconnect, ExpireSession, TapServer, BeginDisconnect, serverVars
  <2>4. CASE EndSession(SetPuts("disconnected"), <<t>>)
    BY <2>1, <2>2, <2>4, SetEnds
  <2>5. CASE EndSession(SetPuts("disconnected"), <<t, Null>>)
    BY <2>1, <2>2, <2>5, SetEnds
  <2> QED
    BY <1>1, <2>4, <2>5 DEF TapDisconnect, ExpireSession, TapServer, HandleSessionExpired
<1>2. CASE DisconnectEnded(t)
  <2>1. Send(<<Put("server", Null, t)>>) /\ savedServer' = Null /\ lastState' = lastState
        /\ StateInv'
    BY <1>2, StateStays DEF DisconnectEnded, stateVars, lifeVars, PersistInv
  <2>2. /\ Leads(<<Put("server", Null, t)>>, "lastState", lastState, lastState')
        /\ Leads(<<Put("server", Null, t)>>, "server", savedServer, savedServer')
    BY <2>1, LeadsPut, LeadsOther
  <2> QED
    BY <2>1, <2>2, SentKeeps
<1> QED
  BY <1>1, <1>2
\* The choices of a server, and the steps of an attempt.
LEMMA ChoiceKeeps ==
  ASSUME PersistInv, NEW t, TapConnect(t) \/ FetchReply(t) \/ SelectCleared(t)
  PROVE  PersistInv'
<1> USE DEF lifeVars, serverVars, stateVars
<1>1. "connecting" \in States
  BY DEF States
<1>2. ASSUME SetState("connecting"), initialized' = initialized
      PROVE  /\ Send(SetPuts("connecting")) /\ UNCHANGED serverVars => PersistInv'
             /\ \A list : PickServer(t, list, SetPuts("connecting")) => PersistInv'
  <2>1. StateInv' /\ Leads(SetPuts("connecting"), "lastState", lastState, lastState')
          /\ \A x : Leads(SetPuts("connecting"), "server", x, x)
    BY <1>1, <1>2, SetKeeps DEF PersistInv
  <2>2. \A list : PickServer(t, list, SetPuts("connecting")) => PersistInv'
    BY <2>1, PickKeeps
  <2> QED
    BY <1>1, <1>2, <2>2, SetSent
<1>3. CASE TapConnect(t)
  BY <1>2, <1>3 DEF TapConnect
<1>4. CASE FetchReply(t)
  BY <1>4, NextServerKeeps DEF FetchReply
<1>5. CASE SelectCleared(t)
  BY <1>2, <1>5 DEF SelectCleared
<1> QED
  BY <1>3, <1>4, <1>5

\* An attempt: adopted, prepared, dialed, polled, started and recorded.
LEMMA AttemptKeeps ==
  ASSUME PersistInv, NEW t, Attempt(t)
  PROVE  PersistInv'
<1> USE DEF lifeVars, serverVars, stateVars
<1>1. CASE ServerSaved(t)
  <2>1. CASE Throw(t)
    BY <1>1, <2>1, FailedKeeps DEF ServerSaved
  <2>2. CASE Send(<<>>) /\ UNCHANGED <<stateVars, serverVars>>
    BY <1>1, <2>2, NothingSent DEF ServerSaved
  <2> QED
    BY <1>1, <2>1, <2>2 DEF ServerSaved
<1>2. CASE PrepareThrows(t) \/ DialThrows(t)
  BY <1>2, FailedKeeps DEF PrepareThrows, DialThrows
<1>3. CASE Dial(t) \/ DialReturns(t) \/ AttemptRecorded(t)
  BY <1>3, QuietKeeps DEF Dial, DialReturns, AttemptRecorded, vars
<1>4. CASE PollConnected(t)
  <2>1. SetState("connected") /\ initialized' = initialized
    BY <1>4 DEF PollConnected
  <2>2. CASE StartSession(SetPuts("connected"), t) /\ UNCHANGED savedServer
    BY <2>1, <2>2, SetStarts
  <2>3. CASE /\ StartSession(SetPuts("connected") \o <<Put("server", target[t], t)>>, t)
             /\ savedServer' = target[t]
    <3> DEFINE put == <<Put("server", target[t], t)>>
    <3>1. "connected" \in States
      BY DEF States
    <3>2. StateInv' /\ Leads(SetPuts("connected"), "lastState", lastState, lastState')
            /\ Leads(SetPuts("connected"), "server", savedServer, savedServer)
      BY <2>1, <3>1, SetKeeps DEF PersistInv
    <3>3. Leads(put, "lastState", lastState', lastState')
          /\ Leads(put, "server", savedServer, savedServer')
      BY <2>3, LeadsPut, LeadsOther
    <3> HIDE DEF put
    <3>4. Leads(SetPuts("connected") \o put, "lastState", lastState, lastState')
      BY <3>2, <3>3, LeadsJoin
    <3>5. Leads(SetPuts("connected") \o put, "server", savedServer, savedServer')
      BY <3>2, <3>3, LeadsJoin
    <3>6. StartSession(SetPuts("connected") \o put, t)
      BY <2>3 DEF put
    <3> QED
      BY <3>2, <3>4, <3>5, <3>6, StartKeeps
  <2> QED
    BY <1>4, <2>2, <2>3 DEF PollConnected
<1>5. CASE AttemptStarted(t)
  <2>1. /\ Send(<<Put("server", target[t], t)>>) /\ savedServer' = target[t]
        /\ lastState' = lastState /\ StateInv'
    BY <1>5, StateStays DEF AttemptStarted, FinishStart, PersistInv
  <2>2. /\ Leads(<<Put("server", target[t], t)>>, "lastState", lastState, lastState')
        /\ Leads(<<Put("server", target[t], t)>>, "server", savedServer, savedServer')
    BY <2>1, LeadsPut, LeadsOther
  <2> QED
    BY <2>1, <2>2, SentKeeps
<1>6. CASE PollRound(t)
  <2>1. CASE ReturnFalse(t)
    BY <1>6, <2>1, FailedKeeps DEF PollRound
  <2>2. CASE Send(<<>>) /\ UNCHANGED <<stateVars, serverVars>>
    BY <1>6, <2>2, NothingSent DEF PollRound
  <2> QED
    BY <1>6, <2>1, <2>2 DEF PollRound
<1>7. CASE PollExhausted(t)
  BY <1>7, FailedKeeps DEF PollExhausted
<1> QED
  BY <1>1, <1>2, <1>3, <1>4, <1>5, <1>6, <1>7 DEF Attempt

\* The timers, refreshStage and the stages of the native side.
LEMMA ReportKeeps ==
  ASSUME PersistInv, NEW t,
         \/ CheckTimerFires(t) \/ CheckReplyDown(t) \/ CheckReplyUp(t)
         \/ RefreshReply(t) \/ ReportStarted(t) \/ RefreshEnded(t)
         \/ StageEvent(t) \/ StageReply(t) \/ StageEnded(t)
  PROVE  PersistInv'
<1> USE DEF lifeVars, serverVars, stateVars
<1>1. CASE \/ CheckTimerFires(t) \/ CheckReplyDown(t) \/ RefreshEnded(t)
           \/ StageEvent(t) \/ StageEnded(t)
  BY <1>1, QuietKeeps
     DEF CheckTimerFires, CheckReplyDown, RefreshEnded, StageEvent, StageEnded, vars
<1>2. CASE CheckReplyUp(t)
  BY <1>2, SetStarts DEF CheckReplyUp
<1>3. CASE ReportStarted(t)
  BY <1>3, NothingSent DEF ReportStarted, FinishStart
<1>4. "disconnected" \in States /\ IsSeq(<<t>>)
  BY Callers DEF States
<1>5. CASE RefreshReply(t)
  <2>1. UNCHANGED <<savedServer, initialized>>
    BY <1>5 DEF RefreshReply
  <2>2. CASE SetState("connected") /\ StartSession(SetPuts("connected"), t)
    BY <2>1, <2>2, SetStarts
  <2>3. CASE SetState("disconnected") /\ EndSession(SetPuts("disconnected"), <<t>>)
    BY <1>4, <2>1, <2>3, SetEnds
  <2>4. CASE Send(<<>>) /\ UNCHANGED stateVars
    BY <2>1, <2>4, NothingSent
  <2> QED
    BY <1>5, <2>2, <2>3, <2>4 DEF RefreshReply
<1>6. CASE StageReply(t)
  <2>1. UNCHANGED <<savedServer, initialized>>
    BY <1>6 DEF StageReply
  <2>2. CASE SetState("disconnected") /\ EndSession(SetPuts("disconnected"), <<t>>)
    BY <1>4, <2>1, <2>2, SetEnds
  <2>3. CASE Send(<<>>) /\ UNCHANGED stateVars
    BY <2>1, <2>3, NothingSent
  <2> QED
    BY <1>6, <2>2, <2>3 DEF StageReply
<1> QED
  BY <1>1, <1>2, <1>3, <1>5, <1>6

\* The platform applies a write.
LEMMA WriteKeeps == PersistInv /\ PrefsWrite => PersistInv'
<1> SUFFICES ASSUME PersistInv, PrefsWrite PROVE PersistInv'
  OBVIOUS
<1>1. /\ writes # <<>> /\ writes' = Tail(writes)
      /\ disk' = [disk EXCEPT ![Head(writes).key] = Head(writes).val]
      /\ UNCHANGED <<state, lastState, savedServer, initialized>>
  BY DEF PrefsWrite, Write, Land, ctlVars, stateVars, serverVars
<1>2. /\ IsSeq(writes) /\ "lastState" \in DOMAIN disk /\ "server" \in DOMAIN disk
      /\ DestinedIn(disk, writes, "lastState", lastState)
      /\ DestinedIn(disk, writes, "server", savedServer)
  BY DEF PersistInv, DestInv
<1>3. /\ IsSeq(writes')
      /\ DestinedIn(disk', writes', "lastState", lastState)
      /\ DestinedIn(disk', writes', "server", savedServer)
  BY <1>1, <1>2, LandDestines
<1>4. "lastState" \in DOMAIN disk' /\ "server" \in DOMAIN disk'
  BY <1>1, <1>2
<1> QED
  BY <1>1, <1>3, <1>4, StateStays DEF PersistInv, DestInv

\* The timeout gives up on a state that is still connecting.
LEMMA TimeoutKeeps == PersistInv /\ TimeoutFires => PersistInv'
<1> SUFFICES ASSUME PersistInv, TimeoutFires PROVE PersistInv'
  OBVIOUS
<1>1. "failed" \in States
  BY DEF States
<1>2. UNCHANGED <<savedServer, initialized>>
  BY DEF TimeoutFires, serverVars, lifeVars
<1>3. CASE SetState("failed") /\ Send(SetPuts("failed"))
  BY <1>1, <1>2, <1>3, SetSent
<1>4. CASE Send(<<>>) /\ UNCHANGED stateVars
  BY <1>2, <1>4, NothingSent DEF stateVars
<1> QED
  BY <1>3, <1>4 DEF TimeoutFires

\* Every step preserves the invariant.
LEMMA ControllerNextInv == PersistInv /\ [ControllerNext]_allVars => PersistInv'
<1> SUFFICES ASSUME PersistInv, [ControllerNext]_allVars PROVE PersistInv'
  OBVIOUS
<1>1. CASE Environment
  <2>1. CASE LaunchApp \/ TunnelMoves
    BY <2>1, QuietKeeps DEF LaunchApp, TunnelMoves, vars, stateVars, serverVars
  <2>2. ASSUME NEW t \in Resumes, BeginRefresh(t) PROVE PersistInv'
    BY <2>2, QuietKeeps DEF BeginRefresh, vars, stateVars
  <2> QED
    BY <1>1, <2>1, <2>2, KillKeeps, ChoiceKeeps, DisconnectKeeps DEF Environment
<1>2. CASE ExpireUnheard
  <2>1. EndSession(<<>>, <<Null>>) /\ UNCHANGED <<state, lastState, savedServer, initialized>>
    BY <1>2 DEF ExpireUnheard, ctlVars, stateVars, serverVars
  <2>2. /\ Leads(<<>>, "lastState", lastState, lastState')
        /\ Leads(<<>>, "server", savedServer, savedServer') /\ StateInv'
    BY <2>1, LeadsNothing, StateStays DEF PersistInv
  <2> QED
    BY <2>1, <2>2, Callers, EndKeeps
<1>3. CASE ClockTicks \/ UNCHANGED allVars
  BY <1>3, QuietKeeps DEF ClockTicks, Tick, ctlVars, stateVars, serverVars, allVars, vars
<1>4. ASSUME NEW t \in Tasks, Program(t) PROVE PersistInv'
  <2>1. CASE DisconnectCleared(t)
    BY <2>1, QuietKeeps DEF DisconnectCleared, vars, stateVars, serverVars
  <2> QED
    BY <1>4, <2>1, InitKeeps, ChoiceKeeps, AttemptKeeps, DisconnectKeeps, ReportKeeps DEF Program
<1> QED
  BY <1>1, <1>2, <1>3, <1>4, WriteKeeps, TimeoutKeeps DEF ControllerNext

\* The initial states satisfy it.
LEMMA ControllerInitInv == ControllerInit => PersistInv
<1> SUFFICES ASSUME ControllerInit PROVE PersistInv
  OBVIOUS
<1>1. IsSeq(<<>>)
  BY LeadsNothing DEF Leads
<1>2. DestInv
  BY <1>1 DEF ControllerInit, DestInv, DestinedIn
<1>3. StateInv
  BY DEF ControllerInit, StateInv
<1> QED
  BY <1>2, <1>3 DEF PersistInv

\* The state and the server in memory are those the pending writes take to
\* the device, whatever attempts, disconnects, timers, stages and kills
\* interleave with the writes.
THEOREM StateIsPersisted == ControllerSpec => []StatePersisted
<1>1. PersistInv => StatePersisted
  BY DEF PersistInv, DestInv, StateInv, DestinedIn, YoungestIn, StatePersisted, Destined, Youngest
<1> QED
  BY ControllerInitInv, ControllerNextInv, <1>1, PTL DEF ControllerSpec
(* --------------------- the state "connected" is timed ------------------- *)
\* The first launch until its init() calls are over: nothing has happened.
Fresh ==
  /\ state = "disconnected" /\ lastState = Null /\ tunnel = "down"
  /\ sessionStartTime = Null /\ sessionTimer = FALSE /\ savedStart = Null /\ saving = {}
  /\ \A t \in Attempts \cup Disconnects : pc[t] = "idle"

\* While the app has not been killed: init() has left before anything connects,
\* and has registered the callback of the expiry.
TimedInv ==
  /\ DOMAIN pc = Tasks /\ now \in Nat /\ inits \in Nat /\ kills \in Nat
  /\ kills = 0 =>
       /\ ConnectedIsTimed
       /\ Ready \/ Fresh
       /\ \A i \in Inits : pc[i] \in {"idle", "engine"} \/ inits > 0

\* No init() is any of the other tasks.
LEMMA OtherTasks ==
  /\ Inits \subseteq Tasks
  /\ Attempts \cup Disconnects \subseteq Tasks \ Inits
  /\ Callbacks \subseteq Tasks \ Inits
  /\ \A t \in Callbacks : t \notin Attempts \cup Disconnects
  BY ControllerAssumption

\* A turn of another task, which leaves init() where it is.
OtherTurn(t) ==
  /\ (\E label : GoTo(t, label)) \/ UNCHANGED pc
  /\ UNCHANGED <<alive, inits, kills, now>>

\* Once init() is over a turn has only to keep the state timed.
LEMMA ReadyTurn ==
  ASSUME TimedInv, NEW t \in Tasks \ Inits, OtherTurn(t),
         kills = 0 => Ready /\ ConnectedIsTimed'
  PROVE  TimedInv'
<1>1. DOMAIN pc' = Tasks /\ \A i \in Inits : pc'[i] = pc[i]
  BY OtherTasks DEF OtherTurn, GoTo, TimedInv
<1>2. Ready => Ready'
  BY <1>1 DEF Ready, OtherTurn
<1> QED
  BY <1>1, <1>2 DEF TimedInv, OtherTurn

\* Before that it has to leave everything fresh.
LEMMA FreshTurn ==
  ASSUME TimedInv, NEW t \in Tasks \ Inits, t \notin Attempts \cup Disconnects, OtherTurn(t),
         UNCHANGED <<state, lastState, tunnel, sessionStartTime, sessionTimer, savedStart, saving>>
  PROVE  TimedInv'
<1>1. DOMAIN pc' = Tasks /\ \A u \in Tasks : u # t => pc'[u] = pc[u]
  BY DEF OtherTurn, GoTo, TimedInv
<1>2. \A i \in Inits : pc'[i] = pc[i]
  BY <1>1, OtherTasks
<1>3. \A u \in Attempts \cup Disconnects : pc'[u] = pc[u]
  BY <1>1, OtherTasks
<1>4. (Ready => Ready') /\ (Fresh => Fresh')
  BY <1>2, <1>3 DEF Ready, Fresh, OtherTurn
<1>5. ConnectedIsTimed => ConnectedIsTimed'
  BY DEF ConnectedIsTimed
<1> QED
  BY <1>1, <1>2, <1>4, <1>5 DEF TimedInv, OtherTurn

\* A turn keeps the state timed that leaves state and session alone, that
\* leaves "connected", that starts a session or that resumes a start.
LEMMA TimedTurn ==
  ASSUME TimedInv, kills = 0
  PROVE  /\ UNCHANGED <<state, sessionStartTime, sessionTimer, saving>> => ConnectedIsTimed'
         /\ state' # "connected" => ConnectedIsTimed'
         /\ \A puts, t : StartSession(puts, t) => ConnectedIsTimed'
         /\ \A puts, t : FinishStart(puts, t) /\ state' = state => ConnectedIsTimed'
<1>1. now # Null /\ ConnectedIsTimed
  BY SessionAssumption DEF TimedInv
<1>2. \A puts, t : StartSession(puts, t) => ConnectedIsTimed'
  BY <1>1 DEF StartSession, StartNeedsSave, ConnectedIsTimed
<1> QED
  BY <1>1, <1>2 DEF ConnectedIsTimed, FinishStart

\* An attempt or a disconnect that is under way means that init() is over.
LEMMA BusyReady ==
  ASSUME TimedInv, kills = 0, NEW t \in Attempts \cup Disconnects, pc[t] # "idle"
  PROVE  Ready
  BY DEF TimedInv, Fresh

\* connect() gives up or goes on.
LEMMA FailedTurn ==
  ASSUME TimedInv, NEW t \in Attempts,
         ReturnFalse(t) \/ Throw(t) \/ (\E list : NextServer(t, list)),
         UNCHANGED <<sessionStartTime, sessionTimer, saving, alive, inits, kills, now>>
  PROVE  OtherTurn(t) /\ (kills = 0 => ConnectedIsTimed')
<1>1. (\E label : GoTo(t, label)) /\ (state' = state \/ state' = "failed")
  BY DEF ReturnFalse, Throw, NextServer, PickServer, GiveUp, SetState, stateVars
<1> QED
  BY <1>1, TimedTurn DEF OtherTurn

\* Taps, and what follows from them up to the attempt.
LEMMA ChoiceTimed ==
  ASSUME TimedInv, NEW t \in Attempts, TapConnect(t) \/ FetchReply(t) \/ SelectCleared(t)
  PROVE  TimedInv'
<1> USE DEF lifeVars, sessionVars
<1>1. t \in Tasks \ Inits
  BY OtherTasks
<1>2. kills = 0 => Ready
  BY BusyReady DEF TapConnect, FetchReply, SelectCleared, HomeOnTop, At
<1>3. CASE TapConnect(t) \/ SelectCleared(t)
  <2>1. OtherTurn(t)
    BY <1>3 DEF OtherTurn, TapConnect, SelectCleared, PickServer
  <2>2. state' # "connected"
    BY <1>3 DEF TapConnect, SelectCleared, SetState
  <2> QED
    BY <1>1, <1>2, <2>1, <2>2, TimedTurn, ReadyTurn
<1>4. CASE FetchReply(t)
  <2>1. OtherTurn(t) /\ (kills = 0 => ConnectedIsTimed')
    BY <1>4, FailedTurn DEF FetchReply
  <2> QED
    BY <1>1, <1>2, <2>1, ReadyTurn
<1> QED
  BY <1>3, <1>4

\* disconnect(), and its end.
LEMMA DisconnectTimed ==
  ASSUME TimedInv, NEW t \in Disconnects,
         TapDisconnect(t) \/ ExpireSession(t) \/ TapServer(t) \/ DisconnectEnded(t) \/ DisconnectCleared(t)
  PROVE  TimedInv'
<1> USE DEF lifeVars, sessionVars
<1>1. t \in Tasks \ Inits
  BY OtherTasks
<1>2. kills = 0 => Ready
  <2>1. ExpireSession(t) => ~Fresh
    BY DEF ExpireSession, HandleSessionExpired, TickExpired, Fresh
  <2> QED
    BY <2>1, BusyReady DEF TimedInv, TapDisconnect, TapServer, DisconnectEnded, DisconnectCleared,
       HomeOnTop, At
<1>3. CASE TapDisconnect(t) \/ ExpireSession(t) \/ TapServer(t)
  <2>1. BeginDisconnect(t)
    BY <1>3 DEF TapDisconnect, ExpireSession, TapServer
  <2>2. OtherTurn(t) /\ state' # "connected"
    BY <2>1 DEF BeginDisconnect, OtherTurn, SetState
  <2> QED
    BY <1>1, <1>2, <2>2, TimedTurn, ReadyTurn
<1>4. CASE DisconnectEnded(t) \/ DisconnectCleared(t)
  <2>1. OtherTurn(t) /\ UNCHANGED <<state, sessionStartTime, sessionTimer, saving>>
    BY <1>4 DEF DisconnectEnded, DisconnectCleared, OtherTurn, vars, stateVars
  <2> QED
    BY <1>1, <1>2, <2>1, TimedTurn, ReadyTurn
<1> QED
  BY <1>3, <1>4

\* The steps of an attempt.
LEMMA AttemptTimed ==
  ASSUME TimedInv, NEW t \in Attempts, Attempt(t)
  PROVE  TimedInv'
<1> USE DEF lifeVars, sessionVars, stateVars
<1>1. t \in Tasks \ Inits
  BY OtherTasks
<1>2. kills = 0 => Ready
  BY BusyReady DEF Attempt, ServerSaved, PrepareThrows, Dial, DialThrows, DialReturns, PollConnected,
     PollRound, PollExhausted, AttemptStarted, AttemptRecorded, At
<1>3. ASSUME OtherTurn(t), kills = 0 => ConnectedIsTimed' PROVE TimedInv'
  BY <1>1, <1>2, <1>3, ReadyTurn
<1>4. CASE ServerSaved(t)
  <2>1. UNCHANGED <<sessionStartTime, sessionTimer, saving, alive, inits, kills, now>>
    BY <1>4 DEF ServerSaved
  <2>2. CASE Throw(t)
    BY <1>3, <2>1, <2>2, FailedTurn
  <2>3. CASE GoTo(t, "preparing") /\ UNCHANGED state
    BY <1>3, <2>1, <2>3, TimedTurn DEF OtherTurn
  <2> QED
    BY <1>4, <2>2, <2>3 DEF ServerSaved
<1>5. CASE PrepareThrows(t) \/ DialThrows(t)
  BY <1>3, <1>5, FailedTurn DEF PrepareThrows, DialThrows
<1>6. CASE Dial(t) \/ DialReturns(t) \/ AttemptRecorded(t)
  BY <1>3, <1>6, TimedTurn DEF Dial, DialReturns, AttemptRecorded, vars, OtherTurn
<1>7. CASE PollConnected(t)
  <2>1. OtherTurn(t)
    BY <1>7 DEF PollConnected, OtherTurn
  <2>2. \E puts : StartSession(puts, t)
    BY <1>7 DEF PollConnected
  <2> QED
    BY <1>3, <2>1, <2>2, TimedTurn
<1>8. CASE AttemptStarted(t)
  <2>1. OtherTurn(t) /\ state' = state
    BY <1>8 DEF AttemptStarted, OtherTurn
  <2>2. \E puts : FinishStart(puts, t)
    BY <1>8 DEF AttemptStarted
  <2> QED
    BY <1>3, <2>1, <2>2, TimedTurn
<1>9. CASE PollRound(t)
  <2>1. UNCHANGED <<sessionStartTime, sessionTimer, saving, alive, inits, kills, now>>
    BY <1>9 DEF PollRound
  <2>2. CASE ReturnFalse(t)
    BY <1>3, <2>1, <2>2, FailedTurn
  <2>3. CASE (GoTo(t, "done") \/ UNCHANGED pc) /\ UNCHANGED state
    BY <1>3, <2>1, <2>3, TimedTurn DEF OtherTurn
  <2> QED
    BY <1>9, <2>2, <2>3 DEF PollRound
<1>10. CASE PollExhausted(t)
  BY <1>3, <1>10, FailedTurn DEF PollExhausted
<1> QED
  BY <1>4, <1>5, <1>6, <1>7, <1>8, <1>9, <1>10 DEF Attempt
\* Callbacks may run before init() is over, but find no tunnel then.
LEMMA CallbackTimed ==
  ASSUME TimedInv, NEW t \in Callbacks,
         \/ CheckTimerFires(t) \/ CheckReplyDown(t) \/ CheckReplyUp(t)
         \/ BeginRefresh(t) \/ RefreshReply(t) \/ ReportStarted(t) \/ RefreshEnded(t)
         \/ StageEvent(t) \/ StageReply(t) \/ StageEnded(t)
  PROVE  TimedInv'
<1> USE DEF lifeVars, sessionVars, stateVars
<1>1. t \in Tasks \ Inits /\ t \notin Attempts \cup Disconnects
  BY OtherTasks
<1>2. Fresh => ~Reported
  BY DEF Fresh, Reported
<1>3. CASE \/ CheckTimerFires(t) \/ CheckReplyDown(t) \/ BeginRefresh(t) \/ RefreshEnded(t)
           \/ StageEvent(t) \/ StageEnded(t)
  <2>1. /\ UNCHANGED <<state, lastState, tunnel, sessionStartTime, sessionTimer, savedStart, saving>>
        /\ OtherTurn(t)
    BY <1>3 DEF CheckTimerFires, CheckReplyDown, BeginRefresh, RefreshEnded, StageEvent, StageEnded,
                OtherTurn, vars, nativeVars
  <2> QED
    BY <1>1, <2>1, FreshTurn
<1>4. ASSUME OtherTurn(t), kills = 0 => Ready /\ ConnectedIsTimed' PROVE TimedInv'
  BY <1>1, <1>4, ReadyTurn
<1>5. CASE CheckReplyUp(t)
  <2>1. kills = 0 => Ready
    BY <1>2, <1>5 DEF CheckReplyUp, TimedInv
  <2>2. OtherTurn(t) /\ \E puts : StartSession(puts, t)
    BY <1>5 DEF CheckReplyUp, OtherTurn
  <2> QED
    BY <1>4, <2>1, <2>2, TimedTurn
<1>6. CASE ReportStarted(t)
  <2>1. kills = 0 => Ready
    BY <1>6 DEF ReportStarted, FinishStart, TimedInv, Fresh
  <2>2. OtherTurn(t) /\ state' = state /\ \E puts : FinishStart(puts, t)
    BY <1>6 DEF ReportStarted, OtherTurn
  <2> QED
    BY <1>4, <2>1, <2>2, TimedTurn
<1>7. CASE RefreshReply(t)
  <2>1. OtherTurn(t) /\ tunnel' = tunnel
    BY <1>7 DEF RefreshReply, OtherTurn, nativeVars
  <2>2. CASE Reported /\ \E puts : StartSession(puts, t)
    BY <1>2, <1>4, <2>1, <2>2, TimedTurn DEF TimedInv
  <2>3. CASE state = "connected" /\ SetState("disconnected")
    <3>1. state' # "connected" /\ ~Fresh
      BY <2>3 DEF SetState, Fresh
    <3> QED
      BY <1>4, <2>1, <3>1, TimedTurn DEF TimedInv
  <2>4. CASE UNCHANGED <<sessionVars, stateVars>>
    BY <1>1, <2>1, <2>4, FreshTurn
  <2> QED
    BY <1>7, <2>2, <2>3, <2>4 DEF RefreshReply
<1>8. CASE StageReply(t)
  <2>1. OtherTurn(t) /\ tunnel' = tunnel
    BY <1>8 DEF StageReply, OtherTurn, nativeVars
  <2>2. CASE UNCHANGED <<sessionVars, stateVars>>
    BY <1>1, <2>1, <2>2, FreshTurn
  <2>3. CASE SetState("disconnected") /\ EndSession(SetPuts("disconnected"), <<t>>)
    <3>1. CASE Fresh
      <4>1. UNCHANGED <<state, lastState, sessionStartTime, sessionTimer, savedStart, saving>>
        BY <2>3, <3>1 DEF SetState, EndSession, Fresh
      <4> QED
        BY <1>1, <2>1, <4>1, FreshTurn
    <3>2. CASE ~Fresh
      <4>1. state' # "connected"
        BY <2>3 DEF SetState
      <4> QED
        BY <1>4, <2>1, <3>2, <4>1, TimedTurn DEF TimedInv
    <3> QED
      BY <3>1, <3>2
  <2> QED
    BY <1>8, <2>2, <2>3 DEF StageReply
<1> QED
  BY <1>3, <1>5, <1>6, <1>7, <1>8

\* An init() that goes on finds everything fresh, and leaves it so.
LEMMA InitTimed ==
  ASSUME TimedInv, NEW i \in Inits, InitEngineReady(i) \/ InitSessionEnded(i)
  PROVE  TimedInv'
<1>1. pc[i] \in {"engine", "ending"} /\ ~Ready
  BY DEF InitEngineReady, InitSessionEnded, At, Ready
<1>2. DOMAIN pc' = Tasks /\ (\A t \in Tasks : t # i => pc'[t] = pc[t]) /\ i \in Tasks
  BY OtherTasks DEF InitEngineReady, InitSessionEnded, Restore, GoTo, TimedInv
<1>3. UNCHANGED <<now, kills, tunnel, alive>> /\ inits' \in Nat /\ inits' >= inits
  BY DEF InitEngineReady, InitSessionEnded, nativeVars, vars, TimedInv
<1>4. kills = 0 => inits' > 0
  <2>1. CASE InitEngineReady(i)
    BY <2>1 DEF InitEngineReady, TimedInv
  <2>2. CASE InitSessionEnded(i)
    BY <2>2 DEF InitSessionEnded, At, vars, TimedInv
  <2> QED
    BY <2>1, <2>2
<1>5. ASSUME kills = 0 PROVE Fresh' /\ ConnectedIsTimed'
  <2>1. Fresh
    BY <1>1, <1>5 DEF TimedInv
  <2>2. ~SavedExpired /\ savedStart = Null
    BY <2>1 DEF Fresh, SavedExpired
  <2>3. UNCHANGED <<sessionStartTime, sessionTimer, savedStart, saving>>
    BY <2>2 DEF InitEngineReady, InitSessionEnded, Initialize, EndSession, sessionVars, vars
  <2>4. state' = "disconnected" /\ lastState' = Null
    BY <2>1, <2>2 DEF InitEngineReady, InitSessionEnded, Restore, Fresh
  <2>5. \A t \in Attempts \cup Disconnects : pc'[t] = "idle"
    BY <1>2, <2>1, OtherTasks DEF Fresh
  <2> QED
    BY <1>3, <2>1, <2>3, <2>4, <2>5 DEF Fresh, ConnectedIsTimed
<1> QED
  BY <1>2, <1>3, <1>4, <1>5 DEF TimedInv

\* The steps of the environment, and those of no task.
LEMMA ElseTimed ==
  ASSUME TimedInv,
         \/ LaunchApp \/ KillApp \/ TunnelMoves \/ ExpireUnheard \/ TimeoutFires
         \/ ClockTicks \/ PrefsWrite \/ UNCHANGED allVars
  PROVE  TimedInv'
<1> USE DEF lifeVars, sessionVars, stateVars
<1>1. CASE LaunchApp
  <2>1. UNCHANGED <<now, inits, kills, sessionVars, stateVars, tunnel>>
    BY <1>1 DEF LaunchApp, vars, nativeVars
  <2>2. DOMAIN pc' = Tasks /\ \A i \in Inits : pc'[i] = "engine"
    BY <1>1, OtherTasks DEF LaunchApp
  <2>3. \A t \in Attempts \cup Disconnects : pc'[t] = "idle"
    BY <1>1, OtherTasks DEF LaunchApp
  <2>4. ~Ready
    BY <1>1 DEF LaunchApp, Ready
  <2> QED
    BY <2>1, <2>2, <2>3, <2>4, TimedTurn DEF TimedInv, Fresh
<1>2. CASE KillApp
  <2>1. kills' # 0 /\ kills' \in Nat /\ inits' = 0 /\ now' = now /\ DOMAIN pc' = Tasks
    BY <1>2 DEF KillApp, TimedInv
  <2> QED
    BY <2>1 DEF TimedInv
<1>3. CASE ExpireUnheard
  <2>1. /\ UNCHANGED <<pc, alive, inits, kills, now>>
        /\ alive /\ inits = 0 /\ sessionTimer
    BY <1>3 DEF ExpireUnheard, TickExpired, ctlVars
  <2>2. ASSUME kills = 0 PROVE FALSE
    <3>1. Ready
      BY <2>1, <2>2 DEF TimedInv, Fresh
    <3> QED
      BY <2>1, <2>2, <3>1, ControllerAssumption DEF TimedInv, Ready
  <2> QED
    BY <2>1, <2>2 DEF TimedInv
<1>4. CASE TunnelMoves
  <2>1. UNCHANGED <<pc, alive, inits, kills, now, sessionVars, stateVars>> /\ ~Fresh
    BY <1>4 DEF TunnelMoves, vars, Fresh
  <2> QED
    BY <2>1, TimedTurn DEF TimedInv, Ready
<1>5. CASE TimeoutFires
  <2>1. UNCHANGED <<pc, alive, inits, kills, now, sessionVars>>
    BY <1>5 DEF TimeoutFires
  <2>2. CASE state = "connecting" /\ SetState("failed")
    <3>1. ~Fresh /\ state' # "connected"
      BY <2>2 DEF Fresh, SetState
    <3> QED
      BY <2>1, <3>1, TimedTurn DEF TimedInv, Ready
  <2>3. CASE UNCHANGED <<stateVars, nativeVars>>
    BY <2>1, <2>3, TimedTurn DEF TimedInv, Ready, Fresh, nativeVars
  <2> QED
    BY <1>5, <2>2, <2>3 DEF TimeoutFires
<1>6. CASE ClockTicks \/ PrefsWrite \/ UNCHANGED allVars
  <2>1. /\ UNCHANGED <<pc, alive, inits, kills, sessionVars, stateVars, tunnel>>
        /\ now' \in Nat
    BY <1>6 DEF ClockTicks, Tick, PrefsWrite, Write, allVars, ctlVars, vars, nativeVars, TimedInv
  <2> QED
    BY <2>1, TimedTurn DEF TimedInv, Ready, Fresh
<1> QED
  BY <1>1, <1>2, <1>3, <1>4, <1>5, <1>6

\* Every step of the app, the engine and the device preserves the invariant.
LEMMA TimedNextInv == TimedInv /\ [ControllerNext]_allVars => TimedInv'
<1> SUFFICES ASSUME TimedInv, [ControllerNext]_allVars PROVE TimedInv'
  OBVIOUS
<1>0. /\ Connects \subseteq Attempts /\ Selects \subseteq Attempts
      /\ Selects \subseteq Disconnects /\ Offs \subseteq Disconnects
      /\ Expiries \subseteq Disconnects
      /\ Resumes \subseteq Callbacks /\ Stages \subseteq Callbacks /\ Checkers \subseteq Callbacks
  BY DEF Attempts, Disconnects, Callbacks
<1>1. CASE Environment
  BY <1>0, <1>1, ElseTimed, ChoiceTimed, DisconnectTimed, CallbackTimed DEF Environment
<1>2. ASSUME NEW t \in Tasks, Program(t) PROVE TimedInv'
  BY <1>0, <1>2, InitTimed, ChoiceTimed, AttemptTimed, DisconnectTimed, CallbackTimed DEF Program
<1> QED
  BY <1>1, <1>2, ElseTimed DEF ControllerNext

\* A fresh install, which has no task underway, satisfies it.
LEMMA TimedInitInv == ControllerInit => TimedInv
  BY OtherTasks DEF ControllerInit, TimedInv, ConnectedIsTimed, Fresh

\* As long as the app is not killed the state "connected" has a session under
\* the clock, whoever finds the tunnel up and whoever ends the session.
THEOREM ConnectedStateIsTimed == ControllerSpec => [](kills = 0 => ConnectedIsTimed)
<1>1. TimedInv => (kills = 0 => ConnectedIsTimed)
  BY DEF TimedInv
<1> QED
  BY TimedInitInv, TimedNextInv, <1>1, PTL DEF ControllerSpec

(* -------------------------------- types --------------------------------- *)
\* What a write may carry at time n: a session started by then, a state, or a
\* server.
GoodPut(p, n) ==
  /\ p.key \in {"session", "lastState", "server"}
  /\ p.key = "session" => p.val \in (0 .. n) \cup {Null}
  /\ p.key = "lastState" => p.val \in States
  /\ p.key = "server" => p.val \in Servers \cup {Null}

GoodPuts(w, n) == IsSeq(w) /\ \A i \in DOMAIN w : GoodPut(w[i], n)

\* The device, the writes on their way to it, and the session's times.
StoreInv ==
  /\ now \in Times
  /\ DOMAIN disk = {"session", "lastState", "server"}
  /\ disk["session"] \in Past /\ disk["lastState"] \in States \cup {Null}
  /\ disk["server"] \in Servers \cup {Null}
  /\ GoodPuts(writes, now)
  /\ sessionStartTime \in Past /\ savedStart \in Past

\* The state, the servers, and what the attempts have still to try.
StateOK == state \in States /\ lastState \in States \cup {Null}
ServersOK == /\ currentServer \in Servers \cup {Null}
             /\ savedServer \in Servers \cup {Null}
PlanOK == /\ fetched \in Seq(Servers)
          /\ todo \in [Attempts -> Seq(Servers)]
          /\ target \in [Attempts -> Servers \cup {Null}]

\* Every task is in one of the turns the code has; a server that is chosen is
\* known until its attempt begins.
TurnsOK == /\ pc \in [Tasks -> Labels]
           /\ \A t \in Selects : pc[t] \in {"ending", "clearing"} => target[t] \in Servers

FlowInv == StoreInv /\ StateOK /\ ServersOK /\ PlanOK

\* No write carries nothing amiss.
LEMMA GoodNone == \A n : GoodPuts(<<>>, n)
<1>1. IsSeq(<<>>)
  BY LeadsNothing DEF Leads
<1> QED
  BY <1>1 DEF GoodPuts

\* One write is a sequence of writes.
LEMMA GoodOne ==
  ASSUME NEW key, NEW val, NEW by, NEW n, GoodPut(Put(key, val, by), n)
  PROVE  GoodPuts(<<Put(key, val, by)>>, n)
<1> DEFINE p == Put(key, val, by)
<1> HIDE DEF p
<1>1. <<p>> \in Seq({p}) /\ <<p>>[1] = p /\ DOMAIN <<p>> = {1}
  OBVIOUS
<1>2. IsSeq(<<p>>)
  BY <1>1, SeqIsSeq
<1>3. GoodPut(p, n)
  BY DEF p
<1>4. GoodPuts(<<p>>, n)
  BY <1>1, <1>2, <1>3 DEF GoodPuts
<1> QED
  BY <1>4 DEF p

\* The writes of two parts of a turn are those of the turn.
LEMMA GoodJoin ==
  ASSUME NEW v, NEW w, NEW n, GoodPuts(v, n), GoodPuts(w, n)
  PROVE  GoodPuts(v \o w, n)
<1>1. IsSeq(v) /\ IsSeq(w)
  BY DEF GoodPuts
<1>2. /\ IsSeq(v \o w) /\ Len(v) \in Nat /\ Len(w) \in Nat
      /\ DOMAIN v = 1 .. Len(v) /\ DOMAIN w = 1 .. Len(w)
      /\ DOMAIN (v \o w) = 1 .. Len(v) + Len(w)
      /\ \A i \in 1 .. Len(v) : (v \o w)[i] = v[i]
      /\ \A i \in 1 .. Len(w) : (v \o w)[Len(v) + i] = w[i]
  BY <1>1, JoinIsSeq
<1> DEFINE u == v \o w
           k == Len(v)
           l == Len(w)
<1> HIDE DEF u, k, l
<1>3. /\ k \in Nat /\ l \in Nat /\ DOMAIN u = 1 .. k + l
      /\ \A i \in 1 .. k : u[i] = v[i] /\ GoodPut(v[i], n)
      /\ \A i \in 1 .. l : u[k + i] = w[i] /\ GoodPut(w[i], n)
  BY <1>2 DEF GoodPuts, u, k, l
<1>4. ASSUME NEW i \in 1 .. k + l PROVE GoodPut(u[i], n)
  <2>1. CASE i <= k
    BY <1>3, <2>1
  <2>2. CASE i > k
    <3>1. i - k \in 1 .. l /\ k + (i - k) = i
      BY <1>3, <2>2
    <3> QED
      BY <1>3, <3>1
  <2> QED
    BY <1>3, <2>1, <2>2
<1>5. GoodPuts(u, n)
  BY <1>2, <1>3, <1>4 DEF GoodPuts, u
<1> QED
  BY <1>5 DEF u

\* _set writes a state.
LEMMA SetGood ==
  ASSUME StateOK, NEW v \in States
  PROVE  /\ \A n : GoodPuts(SetPuts(v), n)
         /\ SetState(v) => StateOK'
<1>1. \A n : GoodPut(Put("lastState", v, Null), n)
  BY DEF GoodPut, Put
<1> QED
  BY <1>1, GoodNone, GoodOne DEF SetPuts, SetState, StateOK

\* A turn that sends writes and leaves the session alone.
LEMMA SendStores ==
  ASSUME StoreInv, NEW puts, GoodPuts(puts, now), Send(puts), now' = now,
         UNCHANGED <<sessionStartTime, savedStart>>
  PROVE  StoreInv'
<1>1. GoodPuts(writes \o puts, now)
  BY GoodJoin DEF StoreInv
<1> QED
  BY <1>1 DEF StoreInv, Send, Past

\* A turn that ends the session.
LEMMA EndStores ==
  ASSUME StoreInv, NEW puts, NEW callers, GoodPuts(puts, now), IsSeq(callers),
         EndSession(puts, callers), now' = now
  PROVE  StoreInv'
<1> DEFINE ends == [i \in DOMAIN callers |-> Put("session", Null, callers[i])]
<1>1. IsSeq(ends) /\ \A i \in DOMAIN ends : GoodPut(ends[i], now)
  <2> DEFINE P == {Put("session", Null, callers[i]) : i \in DOMAIN callers}
  <2>1. Len(callers) \in Nat /\ DOMAIN callers = 1 .. Len(callers)
    BY DEF IsSeq
  <2>2. ends \in [1 .. Len(callers) -> P]
    BY <2>1
  <2>3. ends \in Seq(P)
    <3> HIDE DEF P, ends
    <3> QED
      BY <2>1, <2>2
  <2>4. \A i \in DOMAIN ends : GoodPut(ends[i], now)
    BY DEF GoodPut, Put
  <2> HIDE DEF P, ends
  <2> QED
    BY <2>3, <2>4, SeqIsSeq
<1> HIDE DEF ends
<1>2. GoodPuts(writes \o (puts \o ends), now)
  BY <1>1, GoodJoin DEF StoreInv, GoodPuts
<1>3. /\ writes' = writes \o (puts \o ends) /\ disk' = disk
      /\ sessionStartTime' = Null /\ savedStart' = Null
  BY DEF EndSession, Send, ends
<1> QED
  BY <1>2, <1>3 DEF StoreInv, Past

\* A turn that starts the session, or resumes the start.
LEMMA StartStores ==
  ASSUME StoreInv, NEW puts, NEW t, GoodPuts(puts, now), now' = now,
         StartSession(puts, t) \/ FinishStart(puts, t)
  PROVE  StoreInv'
<1>1. now \in Past /\ now \in 0 .. now
  BY SessionAssumption DEF StoreInv, Times, Horizon, Past
<1>2. CASE UNCHANGED <<sessionStartTime, savedStart>> /\ Send(puts)
  BY <1>2, SendStores
<1>3. CASE StartSession(puts, t)
  <2>1. CASE StartNeedsSave
    <3> DEFINE put == <<Put("session", now, t)>>
    <3>1. GoodPuts(put, now)
      BY <1>1, GoodOne DEF GoodPut, Put
    <3> HIDE DEF put
    <3>2. GoodPuts(writes \o (puts \o put), now)
      BY <3>1, GoodJoin DEF StoreInv
    <3>3. /\ writes' = writes \o (puts \o put) /\ disk' = disk
          /\ sessionStartTime' = now /\ savedStart' = now
      BY <1>3, <2>1 DEF StartSession, Send, put
    <3> QED
      BY <1>1, <3>2, <3>3 DEF StoreInv, Past
  <2>2. CASE ~StartNeedsSave
    <3>1. GoodPuts(writes \o puts, now)
      BY GoodJoin DEF StoreInv
    <3>2. /\ writes' = writes \o puts /\ disk' = disk /\ savedStart' = savedStart
          /\ sessionStartTime' \in {savedStart, sessionStartTime}
      BY <1>3, <2>2 DEF StartSession, Send
    <3> QED
      BY <3>1, <3>2 DEF StoreInv, Past
  <2> QED
    BY <2>1, <2>2
<1> QED
  BY <1>2, <1>3 DEF FinishStart

\* A turn that leaves device, writes and session alone.
LEMMA QuietStores ==
  StoreInv /\ UNCHANGED <<now, disk, writes, sessionStartTime, savedStart>> => StoreInv'
  BY DEF StoreInv, Past

\* A server is adopted off a list of servers.
LEMMA PickFlows ==
  ASSUME FlowInv, NEW t \in Attempts, NEW list \in Seq(Servers), NEW puts,
         GoodPuts(puts, now), PickServer(t, list, puts),
         UNCHANGED <<now, sessionStartTime, savedStart>>
  PROVE  StoreInv' /\ ServersOK' /\ todo' \in [Attempts -> Seq(Servers)]
<1>1. list # <<>> /\ Head(list) \in Servers /\ Tail(list) \in Seq(Servers)
  BY DEF PickServer
<1> DEFINE put == <<Put("server", Head(list), t)>>
<1>2. GoodPuts(put, now)
  BY <1>1, GoodOne DEF GoodPut, Put
<1> HIDE DEF put
<1>3. GoodPuts(puts \o put, now)
  BY <1>2, GoodJoin
<1>4. Send(puts \o put)
  BY DEF PickServer, put
<1>5. StoreInv'
  BY <1>3, <1>4, SendStores DEF FlowInv
<1>6. ServersOK' /\ todo' \in [Attempts -> Seq(Servers)]
  BY <1>1 DEF PickServer, ServersOK, FlowInv, PlanOK
<1> QED
  BY <1>5, <1>6

\* connect() gives up.
LEMMA GiveUpFlows ==
  ASSUME FlowInv, NEW t, GiveUp(t), UNCHANGED <<now, sessionStartTime, savedStart>>
  PROVE  StoreInv' /\ StateOK' /\ ServersOK' /\ todo' = todo
<1>1. "failed" \in States
  BY DEF States
<1>2. StateOK' /\ ServersOK' /\ todo' = todo
  BY <1>1, SetGood DEF FlowInv, GiveUp, ServersOK, serverVars
<1> QED
  BY <1>1, <1>2, SetGood, SendStores DEF FlowInv, GiveUp

\* connect() goes on with a list of servers, or gives up.
LEMMA NextFlows ==
  ASSUME FlowInv, NEW t \in Attempts, NEW list \in Seq(Servers), NextServer(t, list),
         UNCHANGED <<now, sessionStartTime, savedStart>>
  PROVE  StoreInv' /\ StateOK' /\ ServersOK' /\ todo' \in [Attempts -> Seq(Servers)]
<1>1. CASE PickServer(t, list, <<>>) /\ UNCHANGED stateVars
  BY <1>1, GoodNone, PickFlows DEF FlowInv, StateOK, stateVars
<1>2. CASE GiveUp(t)
  BY <1>2, GiveUpFlows DEF FlowInv, PlanOK
<1> QED
  BY <1>1, <1>2 DEF NextServer

\* An attempt that returns false, or throws.
LEMMA FailFlows ==
  ASSUME FlowInv, NEW t \in Attempts, ReturnFalse(t) \/ Throw(t),
         UNCHANGED <<now, sessionStartTime, savedStart>>
  PROVE  StoreInv' /\ StateOK' /\ ServersOK' /\ todo' \in [Attempts -> Seq(Servers)]
<1>1. todo[t] \in Seq(Servers) /\ todo \in [Attempts -> Seq(Servers)]
  BY DEF FlowInv, PlanOK
<1>2. CASE NextServer(t, todo[t])
  BY <1>1, <1>2, NextFlows
<1>3. CASE GiveUp(t)
  BY <1>1, <1>3, GiveUpFlows
<1>4. CASE Send(<<>>) /\ UNCHANGED <<stateVars, serverVars, todo>>
  BY <1>1, <1>4, GoodNone, SendStores DEF FlowInv, StateOK, ServersOK, stateVars, serverVars
<1> QED
  BY <1>2, <1>3, <1>4 DEF ReturnFalse, Throw


\* A turn that neither saves nor adopts anything.
LEMMA QuietFlows ==
  ASSUME FlowInv,
         UNCHANGED <<now, disk, writes, sessionStartTime, savedStart, stateVars, serverVars,
                     fetched, todo, target>>
  PROVE  FlowInv'
  BY QuietStores DEF FlowInv, StateOK, ServersOK, PlanOK, stateVars, serverVars

\* Some ranking of a list: its servers are servers.
LEMMA OrderTyped ==
  ASSUME NEW ranked \in Seq(Servers)
  PROVE  AttemptOrder(ranked) \in Seq(Servers)
<1>1. CASE Len(ranked) <= 1
  BY <1>1 DEF AttemptOrder
<1>2. CASE Len(ranked) = 2
  BY <1>2 DEF AttemptOrder
<1>3. CASE ~(Len(ranked) <= 1) /\ Len(ranked) # 2
  <2>1. Len(ranked) \in Nat /\ Len(ranked) > 2
    <3>1. \A n \in Nat : ~(n <= 1) /\ n # 2 => n > 2
      OBVIOUS
    <3>2. Len(ranked) \in Nat
      OBVIOUS
    <3> QED
      BY <1>3, <3>1, <3>2
  <2>2. ranked[1] \in Servers /\ ranked[2] \in Servers /\ ranked[3] \in Servers
    BY <2>1
  <2>3. AttemptOrder(ranked) = <<ranked[2], ranked[1], ranked[3]>>
    BY <1>3 DEF AttemptOrder
  <2> QED
    BY <2>2, <2>3
<1> QED
  BY <1>1, <1>2, <1>3

\* What is restored was persisted.
LEMMA RestoreFlows ==
  ASSUME FlowInv, NEW i, Restore(i)
  PROVE  StateOK' /\ ServersOK'
  BY DEF FlowInv, StateOK, ServersOK, Restore

\* init() by either of its callers.
LEMMA InitFlows ==
  ASSUME FlowInv, NEW i, InitEngineReady(i) \/ InitSessionEnded(i)
  PROVE  FlowInv'
<1>1. CASE InitSessionEnded(i)
  BY <1>1, RestoreFlows, QuietStores DEF InitSessionEnded, vars, planVars, FlowInv, PlanOK
<1>2. CASE InitEngineReady(i)
  <2>1. StateOK' /\ ServersOK' /\ PlanOK' /\ now' = now
    BY <1>2, RestoreFlows
       DEF InitEngineReady, stateVars, serverVars, planVars, FlowInv, StateOK, ServersOK, PlanOK
  <2>2. StoreInv'
    <3>1. CASE Send(<<>>) /\ UNCHANGED <<sessionStartTime, savedStart>>
      BY <2>1, <3>1, GoodNone, SendStores DEF FlowInv
    <3>2. CASE Send(<<>>) /\ sessionStartTime' = savedStart /\ UNCHANGED savedStart
      <4>1. GoodPuts(writes \o <<>>, now)
        BY GoodNone, GoodJoin DEF FlowInv, StoreInv
      <4> QED
        BY <2>1, <3>2, <4>1 DEF FlowInv, StoreInv, Send, Past
    <3>3. CASE EndSession(<<>>, <<i>>)
      BY <2>1, <3>3, GoodNone, Callers, EndStores DEF FlowInv
    <3> QED
      BY <1>2, <3>1, <3>2, <3>3 DEF InitEngineReady, Initialize, sessionVars
  <2> QED
    BY <2>1, <2>2 DEF FlowInv
<1> QED
  BY <1>1, <1>2

\* The process ends: memory is what the device holds.
LEMMA KillFlows == FlowInv /\ KillApp => FlowInv'
<1> SUFFICES ASSUME FlowInv, KillApp PROVE FlowInv'
  OBVIOUS
<1>1. /\ writes' = <<>> /\ disk' = disk /\ now' = now
      /\ sessionStartTime' = Null /\ savedStart' = disk["session"]
      /\ state' = "disconnected" /\ currentServer' = Null
      /\ lastState' = disk["lastState"] /\ savedServer' = disk["server"]
      /\ fetched' = <<>> /\ todo' = [t \in Attempts |-> <<>>]
      /\ target' = [t \in Attempts |-> Null]
  BY DEF KillApp, ForgetSession, LoseWrites
<1>2. StoreInv'
  BY <1>1, GoodNone DEF FlowInv, StoreInv, Past
<1>3. StateOK' /\ ServersOK'
  BY <1>1 DEF FlowInv, StoreInv, StateOK, ServersOK, States
<1>4. PlanOK'
  BY <1>1 DEF PlanOK
<1> QED
  BY <1>2, <1>3, <1>4 DEF FlowInv

\* disconnect(), and its end.
LEMMA DisconnectFlows ==
  ASSUME FlowInv, NEW t,
         \/ TapDisconnect(t) \/ ExpireSession(t) \/ TapServer(t)
         \/ DisconnectEnded(t) \/ DisconnectCleared(t)
  PROVE  FlowInv'
<1> USE DEF lifeVars, sessionVars, planVars
<1>1. CASE TapDisconnect(t) \/ ExpireSession(t) \/ TapServer(t)
  <2>1. "disconnected" \in States /\ IsSeq(<<t>>) /\ IsSeq(<<t, Null>>)
    BY Callers DEF States
  <2>2. /\ BeginDisconnect(t) /\ SetState("disconnected")
        /\ UNCHANGED <<now, serverVars, fetched, todo>>
    BY <1>1 DEF TapDisconnect, ExpireSession, TapServer, BeginDisconnect
  <2>3. PlanOK' /\ ServersOK' /\ StateOK'
    <3>1. target' \in [Attempts -> Servers \cup {Null}]
      BY <1>1 DEF TapDisconnect, ExpireSession, TapServer, FlowInv, PlanOK
    <3> QED
      BY <2>1, <2>2, <3>1, SetGood DEF FlowInv, PlanOK, ServersOK, serverVars
  <2>4. GoodPuts(SetPuts("disconnected"), now)
    BY <2>1, SetGood DEF FlowInv
  <2>5. \/ EndSession(SetPuts("disconnected"), <<t>>)
        \/ EndSession(SetPuts("disconnected"), <<t, Null>>)
    BY <1>1 DEF TapDisconnect, ExpireSession, TapServer, HandleSessionExpired
  <2> QED
    BY <2>1, <2>2, <2>3, <2>4, <2>5, EndStores DEF FlowInv
<1>2. CASE DisconnectEnded(t)
  <2>1. GoodPut(Put("server", Null, t), now)
    BY DEF GoodPut, Put
  <2>2. GoodPuts(<<Put("server", Null, t)>>, now)
    BY <2>1, GoodOne
  <2>3. StoreInv'
    BY <1>2, <2>2, SendStores DEF DisconnectEnded, FlowInv
  <2> QED
    BY <1>2, <2>3 DEF DisconnectEnded, FlowInv, StateOK, ServersOK, PlanOK, stateVars
<1>3. CASE DisconnectCleared(t)
  BY <1>3, QuietFlows DEF DisconnectCleared, vars
<1> QED
  BY <1>1, <1>2, <1>3

\* The choices of a server.
LEMMA ChoiceFlows ==
  ASSUME FlowInv, TurnsOK, NEW t \in Attempts,
         TapConnect(t) \/ FetchReply(t) \/ (t \in Selects /\ SelectCleared(t))
  PROVE  FlowInv'
<1> USE DEF lifeVars, sessionVars
<1>1. "connecting" \in States
  BY DEF States
<1>2. /\ \A n : GoodPuts(SetPuts("connecting"), n)
      /\ SetState("connecting") => StateOK'
  BY <1>1, SetGood DEF FlowInv
<1>3. CASE TapConnect(t)
  <2>1. StateOK' /\ UNCHANGED <<now, sessionStartTime, savedStart, fetched, target>>
    BY <1>2, <1>3 DEF TapConnect
  <2>2. CASE Send(SetPuts("connecting")) /\ UNCHANGED <<serverVars, todo>>
    BY <1>2, <2>1, <2>2, SendStores DEF FlowInv, ServersOK, PlanOK, serverVars
  <2>3. CASE PickServer(t, AttemptOrder(fetched), SetPuts("connecting"))
    <3>1. AttemptOrder(fetched) \in Seq(Servers)
      BY OrderTyped DEF FlowInv, PlanOK
    <3> QED
      BY <1>2, <2>1, <2>3, <3>1, PickFlows DEF FlowInv, PlanOK
  <2> QED
    BY <1>3, <2>2, <2>3 DEF TapConnect
<1>4. CASE FetchReply(t)
  <2>1. PICK list \in ServerLists : fetched' = list /\ NextServer(t, AttemptOrder(list))
    BY <1>4 DEF FetchReply
  <2>2. list \in Seq(Servers) /\ AttemptOrder(list) \in Seq(Servers)
    BY ControllerAssumption, OrderTyped
  <2>3. UNCHANGED <<now, sessionStartTime, savedStart, target>>
    BY <1>4 DEF FetchReply
  <2> QED
    BY <2>1, <2>2, <2>3, NextFlows DEF FlowInv, PlanOK
<1>5. CASE t \in Selects /\ SelectCleared(t)
  <2>1. StateOK' /\ UNCHANGED <<now, sessionStartTime, savedStart, fetched, target>>
    BY <1>2, <1>5 DEF SelectCleared
  <2>2. PickServer(t, <<target[t]>>, SetPuts("connecting"))
    BY <1>5 DEF SelectCleared
  <2>3. target[t] \in Servers
    BY <1>5 DEF TurnsOK, SelectCleared, At
  <2>4. <<target[t]>> \in Seq(Servers)
    BY <2>3
  <2> QED
    BY <1>2, <2>1, <2>2, <2>4, PickFlows DEF FlowInv, PlanOK
<1> QED
  BY <1>3, <1>4, <1>5


\* The steps of an attempt.
LEMMA AttemptFlows ==
  ASSUME FlowInv, NEW t \in Attempts, Attempt(t)
  PROVE  FlowInv'
<1> USE DEF lifeVars, sessionVars
<1>1. CASE ServerSaved(t)
  <2>1. UNCHANGED <<now, sessionStartTime, savedStart, fetched>>
    BY <1>1 DEF ServerSaved
  <2>2. CASE Throw(t) /\ UNCHANGED target
    BY <2>1, <2>2, FailFlows DEF FlowInv, PlanOK
  <2>3. CASE /\ Send(<<>>) /\ UNCHANGED <<stateVars, serverVars, todo>>
             /\ target' = [target EXCEPT ![t] = currentServer] \/ target' = target
    <3>1. StoreInv'
      BY <2>1, <2>3, GoodNone, SendStores DEF FlowInv
    <3> QED
      BY <2>1, <2>3, <3>1 DEF FlowInv, StateOK, ServersOK, PlanOK, stateVars, serverVars
  <2> QED
    BY <1>1, <2>2, <2>3 DEF ServerSaved
<1>2. CASE PrepareThrows(t) \/ DialThrows(t) \/ PollExhausted(t)
  <2>1. /\ ReturnFalse(t) \/ Throw(t)
        /\ UNCHANGED <<now, sessionStartTime, savedStart, fetched, target>>
    BY <1>2 DEF PrepareThrows, DialThrows, PollExhausted
  <2> QED
    BY <2>1, FailFlows DEF FlowInv, PlanOK
<1>3. CASE Dial(t) \/ DialReturns(t) \/ AttemptRecorded(t)
  BY <1>3, QuietFlows DEF Dial, DialReturns, AttemptRecorded, vars, planVars
<1>4. "connected" \in States /\ target[t] \in Servers \cup {Null}
  BY DEF States, FlowInv, PlanOK
<1>5. GoodPuts(<<Put("server", target[t], t)>>, now)
  <2>1. GoodPut(Put("server", target[t], t), now)
    BY <1>4 DEF GoodPut, Put
  <2> QED
    BY <2>1, GoodOne
<1>6. CASE PollConnected(t)
  <2>1. StateOK' /\ UNCHANGED <<now, currentServer, planVars>>
    BY <1>4, <1>6, SetGood DEF PollConnected, FlowInv
  <2>2. savedServer' \in {savedServer, target[t]}
    BY <1>6 DEF PollConnected
  <2>3. /\ GoodPuts(SetPuts("connected"), now)
        /\ GoodPuts(SetPuts("connected") \o <<Put("server", target[t], t)>>, now)
    BY <1>4, <1>5, SetGood, GoodJoin DEF FlowInv
  <2>4. StoreInv'
    BY <1>6, <2>1, <2>3, StartStores DEF PollConnected, FlowInv
  <2> QED
    BY <1>4, <2>1, <2>2, <2>4 DEF FlowInv, ServersOK, PlanOK, planVars
<1>7. CASE AttemptStarted(t)
  <2>1. StoreInv'
    BY <1>5, <1>7, StartStores DEF AttemptStarted, FlowInv
  <2> QED
    BY <1>4, <1>7, <2>1 DEF AttemptStarted, FlowInv, StateOK, ServersOK, PlanOK, stateVars, planVars
<1>8. CASE PollRound(t)
  <2>1. UNCHANGED <<now, sessionStartTime, savedStart, fetched, target>>
    BY <1>8 DEF PollRound
  <2>2. CASE ReturnFalse(t)
    BY <2>1, <2>2, FailFlows DEF FlowInv, PlanOK
  <2>3. CASE Send(<<>>) /\ UNCHANGED <<stateVars, serverVars, todo>>
    BY <2>1, <2>3, GoodNone, SendStores
       DEF FlowInv, StateOK, ServersOK, PlanOK, stateVars, serverVars
  <2> QED
    BY <1>8, <2>2, <2>3 DEF PollRound
<1> QED
  BY <1>1, <1>2, <1>3, <1>6, <1>7, <1>8 DEF Attempt

\* The timers, refreshStage and the stages of the native side.
LEMMA ReportFlows ==
  ASSUME FlowInv, NEW t,
         \/ CheckTimerFires(t) \/ CheckReplyDown(t) \/ CheckReplyUp(t)
         \/ BeginRefresh(t) \/ RefreshReply(t) \/ ReportStarted(t) \/ RefreshEnded(t)
         \/ StageEvent(t) \/ StageReply(t) \/ StageEnded(t)
  PROVE  FlowInv'
<1> USE DEF lifeVars, planVars
<1>1. CASE \/ CheckTimerFires(t) \/ CheckReplyDown(t) \/ RefreshEnded(t)
           \/ StageEvent(t) \/ StageEnded(t)
  BY <1>1, QuietFlows
     DEF CheckTimerFires, CheckReplyDown, RefreshEnded, StageEvent, StageEnded, vars
<1>2. CASE BeginRefresh(t)
  <2>1. StoreInv'
    BY <1>2, QuietStores DEF BeginRefresh, vars, FlowInv
  <2> QED
    BY <1>2, <2>1 DEF BeginRefresh, FlowInv, StateOK, ServersOK, PlanOK, stateVars
<1>3. /\ "connected" \in States /\ "disconnected" \in States /\ IsSeq(<<t>>)
      /\ GoodPuts(SetPuts("connected"), now) /\ GoodPuts(SetPuts("disconnected"), now)
      /\ SetState("connected") \/ SetState("disconnected") => StateOK'
  <2>1. "connected" \in States /\ "disconnected" \in States
    BY DEF States
  <2> QED
    BY <2>1, SetGood, Callers DEF FlowInv
<1>4. CASE CheckReplyUp(t)
  <2>1. StateOK' /\ StoreInv'
    BY <1>3, <1>4, StartStores DEF CheckReplyUp, FlowInv
  <2> QED
    BY <1>4, <2>1 DEF CheckReplyUp, FlowInv, ServersOK, PlanOK, serverVars
<1>5. CASE ReportStarted(t)
  <2>1. StoreInv'
    BY <1>5, GoodNone, StartStores DEF ReportStarted, FlowInv
  <2> QED
    BY <1>5, <2>1 DEF ReportStarted, FlowInv, StateOK, ServersOK, PlanOK, stateVars, serverVars
<1>6. CASE RefreshReply(t)
  <2>1. ServersOK' /\ PlanOK' /\ now' = now
    BY <1>6 DEF RefreshReply, FlowInv, ServersOK, PlanOK
  <2>2. CASE SetState("connected") /\ StartSession(SetPuts("connected"), t)
    BY <1>3, <2>1, <2>2, StartStores DEF FlowInv
  <2>3. CASE SetState("disconnected") /\ EndSession(SetPuts("disconnected"), <<t>>)
    BY <1>3, <2>1, <2>3, EndStores DEF FlowInv
  <2>4. CASE Send(<<>>) /\ UNCHANGED <<sessionVars, stateVars>>
    BY <2>1, <2>4, GoodNone, SendStores DEF FlowInv, StateOK, stateVars, sessionVars
  <2> QED
    BY <1>6, <2>2, <2>3, <2>4 DEF RefreshReply
<1>7. CASE StageReply(t)
  <2>1. ServersOK' /\ PlanOK' /\ now' = now
    BY <1>7 DEF StageReply, FlowInv, ServersOK, PlanOK, serverVars
  <2>2. CASE SetState("disconnected") /\ EndSession(SetPuts("disconnected"), <<t>>)
    BY <1>3, <2>1, <2>2, EndStores DEF FlowInv
  <2>3. CASE Send(<<>>) /\ UNCHANGED <<sessionVars, stateVars>>
    BY <2>1, <2>3, GoodNone, SendStores DEF FlowInv, StateOK, stateVars, sessionVars
  <2> QED
    BY <1>7, <2>2, <2>3 DEF StageReply
<1> QED
  BY <1>1, <1>2, <1>4, <1>5, <1>6, <1>7

\* The platform applies a write of that kind.
LEMMA WriteFlows == FlowInv /\ PrefsWrite => FlowInv'
<1> SUFFICES ASSUME FlowInv, PrefsWrite PROVE FlowInv'
  OBVIOUS
<1>1. /\ writes # <<>> /\ writes' = Tail(writes)
      /\ disk' = [disk EXCEPT ![Head(writes).key] = Head(writes).val]
      /\ UNCHANGED <<now, sessionStartTime, savedStart, stateVars, serverVars, fetched, todo, target>>
  BY DEF PrefsWrite, Write, Land, ctlVars, planVars, sessionVars
<1>2. IsSeq(writes) /\ \A i \in DOMAIN writes : GoodPut(writes[i], now)
  BY DEF FlowInv, StoreInv, GoodPuts
<1> DEFINE w == writes
           n == Len(w)
           S == {w[i] : i \in DOMAIN w}
<1>3. w \in Seq(S) /\ w # <<>>
  BY <1>1, <1>2 DEF IsSeq
<1>4. /\ n \in Nat \ {0} /\ DOMAIN w = 1 .. n /\ Tail(w) \in Seq(S)
      /\ Len(Tail(w)) = n - 1 /\ DOMAIN Tail(w) = 1 .. n - 1
      /\ \A i \in 1 .. n - 1 : Tail(w)[i] = w[i + 1]
      /\ Head(w) = w[1]
  <2> HIDE DEF S
  <2> QED
    BY <1>3, HeadTailProperties
<1>5. GoodPut(Head(w), now) /\ \A i \in DOMAIN Tail(w) : GoodPut(Tail(w)[i], now)
  BY <1>2, <1>4
<1>6. IsSeq(Tail(w))
  <2> HIDE DEF S, w
  <2> QED
    BY <1>4, SeqIsSeq
<1>7. GoodPuts(writes', now)
  BY <1>1, <1>5, <1>6 DEF GoodPuts
<1> HIDE DEF w, n, S
<1>8. StoreInv'
  BY <1>1, <1>5, <1>7 DEF FlowInv, StoreInv, GoodPut, Past, w
<1> QED
  BY <1>1, <1>8 DEF FlowInv, StateOK, ServersOK, PlanOK, stateVars, serverVars

\* The timeout, the clock, and an expiry that nobody has registered for.
LEMMA ElseFlows ==
  ASSUME FlowInv,
         \/ LaunchApp \/ TunnelMoves \/ TimeoutFires \/ ExpireUnheard
         \/ ClockTicks \/ UNCHANGED allVars
  PROVE  FlowInv'
<1>1. CASE LaunchApp \/ TunnelMoves \/ UNCHANGED allVars
  BY <1>1, QuietFlows DEF LaunchApp, TunnelMoves, allVars, ctlVars, vars, planVars
<1>2. CASE TimeoutFires
  <2>1. "failed" \in States
    BY DEF States
  <2>2. UNCHANGED <<now, sessionVars, serverVars, planVars>>
    BY <1>2 DEF TimeoutFires
  <2>3. CASE SetState("failed") /\ Send(SetPuts("failed"))
    BY <2>1, <2>2, <2>3, SetGood, SendStores
       DEF FlowInv, ServersOK, PlanOK, serverVars, planVars, sessionVars
  <2>4. CASE Send(<<>>) /\ UNCHANGED stateVars
    BY <2>2, <2>4, GoodNone, SendStores
       DEF FlowInv, StateOK, ServersOK, PlanOK, stateVars, serverVars, planVars, sessionVars
  <2> QED
    BY <1>2, <2>3, <2>4 DEF TimeoutFires
<1>3. CASE ExpireUnheard
  <2>1. EndSession(<<>>, <<Null>>) /\ UNCHANGED <<now, stateVars, serverVars, planVars>>
    BY <1>3 DEF ExpireUnheard, ctlVars
  <2>2. StoreInv'
    BY <2>1, GoodNone, Callers, EndStores DEF FlowInv
  <2> QED
    BY <2>1, <2>2 DEF FlowInv, StateOK, ServersOK, PlanOK, stateVars, serverVars, planVars
<1>4. CASE ClockTicks
  <2>1. /\ now < Horizon /\ now' = now + 1
        /\ UNCHANGED <<disk, writes, sessionStartTime, savedStart, stateVars, serverVars, planVars>>
    BY <1>4 DEF ClockTicks, Tick, ctlVars
  <2>2. now \in Nat /\ now' \in Times /\ 0 .. now \subseteq 0 .. now'
    BY <2>1, SessionAssumption DEF FlowInv, StoreInv, Times, Horizon
  <2>3. GoodPuts(writes, now')
    BY <2>2 DEF FlowInv, StoreInv, GoodPuts, GoodPut
  <2>4. StoreInv'
    BY <2>1, <2>2, <2>3 DEF FlowInv, StoreInv, Past
  <2> QED
    BY <2>1, <2>4 DEF FlowInv, StateOK, ServersOK, PlanOK, stateVars, serverVars, planVars
<1> QED
  BY <1>1, <1>2, <1>3, <1>4


(* The switches: which timers and tunnels run, and where each task is.      *)
SessionFlags == sessionTimer \in BOOLEAN /\ saving \subseteq Tasks
LifeFlags == kills \in 0 .. MaxKills /\ initialized \in BOOLEAN /\ alive \in BOOLEAN
TimerFlags == /\ connectionTimeout \in BOOLEAN /\ checkTimer \in BOOLEAN
              /\ ownTimer \subseteq Checkers
NoticeFlags == /\ notificationShown \in BOOLEAN
               /\ notice \in {"none", "connected", "disconnected"}
NativeFlags == tunnel \in Tunnels /\ dialed \in Servers \cup {Null}
TriesOK == tries \in [Attempts -> 0 .. MaxPolls]

FlagsOK == SessionFlags /\ LifeFlags /\ TimerFlags /\ NoticeFlags /\ NativeFlags /\ TriesOK

\* A group that is left alone keeps its types.
LEMMA FlagsStay ==
  ASSUME FlagsOK
  PROVE  /\ UNCHANGED <<sessionTimer, saving>> => SessionFlags'
         /\ UNCHANGED <<kills, initialized, alive>> => LifeFlags'
         /\ UNCHANGED timerVars => TimerFlags'
         /\ UNCHANGED noticeVars => NoticeFlags'
         /\ UNCHANGED <<tunnel, dialed>> => NativeFlags'
         /\ tries' = tries => TriesOK'
  BY DEF FlagsOK, SessionFlags, LifeFlags, TimerFlags, NoticeFlags, NativeFlags, TriesOK,
         timerVars, noticeVars

\* The operations each keep the types of their group.
LEMMA FlagMoves ==
  ASSUME FlagsOK
  PROVE  /\ \A puts, callers : EndSession(puts, callers) => SessionFlags'
         /\ \A puts : \A t \in Tasks : StartSession(puts, t) => SessionFlags'
         /\ \A puts, t : FinishStart(puts, t) => SessionFlags'
         /\ StopTimers => TimerFlags'
         /\ ShowConnected => NoticeFlags'
         /\ EngineDisconnect => NativeFlags'
         /\ tunnel' \in Tunnels /\ dialed' = dialed => NativeFlags'
  BY DEF FlagsOK, SessionFlags, TimerFlags, NoticeFlags, NativeFlags, EndSession, StartSession,
         FinishStart, StopTimers, ShowConnected, EngineDisconnect, Tunnels, noticeVars


\* Ready for the next turn: the task is elsewhere, and nobody else has moved.
LEMMA TurnMoves ==
  ASSUME TurnsOK, NEW t \in Tasks, NEW label \in Labels, GoTo(t, label),
         \A u \in Selects : u # t => target'[u] = target[u],
         t \in Selects /\ label \in {"ending", "clearing"} => target'[t] \in Servers
  PROVE  TurnsOK'
<1>1. pc' \in [Tasks -> Labels] /\ pc'[t] = label /\ \A u \in Tasks : u # t => pc'[u] = pc[u]
  BY DEF TurnsOK, GoTo
<1>2. Selects \subseteq Tasks
  BY ControllerAssumption DEF Attempts
<1> QED
  BY <1>1, <1>2 DEF TurnsOK

\* A label that no choice of a server waits at.
Unchosen == Labels \ {"ending", "clearing"}

\* connect() goes on, or fails, to such a label.
LEMMA FailTurns ==
  ASSUME NEW t, ReturnFalse(t) \/ Throw(t) \/ (\E list : NextServer(t, list))
  PROVE  \E label \in Unchosen : GoTo(t, label)
  BY DEF ReturnFalse, Throw, NextServer, PickServer, GiveUp, Unchosen, Labels

\* Which task is of which kind.
LEMMA Kinds ==
  /\ Attempts \subseteq Tasks /\ Disconnects \subseteq Tasks /\ Callbacks \subseteq Tasks
  /\ Inits \subseteq Tasks /\ Selects \subseteq Attempts /\ Connects \subseteq Attempts
  /\ Connects \cap Selects = {} /\ Offs \cap Selects = {} /\ Expiries \cap Selects = {}
  /\ Callbacks \cap Selects = {} /\ Inits \cap Selects = {} /\ Checkers \subseteq Callbacks
  BY ControllerAssumption DEF Attempts, Disconnects, Callbacks

\* The choices of a server.
LEMMA ChoiceFlags ==
  ASSUME FlowInv, FlagsOK, TurnsOK, NEW t \in Attempts,
         TapConnect(t) \/ FetchReply(t) \/ (t \in Selects /\ SelectCleared(t))
  PROVE  FlagsOK' /\ TurnsOK'
<1>1. /\ UNCHANGED <<sessionTimer, saving, kills, initialized, alive>>
      /\ UNCHANGED <<timerVars, nativeVars, target, tries>>
  BY DEF TapConnect, FetchReply, SelectCleared, sessionVars, lifeVars
<1>2. NoticeFlags'
  BY DEF TapConnect, FetchReply, SelectCleared, FlagsOK, NoticeFlags, noticeVars
<1>3. FlagsOK'
  BY <1>1, <1>2, FlagsStay DEF FlagsOK, nativeVars
<1>4. \E label \in Unchosen : GoTo(t, label)
  <2>1. FetchReply(t) => \E list : NextServer(t, list)
    BY DEF FetchReply
  <2>2. "fetching" \in Unchosen /\ "saving" \in Unchosen
    BY DEF Unchosen, Labels
  <2> QED
    BY <2>1, <2>2, FailTurns DEF TapConnect, SelectCleared, PickServer
<1>5. TurnsOK'
  BY <1>1, <1>4, TurnMoves, Kinds DEF Unchosen
<1> QED
  BY <1>3, <1>5

\* disconnect(), and its end.
LEMMA DisconnectFlags ==
  ASSUME FlowInv, FlagsOK, TurnsOK, NEW t \in Disconnects,
         \/ (t \in Offs /\ TapDisconnect(t)) \/ (t \in Expiries /\ ExpireSession(t))
         \/ (t \in Selects /\ TapServer(t))
         \/ DisconnectEnded(t) \/ DisconnectCleared(t)
  PROVE  FlagsOK' /\ TurnsOK'
<1>1. t \in Tasks /\ "ending" \in Labels /\ "clearing" \in Labels /\ "idle" \in Labels
  BY Kinds DEF Labels
<1>2. CASE \/ (t \in Offs /\ TapDisconnect(t)) \/ (t \in Expiries /\ ExpireSession(t))
           \/ (t \in Selects /\ TapServer(t))
  <2>1. BeginDisconnect(t) /\ \E puts, callers : EndSession(puts, callers)
    BY <1>2 DEF TapDisconnect, ExpireSession, TapServer, HandleSessionExpired
  <2>2. /\ GoTo(t, "ending") /\ StopTimers /\ EngineDisconnect
        /\ UNCHANGED <<kills, initialized, alive, noticeVars, tries>>
    BY <2>1 DEF BeginDisconnect
  <2>3. FlagsOK'
    BY <2>1, <2>2, FlagMoves, FlagsStay DEF FlagsOK
  <2>4. /\ \A u \in Selects : u # t => target'[u] = target[u]
        /\ t \in Selects => target'[t] \in Servers
    BY <1>2, Kinds DEF TapDisconnect, ExpireSession, TapServer, FlowInv, PlanOK
  <2> QED
    BY <1>1, <2>2, <2>3, <2>4, TurnMoves
<1>3. CASE DisconnectEnded(t)
  <2>1. /\ GoTo(t, "clearing") /\ pc[t] = "ending" /\ notificationShown' = FALSE
        /\ UNCHANGED <<sessionVars, timerVars, notice, nativeVars, lifeVars, planVars>>
    BY <1>3 DEF DisconnectEnded, At
  <2>2. NoticeFlags'
    BY <2>1 DEF FlagsOK, NoticeFlags
  <2>3. FlagsOK'
    BY <2>1, <2>2, FlagsStay DEF FlagsOK, sessionVars, nativeVars, lifeVars, planVars
  <2>4. target' = target /\ (t \in Selects => target[t] \in Servers)
    BY <2>1 DEF planVars, TurnsOK
  <2> QED
    BY <1>1, <2>1, <2>3, <2>4, TurnMoves
<1>4. CASE DisconnectCleared(t)
  <2>1. /\ GoTo(t, "idle") /\ notice' = "disconnected" /\ notificationShown' = notificationShown
        /\ UNCHANGED <<sessionTimer, saving, kills, timerVars, nativeVars, alive, initialized, planVars>>
    BY <1>4 DEF DisconnectCleared, vars
  <2>2. NoticeFlags'
    BY <2>1 DEF FlagsOK, NoticeFlags
  <2>3. FlagsOK'
    BY <2>1, <2>2, FlagsStay DEF FlagsOK, nativeVars, planVars
  <2> QED
    BY <1>1, <2>1, <2>3, TurnMoves DEF planVars
<1> QED
  BY <1>2, <1>3, <1>4


\* The steps of an attempt.
LEMMA AttemptFlags ==
  ASSUME FlowInv, FlagsOK, TurnsOK, NEW t \in Attempts, Attempt(t)
  PROVE  FlagsOK' /\ TurnsOK'
<1>1. t \in Tasks /\ Unchosen \subseteq Labels
  BY Kinds DEF Unchosen
<1>2. ASSUME (\E label \in Unchosen : GoTo(t, label)) \/ UNCHANGED <<pc, target>>,
             \A u \in Selects : u # t => target'[u] = target[u]
      PROVE  TurnsOK'
  BY <1>1, <1>2, TurnMoves DEF Unchosen, TurnsOK
<1>3. /\ "preparing" \in Unchosen /\ "dialing" \in Unchosen /\ "polling" \in Unchosen
      /\ "starting" \in Unchosen /\ "recording" \in Unchosen /\ "done" \in Unchosen
  BY DEF Unchosen, Labels
<1>4. CASE ServerSaved(t)
  <2>1. /\ UNCHANGED <<sessionVars, timerVars, noticeVars, nativeVars, lifeVars, tries>>
        /\ \A u \in Selects : u # t => target'[u] = target[u]
    <3>1. target' = target \/ target' = [target EXCEPT ![t] = currentServer]
      BY <1>4 DEF ServerSaved
    <3>2. \A u \in Selects : u # t => target'[u] = target[u]
      BY <3>1, Kinds DEF FlowInv, PlanOK
    <3> QED
      BY <1>4, <3>2 DEF ServerSaved
  <2>2. \E label \in Unchosen : GoTo(t, label)
    BY <1>3, <1>4, FailTurns DEF ServerSaved
  <2>3. FlagsOK'
    BY <2>1, FlagsStay DEF FlagsOK, sessionVars, nativeVars, lifeVars
  <2> QED
    BY <1>2, <2>1, <2>2, <2>3
<1>5. CASE PrepareThrows(t) \/ DialThrows(t)
  <2>1. /\ UNCHANGED <<sessionVars, timerVars, noticeVars, nativeVars, lifeVars, target, tries>>
        /\ Throw(t)
    BY <1>5 DEF PrepareThrows, DialThrows
  <2>2. FlagsOK'
    BY <2>1, FlagsStay DEF FlagsOK, sessionVars, nativeVars, lifeVars
  <2> QED
    BY <1>2, <2>1, <2>2, FailTurns
<1>6. CASE Dial(t)
  <2>1. /\ UNCHANGED <<sessionTimer, saving, kills, alive, initialized, noticeVars, nativeVars, planVars>>
        /\ GoTo(t, "dialing")
    BY <1>6 DEF Dial, vars
  <2>2. TimerFlags'
    BY <1>6 DEF Dial, TimerFlags
  <2>3. FlagsOK'
    BY <2>1, <2>2, FlagsStay DEF FlagsOK, nativeVars, planVars
  <2> QED
    BY <1>2, <1>3, <2>1, <2>3 DEF planVars
<1>7. CASE DialReturns(t)
  <2>1. /\ UNCHANGED <<sessionTimer, saving, kills, alive, initialized, noticeVars, timerVars, target>>
        /\ GoTo(t, "polling") /\ tries' = [tries EXCEPT ![t] = 0]
        /\ tunnel' = "starting" /\ dialed' = target[t]
    BY <1>7 DEF DialReturns, vars, EngineConnect
  <2>2. NativeFlags'
    BY <2>1 DEF NativeFlags, Tunnels, FlowInv, PlanOK
  <2>3. TriesOK'
    BY <2>1, ControllerAssumption DEF FlagsOK, TriesOK
  <2>4. FlagsOK'
    BY <2>1, <2>2, <2>3, FlagsStay DEF FlagsOK
  <2> QED
    BY <1>2, <1>3, <2>1, <2>4
<1>8. CASE PollConnected(t)
  <2>1. /\ StopTimers /\ UNCHANGED <<noticeVars, nativeVars, lifeVars, planVars>>
        /\ \E puts : StartSession(puts, t)
        /\ GoTo(t, "starting") \/ GoTo(t, "recording")
    BY <1>8 DEF PollConnected
  <2>2. FlagsOK'
    BY <1>1, <2>1, FlagMoves, FlagsStay DEF FlagsOK, nativeVars, lifeVars, planVars
  <2> QED
    BY <1>2, <1>3, <2>1, <2>2 DEF planVars
<1>9. CASE AttemptStarted(t)
  <2>1. /\ UNCHANGED <<timerVars, noticeVars, nativeVars, lifeVars, planVars>>
        /\ \E puts : FinishStart(puts, t)
        /\ GoTo(t, "recording")
    BY <1>9 DEF AttemptStarted
  <2>2. FlagsOK'
    BY <1>1, <2>1, FlagMoves, FlagsStay DEF FlagsOK, nativeVars, lifeVars, planVars
  <2> QED
    BY <1>2, <1>3, <2>1, <2>2 DEF planVars
<1>10. CASE AttemptRecorded(t)
  <2>1. /\ UNCHANGED <<sessionTimer, saving, kills, alive, initialized, timerVars, noticeVars, nativeVars, planVars>>
        /\ GoTo(t, "done")
    BY <1>10 DEF AttemptRecorded, vars
  <2>2. FlagsOK'
    BY <2>1, FlagsStay DEF FlagsOK, nativeVars, planVars
  <2> QED
    BY <1>2, <1>3, <2>1, <2>2 DEF planVars
<1>11. CASE PollRound(t)
  <2>1. /\ UNCHANGED <<sessionVars, noticeVars, lifeVars, target>>
        /\ tries[t] < MaxPolls
    BY <1>11 DEF PollRound
  <2>2. TriesOK'
    <3>1. tries[t] \in 0 .. MaxPolls /\ tries[t] + 1 \in 0 .. MaxPolls
      BY <2>1, ControllerAssumption DEF FlagsOK, TriesOK
    <3>2. tries' = tries \/ tries' = [tries EXCEPT ![t] = tries[t] + 1]
      BY <1>11 DEF PollRound
    <3> QED
      BY <3>1, <3>2 DEF FlagsOK, TriesOK
  <2>3. TimerFlags' /\ NativeFlags'
    BY <1>11, FlagMoves, FlagsStay DEF PollRound, nativeVars
  <2>4. FlagsOK'
    BY <2>1, <2>2, <2>3, FlagsStay DEF FlagsOK, sessionVars, lifeVars
  <2>5. (\E label \in Unchosen : GoTo(t, label)) \/ UNCHANGED <<pc, target>>
    BY <1>3, <1>11, FailTurns DEF PollRound
  <2> QED
    BY <1>2, <2>1, <2>4, <2>5
<1>12. CASE PollExhausted(t)
  <2>1. /\ UNCHANGED <<sessionVars, noticeVars, lifeVars, target, tries>>
        /\ EngineDisconnect /\ ReturnFalse(t)
    BY <1>12 DEF PollExhausted
  <2>2. TimerFlags'
    BY <1>12 DEF PollExhausted, FlagsOK, TimerFlags
  <2>3. FlagsOK'
    BY <2>1, <2>2, FlagMoves, FlagsStay DEF FlagsOK, sessionVars, lifeVars
  <2> QED
    BY <1>2, <2>1, <2>3, FailTurns
<1> QED
  BY <1>4, <1>5, <1>6, <1>7, <1>8, <1>9, <1>10, <1>11, <1>12 DEF Attempt


\* The timers, refreshStage and the stages of the native side.
LEMMA ReportFlags ==
  ASSUME FlowInv, FlagsOK, TurnsOK, NEW t \in Callbacks,
         \/ (t \in Checkers /\ (CheckTimerFires(t) \/ CheckReplyDown(t) \/ CheckReplyUp(t)))
         \/ BeginRefresh(t) \/ RefreshReply(t) \/ ReportStarted(t) \/ RefreshEnded(t)
         \/ StageEvent(t) \/ StageReply(t) \/ StageEnded(t)
  PROVE  FlagsOK' /\ TurnsOK'
<1>1. t \in Tasks /\ t \notin Selects
  BY Kinds
<1>2. ASSUME (\E label \in Labels : GoTo(t, label)) \/ UNCHANGED pc, target' = target
      PROVE  TurnsOK'
  BY <1>1, <1>2, TurnMoves DEF TurnsOK
<1>3. /\ "idle" \in Labels /\ "checking" \in Labels /\ "refreshing" \in Labels
      /\ "starting" \in Labels /\ "ending" \in Labels /\ "done" \in Labels
  BY DEF Labels
<1> USE DEF planVars
<1>4. CASE CheckTimerFires(t) /\ t \in Checkers
  <2>1. /\ UNCHANGED <<sessionTimer, saving, kills, alive, initialized, noticeVars, nativeVars>>
        /\ UNCHANGED <<target, tries, connectionTimeout>>
    BY <1>4 DEF CheckTimerFires, vars
  <2>2. TimerFlags'
    BY <1>4 DEF CheckTimerFires, FlagsOK, TimerFlags
  <2>3. (\E label \in Labels : GoTo(t, label)) \/ UNCHANGED pc
    BY <1>3, <1>4 DEF CheckTimerFires
  <2> QED
    BY <1>2, <2>1, <2>2, <2>3, FlagsStay DEF FlagsOK, nativeVars
<1>5. CASE CheckReplyDown(t)
  <2>1. /\ UNCHANGED <<sessionTimer, saving, kills, alive, initialized, noticeVars, nativeVars>>
        /\ UNCHANGED <<target, tries>> /\ GoTo(t, "idle")
    BY <1>5 DEF CheckReplyDown, vars
  <2>2. TimerFlags'
    BY <1>5 DEF CheckReplyDown, FlagsOK, TimerFlags
  <2> QED
    BY <1>2, <1>3, <2>1, <2>2, FlagsStay DEF FlagsOK, nativeVars
<1>6. CASE CheckReplyUp(t)
  <2>1. /\ UNCHANGED <<nativeVars, kills, alive, initialized, target, tries>>
        /\ \E puts : StartSession(puts, t)
        /\ GoTo(t, "starting") \/ GoTo(t, "idle")
        /\ ShowConnected \/ UNCHANGED noticeVars
    BY <1>6 DEF CheckReplyUp, lifeVars
  <2>2. TimerFlags'
    <3>1. /\ checkTimer' \in BOOLEAN /\ connectionTimeout' = FALSE
          /\ ownTimer' = {} \/ ownTimer' = ownTimer
      BY <1>6 DEF CheckReplyUp
    <3> QED
      BY <3>1 DEF FlagsOK, TimerFlags
  <2> QED
    BY <1>1, <1>2, <1>3, <2>1, <2>2, FlagMoves, FlagsStay DEF FlagsOK, nativeVars
<1>7. CASE BeginRefresh(t)
  <2>1. /\ UNCHANGED <<sessionTimer, saving, kills, alive, initialized, noticeVars, nativeVars>>
        /\ UNCHANGED <<timerVars, target, tries>> /\ GoTo(t, "refreshing")
    BY <1>7 DEF BeginRefresh, vars
  <2> QED
    BY <1>2, <1>3, <2>1, FlagsStay DEF FlagsOK, nativeVars
<1>8. CASE RefreshReply(t)
  <2>1. /\ UNCHANGED <<nativeVars, timerVars, kills, alive, initialized, target, tries>>
        /\ ShowConnected \/ UNCHANGED noticeVars
        /\ GoTo(t, "starting") \/ GoTo(t, "ending") \/ GoTo(t, "done")
    BY <1>8 DEF RefreshReply, lifeVars
  <2>2. SessionFlags'
    BY <1>1, <1>8, FlagMoves, FlagsStay DEF RefreshReply, sessionVars
  <2> QED
    BY <1>2, <1>3, <2>1, <2>2, FlagMoves, FlagsStay DEF FlagsOK, nativeVars
<1>9. CASE ReportStarted(t)
  <2>1. /\ UNCHANGED <<nativeVars, timerVars, kills, alive, initialized, target, tries>>
        /\ ShowConnected /\ \E puts : FinishStart(puts, t)
        /\ GoTo(t, "idle") \/ GoTo(t, "done")
    BY <1>9 DEF ReportStarted, lifeVars
  <2> QED
    BY <1>2, <1>3, <2>1, FlagMoves, FlagsStay DEF FlagsOK, nativeVars
<1>10. CASE RefreshEnded(t) \/ StageEnded(t)
  <2>1. /\ UNCHANGED <<sessionTimer, saving, kills, alive, initialized, nativeVars>>
        /\ UNCHANGED <<timerVars, target, tries>> /\ (GoTo(t, "done") \/ GoTo(t, "idle"))
        /\ notice' = "disconnected" /\ notificationShown' \in {FALSE, notificationShown}
    BY <1>10 DEF RefreshEnded, StageEnded, vars
  <2>2. NoticeFlags'
    BY <2>1 DEF FlagsOK, NoticeFlags
  <2> QED
    BY <1>2, <1>3, <2>1, <2>2, FlagsStay DEF FlagsOK, nativeVars
<1>11. CASE StageEvent(t)
  <2>1. /\ UNCHANGED <<sessionTimer, saving, kills, alive, initialized, noticeVars>>
        /\ UNCHANGED <<tunnel, dialed, timerVars, target, tries>> /\ GoTo(t, "checking")
    BY <1>11 DEF StageEvent, vars
  <2> QED
    BY <1>2, <1>3, <2>1, FlagsStay DEF FlagsOK
<1>12. CASE StageReply(t)
  <2>1. /\ UNCHANGED <<nativeVars, noticeVars, kills, alive, initialized, target, tries>>
        /\ GoTo(t, "idle") \/ GoTo(t, "ending")
    BY <1>12 DEF StageReply, lifeVars
  <2>2. SessionFlags' /\ TimerFlags'
    BY <1>12, FlagMoves, FlagsStay
       DEF StageReply, sessionVars, timerVars, FlagsOK, TimerFlags
  <2> QED
    BY <1>2, <1>3, <2>1, <2>2, FlagsStay DEF FlagsOK, nativeVars
<1> QED
  BY <1>4, <1>5, <1>6, <1>7, <1>8, <1>9, <1>10, <1>11, <1>12

\* init(), by either of its callers.
LEMMA InitFlags ==
  ASSUME FlowInv, FlagsOK, TurnsOK, NEW i \in Inits, InitEngineReady(i) \/ InitSessionEnded(i)
  PROVE  FlagsOK' /\ TurnsOK'
<1>1. i \in Tasks /\ i \notin Selects /\ "ending" \in Labels /\ "done" \in Labels
  BY Kinds DEF Labels
<1>2. /\ UNCHANGED <<kills, alive, timerVars, noticeVars, tunnel, dialed, target, tries>>
      /\ GoTo(i, "ending") \/ GoTo(i, "done")
      /\ initialized' = initialized \/ initialized' = TRUE
  BY DEF InitEngineReady, InitSessionEnded, Restore, planVars, nativeVars, vars
<1>3. SessionFlags'
  <2>1. CASE InitSessionEnded(i)
    BY <2>1, FlagsStay DEF InitSessionEnded, vars
  <2>2. CASE InitEngineReady(i)
    <3>1. CASE UNCHANGED sessionVars
      BY <3>1, FlagsStay DEF sessionVars
    <3>2. CASE sessionTimer' = TRUE /\ UNCHANGED saving
      BY <3>2 DEF FlagsOK, SessionFlags
    <3>3. CASE EndSession(<<>>, <<i>>)
      BY <3>3, FlagMoves
    <3> QED
      BY <2>2, <3>1, <3>2, <3>3 DEF InitEngineReady, Initialize
  <2> QED
    BY <2>1, <2>2
<1>4. LifeFlags'
  BY <1>2 DEF FlagsOK, LifeFlags
<1> QED
  BY <1>1, <1>2, <1>3, <1>4, FlagsStay, TurnMoves DEF FlagsOK

\* Launch, kill, tunnel, timeout, clock and device.
LEMMA ElseFlags ==
  ASSUME FlowInv, FlagsOK, TurnsOK,
         \/ LaunchApp \/ KillApp \/ TunnelMoves \/ TimeoutFires \/ ExpireUnheard
         \/ ClockTicks \/ PrefsWrite \/ UNCHANGED allVars
  PROVE  FlagsOK' /\ TurnsOK'
<1> USE DEF nativeVars, planVars
<1>1. CASE LaunchApp
  <2>1. /\ UNCHANGED <<sessionTimer, saving, kills, initialized, timerVars, noticeVars, nativeVars, tries>>
        /\ alive' = TRUE
        /\ pc' = [t \in Tasks |-> IF t \in Inits THEN "engine" ELSE "idle"]
    BY <1>1 DEF LaunchApp, vars
  <2>2. LifeFlags'
    BY <2>1 DEF FlagsOK, LifeFlags
  <2>3. TurnsOK'
    <3>1. pc' \in [Tasks -> Labels]
      BY <2>1 DEF Labels
    <3>2. \A t \in Selects : pc'[t] \notin {"ending", "clearing"}
      BY <2>1, Kinds
    <3> QED
      BY <3>1, <3>2 DEF TurnsOK
  <2> QED
    BY <2>1, <2>2, <2>3, FlagsStay DEF FlagsOK
<1>2. CASE KillApp
  <2>1. /\ sessionTimer' = FALSE /\ saving' = {} /\ kills < MaxKills /\ kills' = kills + 1
        /\ initialized' = FALSE /\ alive' = FALSE /\ StopTimers
        /\ notificationShown' = FALSE /\ UNCHANGED <<notice, tunnel, dialed>>
        /\ pc' = [t \in Tasks |-> "idle"] /\ tries' = [t \in Attempts |-> 0]
    BY <1>2 DEF KillApp, ForgetSession
  <2>2. SessionFlags' /\ NoticeFlags'
    BY <2>1 DEF FlagsOK, SessionFlags, NoticeFlags
  <2>3. LifeFlags'
    <3>1. kills' \in 0 .. MaxKills
      <4>1. kills \in 0 .. MaxKills /\ MaxKills \in Nat
        BY SessionAssumption DEF FlagsOK, LifeFlags
      <4>2. kills < MaxKills /\ kills' = kills + 1
        BY <2>1
      <4> QED
        BY <4>1, <4>2
    <3> QED
      BY <2>1, <3>1 DEF LifeFlags
  <2>4. TriesOK'
    <3>1. 0 \in 0 .. MaxPolls
      BY ControllerAssumption
    <3> QED
      BY <2>1, <3>1 DEF TriesOK
  <2>5. TurnsOK'
    <3>1. pc' \in [Tasks -> Labels]
      BY <2>1 DEF Labels
    <3>2. \A t \in Selects : pc'[t] \notin {"ending", "clearing"}
      BY <2>1, Kinds
    <3> QED
      BY <3>1, <3>2 DEF TurnsOK
  <2> QED
    BY <2>1, <2>2, <2>3, <2>4, <2>5, FlagMoves, FlagsStay DEF FlagsOK
<1>3. CASE TunnelMoves
  <2>1. /\ UNCHANGED <<sessionTimer, saving, kills, alive, initialized, timerVars, noticeVars>>
        /\ UNCHANGED <<dialed, tries, target, pc>> /\ tunnel' \in {"up", "down"}
    BY <1>3 DEF TunnelMoves, vars
  <2>2. tunnel' \in Tunnels
    BY <2>1 DEF Tunnels
  <2> QED
    BY <2>1, <2>2, FlagMoves, FlagsStay DEF FlagsOK, TurnsOK
<1>4. CASE TimeoutFires
  <2>1. UNCHANGED <<sessionVars, noticeVars, lifeVars, tries, target, pc>>
    BY <1>4 DEF TimeoutFires
  <2>2. TimerFlags' /\ NativeFlags'
    <3>1. /\ connectionTimeout' = FALSE
          /\ checkTimer' = FALSE \/ checkTimer' = checkTimer
          /\ ownTimer' = {} \/ ownTimer' = ownTimer
          /\ EngineDisconnect \/ UNCHANGED nativeVars
      BY <1>4 DEF TimeoutFires
    <3> QED
      BY <3>1, FlagMoves, FlagsStay DEF FlagsOK, TimerFlags
  <2> QED
    BY <2>1, <2>2, FlagsStay DEF FlagsOK, TurnsOK, sessionVars, lifeVars
<1>5. CASE ExpireUnheard
  <2>1. /\ EndSession(<<>>, <<Null>>)
        /\ UNCHANGED <<kills, alive, initialized, timerVars, noticeVars, nativeVars, planVars, pc>>
    BY <1>5 DEF ExpireUnheard, ctlVars
  <2> QED
    BY <2>1, FlagMoves, FlagsStay DEF FlagsOK, TurnsOK
<1>6. CASE ClockTicks \/ PrefsWrite \/ UNCHANGED allVars
  <2>1. /\ UNCHANGED <<sessionTimer, saving, kills, alive, initialized, timerVars, noticeVars>>
        /\ UNCHANGED <<nativeVars, planVars, pc>>
    BY <1>6 DEF ClockTicks, Tick, PrefsWrite, Write, allVars, ctlVars, vars, sessionVars
  <2> QED
    BY <2>1, FlagsStay DEF FlagsOK, TurnsOK
<1> QED
  BY <1>1, <1>2, <1>3, <1>4, <1>5, <1>6


\* The init() calls of this launch that have reached the engine.
Reached == {i \in Inits : pc[i] \notin {"idle", "engine"}}

\* They are counted, and each has asked the native side for one stage.
CountInv ==
  /\ DOMAIN pc = Tasks
  /\ ~alive => \A i \in Inits : pc[i] = "idle"
  /\ inits = Cardinality(Reached)
  /\ stageEvents \in Nat /\ stageEvents <= inits

\* A turn of another task is not counted.
LEMMA CountTurn ==
  ASSUME CountInv, UNCHANGED <<alive, inits>>,
         \/ \E t \in Tasks \ Inits : \E label : GoTo(t, label)
         \/ UNCHANGED pc,
         \/ stageEvents' = stageEvents
         \/ stageEvents > 0 /\ stageEvents' = stageEvents - 1
  PROVE  CountInv'
<1>1. DOMAIN pc' = Tasks /\ \A i \in Inits : pc'[i] = pc[i]
  BY Kinds DEF CountInv, GoTo
<1>2. Reached' = Reached
  BY <1>1 DEF Reached
<1>3. inits \in Nat
  BY <1>2, FS_CardinalityType, FS_Subset, ControllerAssumption DEF CountInv, Reached
<1>4. stageEvents' \in Nat /\ stageEvents' <= inits
  BY <1>3 DEF CountInv
<1> QED
  BY <1>1, <1>2, <1>4 DEF CountInv

\* No more of them than there are.
LEMMA CountBounds ==
  ASSUME CountInv
  PROVE  inits \in 0 .. Cardinality(Inits) /\ stageEvents \in 0 .. Cardinality(Inits)
<1>1. IsFiniteSet(Inits) /\ Reached \subseteq Inits
  BY ControllerAssumption DEF Reached
<1>2. /\ IsFiniteSet(Reached) /\ Cardinality(Reached) \in Nat
      /\ Cardinality(Inits) \in Nat /\ Cardinality(Reached) <= Cardinality(Inits)
  BY <1>1, FS_Subset, FS_CardinalityType
<1> QED
  BY <1>2 DEF CountInv

\* An init() that reaches the engine is counted once.
LEMMA InitCounts ==
  ASSUME CountInv, TurnsOK, NEW i \in Inits, InitEngineReady(i) \/ InitSessionEnded(i)
  PROVE  CountInv'
<1>1. IsFiniteSet(Reached) /\ inits \in Nat /\ i \in Tasks
  BY ControllerAssumption, FS_Subset, FS_CardinalityType, Kinds DEF Reached, CountInv
<1>2. /\ alive' = alive /\ alive /\ DOMAIN pc' = Tasks /\ pc'[i] \in {"ending", "done"}
      /\ \A j \in Inits : j # i => pc'[j] = pc[j]
  <2>1. GoTo(i, "ending") \/ GoTo(i, "done")
    BY DEF InitEngineReady, InitSessionEnded, Restore
  <2>2. alive' = alive /\ alive
    BY DEF InitEngineReady, InitSessionEnded, At
  <2> QED
    BY <1>1, <2>1, <2>2, Kinds DEF GoTo, CountInv
<1>3. CASE InitEngineReady(i)
  <2>1. i \notin Reached /\ inits' = inits + 1 /\ stageEvents' = stageEvents + 1
    BY <1>3 DEF InitEngineReady, At, Reached
  <2>2. Reached' = Reached \cup {i}
    BY <1>2 DEF Reached
  <2>3. Cardinality(Reached') = Cardinality(Reached) + 1
    BY <1>1, <2>1, <2>2, FS_AddElement
  <2> QED
    BY <1>1, <1>2, <2>1, <2>3 DEF CountInv
<1>4. CASE InitSessionEnded(i)
  <2>1. i \in Reached /\ UNCHANGED <<inits, stageEvents>>
    BY <1>4 DEF InitSessionEnded, At, Reached, vars, nativeVars
  <2>2. Reached' = Reached
    BY <1>2, <2>1 DEF Reached
  <2> QED
    BY <1>2, <2>1, <2>2 DEF CountInv
<1> QED
  BY <1>3, <1>4

\* What no init() does.
LEMMA OtherCounts ==
  ASSUME CountInv, NEW t \in Tasks \ Inits,
         \/ TapConnect(t) \/ FetchReply(t) \/ SelectCleared(t) \/ Attempt(t)
         \/ TapDisconnect(t) \/ ExpireSession(t) \/ TapServer(t)
         \/ DisconnectEnded(t) \/ DisconnectCleared(t)
         \/ CheckTimerFires(t) \/ CheckReplyDown(t) \/ CheckReplyUp(t)
         \/ BeginRefresh(t) \/ RefreshReply(t) \/ ReportStarted(t) \/ RefreshEnded(t)
         \/ StageEvent(t) \/ StageReply(t) \/ StageEnded(t)
  PROVE  CountInv'
<1> USE DEF lifeVars, nativeVars
<1> DEFINE Moves == (\E label : GoTo(t, label)) \/ UNCHANGED pc
           Keeps == UNCHANGED <<alive, inits, stageEvents>>
<1>1. ASSUME ReturnFalse(t) \/ Throw(t) \/ (\E list : NextServer(t, list))
      PROVE  \E label : GoTo(t, label)
  BY <1>1, FailTurns
<1>2. CASE TapConnect(t) \/ FetchReply(t) \/ SelectCleared(t)
  BY <1>1, <1>2, CountTurn DEF TapConnect, FetchReply, SelectCleared, PickServer
<1>3. CASE Attempt(t)
  <2>1. Keeps
    BY <1>3 DEF Attempt, ServerSaved, PrepareThrows, Dial, DialThrows, DialReturns, PollConnected,
       PollRound, PollExhausted, AttemptStarted, AttemptRecorded, vars, EngineDisconnect,
       EngineConnect
  <2>2. Moves
    BY <1>1, <1>3 DEF Attempt, ServerSaved, PrepareThrows, Dial, DialThrows, DialReturns,
       PollConnected, PollRound, PollExhausted, AttemptStarted, AttemptRecorded
  <2> QED
    BY <2>1, <2>2, CountTurn
<1>4. CASE TapDisconnect(t) \/ ExpireSession(t) \/ TapServer(t)
  BY <1>4, CountTurn DEF TapDisconnect, ExpireSession, TapServer, BeginDisconnect, EngineDisconnect
<1>5. CASE DisconnectEnded(t) \/ DisconnectCleared(t)
  BY <1>5, CountTurn DEF DisconnectEnded, DisconnectCleared, vars
<1>6. CASE CheckTimerFires(t) \/ CheckReplyDown(t) \/ CheckReplyUp(t)
  BY <1>6, CountTurn DEF CheckTimerFires, CheckReplyDown, CheckReplyUp, vars
<1>7. CASE BeginRefresh(t) \/ RefreshReply(t) \/ ReportStarted(t) \/ RefreshEnded(t)
  BY <1>7, CountTurn DEF BeginRefresh, RefreshReply, ReportStarted, RefreshEnded, vars
<1>8. CASE StageEvent(t)
  BY <1>8, CountTurn DEF StageEvent, vars
<1>9. CASE StageReply(t) \/ StageEnded(t)
  BY <1>9, CountTurn DEF StageReply, StageEnded, vars
<1> QED
  BY <1>2, <1>3, <1>4, <1>5, <1>6, <1>7, <1>8, <1>9

\* Launch, kill, and what is no task's.
LEMMA ElseCounts ==
  ASSUME CountInv,
         \/ LaunchApp \/ KillApp \/ TunnelMoves \/ TimeoutFires \/ ExpireUnheard
         \/ ClockTicks \/ PrefsWrite \/ UNCHANGED allVars
  PROVE  CountInv'
<1>1. CASE LaunchApp \/ KillApp
  <2>1. \A i \in Inits : pc'[i] \in {"idle", "engine"}
    BY <1>1, Kinds DEF LaunchApp, KillApp
  <2>2. Reached' = {}
    BY <2>1 DEF Reached
  <2>3. LaunchApp => Reached = {}
    BY DEF LaunchApp, CountInv, Reached
  <2>4. inits' = 0 /\ stageEvents' \in Nat /\ stageEvents' <= 0
    <3>1. CASE KillApp
      BY <3>1 DEF KillApp
    <3>2. CASE LaunchApp
      <4>1. inits = 0 /\ stageEvents \in Nat /\ stageEvents <= inits
        BY <2>3, <3>2, FS_EmptySet DEF CountInv
      <4> QED
        BY <3>2, <4>1 DEF LaunchApp, vars, nativeVars
    <3> QED
      BY <1>1, <3>1, <3>2
  <2>5. DOMAIN pc' = Tasks /\ (~alive' => \A i \in Inits : pc'[i] = "idle")
    BY <1>1, Kinds DEF LaunchApp, KillApp
  <2> QED
    BY <2>2, <2>4, <2>5, FS_EmptySet DEF CountInv
<1>2. CASE \/ TunnelMoves \/ TimeoutFires \/ ExpireUnheard
           \/ ClockTicks \/ PrefsWrite \/ UNCHANGED allVars
  <2>1. UNCHANGED <<alive, inits, stageEvents, pc>>
    BY <1>2 DEF TunnelMoves, TimeoutFires, ExpireUnheard, ClockTicks, Tick, PrefsWrite, Write,
                EngineDisconnect, allVars, ctlVars, vars, nativeVars, lifeVars
  <2> QED
    BY <2>1, CountTurn
<1> QED
  BY <1>1, <1>2

(* The types hold together: what is in memory, what is on its way to the     *)
(* device, and where the tasks are.                                          *)
TypeInv == FlowInv /\ FlagsOK /\ TurnsOK /\ CountInv

\* They hold of a first launch.
LEMMA TypeInitInv == ControllerInit => TypeInv
<1> SUFFICES ASSUME ControllerInit PROVE TypeInv
  OBVIOUS
<1>1. 0 \in Times /\ 0 \in 0 .. MaxKills /\ 0 \in 0 .. MaxPolls
  BY SessionAssumption, ControllerAssumption DEF Times, Horizon
<1>2. StoreInv
  BY <1>1, GoodNone DEF ControllerInit, StoreInv, Past
<1>3. StateOK /\ ServersOK
  BY DEF ControllerInit, StateOK, ServersOK, States
<1>4. PlanOK
  BY DEF ControllerInit, PlanOK
<1>5. SessionFlags /\ TimerFlags /\ NoticeFlags /\ NativeFlags
  BY DEF ControllerInit, SessionFlags, TimerFlags, NoticeFlags, NativeFlags, Tunnels
<1>6. LifeFlags /\ TriesOK
  BY <1>1 DEF ControllerInit, LifeFlags, TriesOK
<1>7. TurnsOK
  BY Kinds DEF ControllerInit, TurnsOK, Labels
<1>8. CountInv
  <2>1. Reached = {}
    BY Kinds DEF ControllerInit, Reached
  <2> QED
    BY <2>1, Kinds, FS_EmptySet DEF ControllerInit, CountInv
<1> QED
  BY <1>2, <1>3, <1>4, <1>5, <1>6, <1>7, <1>8 DEF TypeInv, FlowInv, FlagsOK

\* Every step keeps them.
LEMMA TypeNextInv == TypeInv /\ [ControllerNext]_allVars => TypeInv'
<1> SUFFICES ASSUME TypeInv, [ControllerNext]_allVars PROVE TypeInv'
  OBVIOUS
<1> USE DEF TypeInv
<1>1. /\ Connects \subseteq Attempts /\ Selects \subseteq Attempts
      /\ Selects \subseteq Disconnects /\ Offs \subseteq Disconnects
      /\ Expiries \subseteq Disconnects
      /\ Resumes \subseteq Callbacks /\ Stages \subseteq Callbacks /\ Checkers \subseteq Callbacks
  BY DEF Attempts, Disconnects, Callbacks
<1>2. /\ Attempts \subseteq Tasks \ Inits /\ Disconnects \subseteq Tasks \ Inits
      /\ Callbacks \subseteq Tasks \ Inits
  BY OtherTasks
<1>3. ASSUME NEW t \in Attempts,
             TapConnect(t) \/ FetchReply(t) \/ (t \in Selects /\ SelectCleared(t)) \/ Attempt(t)
      PROVE  TypeInv'
  BY <1>2, <1>3, ChoiceFlows, ChoiceFlags, AttemptFlows, AttemptFlags, OtherCounts
<1>4. ASSUME NEW t \in Disconnects,
             \/ (t \in Offs /\ TapDisconnect(t)) \/ (t \in Expiries /\ ExpireSession(t))
             \/ (t \in Selects /\ TapServer(t))
             \/ DisconnectEnded(t) \/ DisconnectCleared(t)
      PROVE  TypeInv'
  BY <1>2, <1>4, DisconnectFlows, DisconnectFlags, OtherCounts
<1>5. ASSUME NEW t \in Callbacks,
             \/ (t \in Checkers /\ (CheckTimerFires(t) \/ CheckReplyDown(t) \/ CheckReplyUp(t)))
             \/ BeginRefresh(t) \/ RefreshReply(t) \/ ReportStarted(t) \/ RefreshEnded(t)
             \/ StageEvent(t) \/ StageReply(t) \/ StageEnded(t)
      PROVE  TypeInv'
  BY <1>2, <1>5, ReportFlows, ReportFlags, OtherCounts
<1>6. ASSUME NEW i \in Inits, InitEngineReady(i) \/ InitSessionEnded(i) PROVE TypeInv'
  BY <1>6, InitFlows, InitFlags, InitCounts
<1>7. ASSUME \/ LaunchApp \/ KillApp \/ TunnelMoves \/ TimeoutFires \/ ExpireUnheard
             \/ ClockTicks \/ PrefsWrite \/ UNCHANGED allVars
      PROVE  TypeInv'
  BY <1>7, ElseFlows, KillFlows, WriteFlows, ElseFlags, ElseCounts
<1> HIDE DEF TypeInv
<1>8. CASE Environment
  <2>1. CASE LaunchApp \/ KillApp \/ TunnelMoves
    BY <1>7, <2>1
  <2>2. ASSUME NEW t \in Connects, TapConnect(t) PROVE TypeInv'
    BY <1>1, <1>3, <2>2
  <2>3. ASSUME NEW t \in Selects, TapServer(t) PROVE TypeInv'
    BY <1>1, <1>4, <2>3
  <2>4. ASSUME NEW t \in Offs, TapDisconnect(t) PROVE TypeInv'
    BY <1>1, <1>4, <2>4
  <2>5. ASSUME NEW t \in Resumes, BeginRefresh(t) PROVE TypeInv'
    BY <1>1, <1>5, <2>5
  <2> QED
    BY <1>8, <2>1, <2>2, <2>3, <2>4, <2>5 DEF Environment
<1>9. ASSUME NEW t \in Tasks, Program(t) PROVE TypeInv'
  <2>1. CASE t \in Inits /\ (InitEngineReady(t) \/ InitSessionEnded(t))
    BY <1>6, <2>1
  <2>2. CASE \/ t \in Connects /\ (FetchReply(t) \/ Attempt(t))
             \/ t \in Selects /\ (SelectCleared(t) \/ Attempt(t))
    BY <1>1, <1>3, <2>2
  <2>3. CASE \/ t \in Selects /\ DisconnectEnded(t)
             \/ t \in Offs /\ (DisconnectEnded(t) \/ DisconnectCleared(t))
             \/ t \in Expiries /\ (\/ ExpireSession(t) \/ DisconnectEnded(t)
                                   \/ DisconnectCleared(t))
    BY <1>1, <1>4, <2>3
  <2>4. CASE \/ t \in Resumes /\ (RefreshReply(t) \/ ReportStarted(t) \/ RefreshEnded(t))
             \/ t \in Checkers /\ (\/ CheckTimerFires(t) \/ CheckReplyDown(t)
                                   \/ CheckReplyUp(t) \/ ReportStarted(t))
             \/ t \in Stages /\ (StageEvent(t) \/ StageReply(t) \/ StageEnded(t))
    BY <1>1, <1>5, <2>4
  <2> QED
    BY <1>9, <2>1, <2>2, <2>3, <2>4 DEF Program
<1>10. CASE ExpireUnheard \/ TimeoutFires \/ ClockTicks \/ PrefsWrite \/ UNCHANGED allVars
  BY <1>7, <1>10
<1> QED
  BY <1>8, <1>9, <1>10 DEF ControllerNext

\* The types of the controller's state and of all it persists: no session on
\* record was started later than now, at most one stage is replayed per init(),
\* and what a kill brings back from the device is a state or a server.
THEOREM ControllerTypes == ControllerSpec => []ControllerTypeOK
<1>1. TypeInv => ControllerTypeOK
  <2> SUFFICES ASSUME TypeInv PROVE ControllerTypeOK
    OBVIOUS
  <2>1. inits \in 0 .. Cardinality(Inits) /\ stageEvents \in 0 .. Cardinality(Inits)
    BY CountBounds DEF TypeInv
  <2> QED
    BY <2>1 DEF TypeInv, FlowInv, StoreInv, StateOK, ServersOK, PlanOK, FlagsOK, SessionFlags,
       LifeFlags, TimerFlags, NoticeFlags, NativeFlags, TriesOK, TurnsOK, ControllerTypeOK
<1> QED
  BY <1>1, TypeInitInv, TypeNextInv, PTL DEF ControllerSpec

(* ------------------- no orphan tunnel of a single attempt ---------------- *)
\* One choice of a server, or one tap that fetches one server at most.
Single == /\ \A t, u \in Attempts : t = u
          /\ \A list \in ServerLists : Len(list) <= 1

\* Where an attempt is before it has dialled.
Undialed == {"idle", "ending", "clearing", "fetching", "saving", "preparing", "dialing"}
Early == \A t \in Attempts : pc[t] \in Undialed
Polling == \E t \in Attempts : pc[t] = "polling"

\* A tunnel comes up behind an attempt that is still waiting for it, or behind
\* a state that says so; until an attempt has dialled there is none to see.
Attended ==
  /\ ~alive => \A t \in Attempts : pc[t] = "idle"
  /\ Early => tunnel = "down" /\ state # "connected"
  /\ tunnel = "starting" => Polling /\ state # "connected"
  /\ tunnel = "up" => Polling \/ state = "connected"

\* What is restored is the state as it is, and there is no second server.
Unchanging == lastState = state \/ (lastState = Null /\ state = "disconnected")
NoSecond == Len(fetched) <= 1 /\ \A t \in Attempts : todo[t] = <<>>

OrphanInv == kills = 0 => Attended /\ Unchanging /\ NoSecond

\* Setting the state keeps what would be restored.
LEMMA SetUnchanging == Unchanging /\ (\E v : SetState(v)) => Unchanging'
  BY DEF Unchanging, SetState

\* Nothing is left of a list of one server.
LEMMA ShortList ==
  ASSUME NEW list \in Seq(Servers), Len(list) <= 1
  PROVE  AttemptOrder(list) = list /\ (list # <<>> => Tail(list) = <<>>)
<1>1. AttemptOrder(list) = list
  BY DEF AttemptOrder
<1>2. ASSUME list # <<>> PROVE Tail(list) = <<>>
  <2>1. Len(list) \in Nat /\ Len(list) # 0
    BY <1>2, EmptySeq
  <2>2. Len(list) = 1
    <3>1. \A n \in Nat : n # 0 /\ n <= 1 => n = 1
      OBVIOUS
    <3> QED
      BY <2>1, <3>1
  <2>3. Tail(list) \in Seq(Servers) /\ Len(Tail(list)) = 0
    BY <1>2, <2>2
  <2> QED
    BY <2>3, EmptySeq
<1> QED
  BY <1>1, <1>2

\* The attempts stay where they are: another actor moves state and tunnel.
LEMMA AttendedElse ==
  ASSUME Attended, alive' = alive, \A t \in Attempts : pc'[t] = pc[t],
         \/ state' = state /\ tunnel' = tunnel
         \/ Reported /\ state' = "connected" /\ tunnel' = tunnel
         \/ ~Reported /\ state' # "connected" /\ tunnel' = tunnel
         \/ EngineDisconnect /\ state' # "connected"
         \/ state' = state /\ TunnelMoves
  PROVE  Attended'
<1>1. Early' = Early /\ Polling' = Polling
  BY DEF Early, Polling
<1> QED
  BY <1>1 DEF Attended, Reported, EngineDisconnect, TunnelMoves

\* An attempt before it has dialled: there is no tunnel yet.
LEMMA AttendedEarly ==
  ASSUME Attended, Single, NEW t \in Attempts, t \in Tasks, DOMAIN pc = Tasks, alive,
         pc[t] \in Undialed, NEW label, GoTo(t, label), alive' = alive,
         label \in Undialed \cup {"done"},
         tunnel' = tunnel \/ EngineDisconnect, state' # "connected"
  PROVE  Attended'
<1>1. \A u \in Attempts : u = t
  BY DEF Single
<1>2. tunnel = "down" /\ tunnel' = "down"
  BY <1>1 DEF Attended, Early, EngineDisconnect
<1> QED
  BY <1>2 DEF Attended

\* Its last turns.
LEMMA AttendedLate ==
  ASSUME Attended, Single, NEW t \in Attempts, t \in Tasks, DOMAIN pc = Tasks, alive,
         NEW label, GoTo(t, label), alive' = alive,
         label \in {"starting", "recording", "done"},
         tunnel' # "starting", tunnel' = "up" => state' = "connected"
  PROVE  Attended'
<1>1. pc'[t] = label
  BY DEF GoTo
<1>2. ~Early'
  BY <1>1 DEF Early, Undialed
<1> QED
  BY <1>2 DEF Attended

\* What the steps find.
OrphanNow == TypeInv /\ OrphanInv /\ Single /\ kills = 0

\* connect() with a list of one server, or the one that is chosen.
LEMMA OrphanChoice ==
  ASSUME OrphanNow, NEW t \in Attempts,
         TapConnect(t) \/ FetchReply(t) \/ (t \in Selects /\ SelectCleared(t))
  PROVE  OrphanInv'
<1>1. /\ t \in Tasks /\ DOMAIN pc = Tasks /\ alive /\ alive' = alive /\ kills' = kills
      /\ Attended /\ Unchanging /\ NoSecond /\ Single /\ tunnel' = tunnel
  BY Kinds DEF OrphanNow, TypeInv, TurnsOK, OrphanInv, TapConnect, FetchReply, SelectCleared,
     At, HomeOnTop, Ready, lifeVars, nativeVars
<1>2. pc[t] \in Undialed /\ "saving" \in Undialed /\ "fetching" \in Undialed
  BY DEF TapConnect, FetchReply, SelectCleared, At, Undialed
<1>3. state # "connected"
  BY <1>1, <1>2 DEF Attended, Early, Single
<1>4. ASSUME NEW list \in Seq(Servers), Len(list) <= 1, NEW puts, PickServer(t, list, puts)
      PROVE  \A u \in Attempts : todo'[u] = <<>>
  BY <1>1, <1>4, ShortList DEF PickServer, NoSecond
<1>5. fetched \in Seq(Servers) /\ Len(fetched) <= 1
  BY <1>1 DEF OrphanNow, TypeInv, FlowInv, PlanOK, NoSecond
<1>6. CASE TapConnect(t)
  <2>1. /\ state' # "connected" /\ Unchanging' /\ fetched' = fetched
        /\ GoTo(t, "fetching") \/ GoTo(t, "saving")
    BY <1>1, <1>6, SetUnchanging DEF TapConnect, SetState, PickServer
  <2>2. \A u \in Attempts : todo'[u] = <<>>
    BY <1>1, <1>4, <1>5, <1>6, ShortList DEF TapConnect, NoSecond
  <2> QED
    BY <1>1, <1>2, <1>5, <2>1, <2>2, AttendedEarly DEF OrphanInv, NoSecond
<1>7. CASE FetchReply(t)
  <2>1. PICK list \in ServerLists : fetched' = list /\ NextServer(t, AttemptOrder(list))
    BY <1>7 DEF FetchReply
  <2>2. list \in Seq(Servers) /\ Len(list) <= 1
    BY <1>1, ControllerAssumption DEF Single
  <2>3. NextServer(t, list)
    BY <2>1, <2>2, ShortList
  <2>4. /\ state' # "connected" /\ Unchanging'
        /\ GoTo(t, "saving") \/ GoTo(t, "done")
    BY <1>1, <1>3, <2>3, SetUnchanging
       DEF NextServer, GiveUp, PickServer, SetState, stateVars, Unchanging
  <2>5. \A u \in Attempts : todo'[u] = <<>>
    BY <1>1, <1>4, <2>2, <2>3 DEF NextServer, GiveUp, NoSecond
  <2> QED
    BY <1>1, <1>2, <2>1, <2>2, <2>4, <2>5, AttendedEarly DEF OrphanInv, NoSecond
<1>8. CASE t \in Selects /\ SelectCleared(t)
  <2>1. /\ state' # "connected" /\ Unchanging' /\ fetched' = fetched /\ GoTo(t, "saving")
    BY <1>1, <1>8, SetUnchanging DEF SelectCleared, SetState, PickServer
  <2>2. target[t] \in Servers
    BY <1>8 DEF OrphanNow, TypeInv, TurnsOK, SelectCleared, At
  <2>3. <<target[t]>> \in Seq(Servers) /\ Len(<<target[t]>>) <= 1
    BY <2>2
  <2>4. \A u \in Attempts : todo'[u] = <<>>
    BY <1>4, <1>8, <2>3 DEF SelectCleared
  <2> QED
    BY <1>1, <1>2, <1>5, <2>1, <2>4, AttendedEarly DEF OrphanInv, NoSecond
<1> QED
  BY <1>6, <1>7, <1>8

\* An attempt that fails has no second server to try.
LEMMA OrphanFails ==
  ASSUME NoSecond, Unchanging, NEW t \in Attempts, ReturnFalse(t) \/ Throw(t)
  PROVE  /\ GoTo(t, "done") /\ Unchanging' /\ todo' = todo
         /\ state' = state \/ state' = "failed"
<1>1. todo[t] = <<>>
  BY DEF NoSecond
<1>2. NextServer(t, todo[t]) => GiveUp(t)
  BY <1>1 DEF NextServer, PickServer
<1>3. CASE GiveUp(t)
  BY <1>3, SetUnchanging DEF GiveUp, SetState
<1>4. CASE GoTo(t, "done") /\ UNCHANGED <<stateVars, todo>>
  BY <1>4 DEF stateVars, Unchanging
<1> QED
  BY <1>2, <1>3, <1>4 DEF ReturnFalse, Throw

\* The steps of the attempt.
LEMMA OrphanAttempt ==
  ASSUME OrphanNow, NEW t \in Attempts, Attempt(t)
  PROVE  OrphanInv'
<1>1. /\ t \in Tasks /\ DOMAIN pc = Tasks /\ Attended /\ Unchanging /\ NoSecond /\ Single
      /\ tunnel \in Tunnels
  BY Kinds DEF OrphanNow, TypeInv, TurnsOK, OrphanInv, FlagsOK, NativeFlags
<1>2. alive /\ alive' = alive /\ kills' = kills /\ fetched' = fetched
  BY DEF Attempt, ServerSaved, PrepareThrows, Dial, DialThrows, DialReturns, PollConnected,
     PollRound, PollExhausted, AttemptStarted, AttemptRecorded, At, lifeVars, planVars, vars
<1>3. \A u \in Attempts : u = t
  BY <1>1 DEF Single
<1>4. CASE ServerSaved(t) \/ PrepareThrows(t) \/ Dial(t) \/ DialThrows(t)
  <2>1. pc[t] \in Undialed /\ tunnel' = tunnel
    BY <1>4 DEF ServerSaved, PrepareThrows, Dial, DialThrows, At, Undialed, nativeVars
  <2>2. state # "connected"
    BY <1>1, <1>3, <2>1 DEF Attended, Early
  <2>3. \/ GoTo(t, "preparing") /\ UNCHANGED <<stateVars, todo>>
        \/ GoTo(t, "dialing") /\ UNCHANGED <<stateVars, todo>>
        \/ ReturnFalse(t) \/ Throw(t)
    BY <1>4 DEF ServerSaved, PrepareThrows, Dial, DialThrows, planVars
  <2>4. /\ Unchanging' /\ todo' = todo /\ state' # "connected"
        /\ GoTo(t, "preparing") \/ GoTo(t, "dialing") \/ GoTo(t, "done")
    BY <1>1, <2>2, <2>3, OrphanFails DEF stateVars, Unchanging
  <2>5. Attended'
    BY <1>1, <1>2, <2>1, <2>4, AttendedEarly DEF Undialed
  <2> QED
    BY <1>1, <1>2, <2>4, <2>5 DEF OrphanInv, NoSecond
<1>5. CASE DialReturns(t)
  <2>1. /\ pc[t] \in Undialed /\ tunnel' = "starting" /\ pc'[t] = "polling"
        /\ UNCHANGED <<stateVars, todo>>
    BY <1>1, <1>5 DEF DialReturns, At, Undialed, EngineConnect, GoTo
  <2>2. state # "connected"
    BY <1>1, <1>3, <2>1 DEF Attended, Early
  <2>3. Attended'
    BY <1>2, <2>1, <2>2 DEF Attended, Early, Undialed, Polling, stateVars
  <2> QED
    BY <1>1, <1>2, <2>1, <2>3 DEF OrphanInv, NoSecond, Unchanging, stateVars
<1>6. CASE PollConnected(t)
  <2>1. /\ tunnel' = tunnel /\ Reported /\ state' = "connected" /\ todo' = todo /\ Unchanging'
        /\ GoTo(t, "starting") \/ GoTo(t, "recording")
    BY <1>1, <1>6, SetUnchanging DEF PollConnected, SetState, nativeVars, planVars
  <2>2. Attended'
    BY <1>1, <1>2, <2>1, AttendedLate DEF Reported
  <2> QED
    BY <1>1, <1>2, <2>1, <2>2 DEF OrphanInv, NoSecond
<1>7. CASE PollRound(t)
  <2>1. ~Reported /\ tunnel \in {"down", "starting"} /\ pc[t] = "polling"
    BY <1>1, <1>7 DEF PollRound, Reported, Tunnels, At
  <2>2. CASE state = "connected" /\ GoTo(t, "done") /\ UNCHANGED <<stateVars, todo, nativeVars>>
    <3>1. tunnel' = "down"
      BY <1>1, <2>1, <2>2 DEF Attended, nativeVars
    <3>2. Attended'
      BY <1>1, <1>2, <2>2, <3>1, AttendedLate
    <3> QED
      BY <1>1, <1>2, <2>2, <3>2 DEF OrphanInv, NoSecond, Unchanging, stateVars
  <2>3. CASE EngineDisconnect /\ ReturnFalse(t)
    <3>1. tunnel' = "down"
      BY <2>1, <2>3 DEF EngineDisconnect
    <3>2. Attended'
      BY <1>1, <1>2, <2>3, <3>1, AttendedLate, OrphanFails
    <3> QED
      BY <1>1, <1>2, <2>3, <3>2, OrphanFails DEF OrphanInv, NoSecond
  <2>4. CASE UNCHANGED <<stateVars, nativeVars, pc, todo>>
    <3>1. Attended'
      BY <1>1, <1>2, <2>4, AttendedElse DEF stateVars, nativeVars
    <3> QED
      BY <1>1, <1>2, <2>4, <3>1 DEF OrphanInv, NoSecond, Unchanging, stateVars
  <2> QED
    BY <1>7, <2>2, <2>3, <2>4 DEF PollRound
<1>8. CASE PollExhausted(t)
  <2>1. ~Reported /\ EngineDisconnect /\ ReturnFalse(t)
    BY <1>8 DEF PollExhausted
  <2>2. tunnel' = "down"
    BY <1>1, <2>1 DEF EngineDisconnect, Reported, Tunnels
  <2>3. Attended'
    BY <1>1, <1>2, <2>1, <2>2, AttendedLate, OrphanFails
  <2> QED
    BY <1>1, <1>2, <2>1, <2>3, OrphanFails DEF OrphanInv, NoSecond
<1>9. CASE AttemptStarted(t) \/ AttemptRecorded(t)
  <2>1. /\ pc[t] \in {"starting", "recording"} /\ UNCHANGED <<stateVars, todo, nativeVars>>
        /\ GoTo(t, "recording") \/ GoTo(t, "done")
    BY <1>9 DEF AttemptStarted, AttemptRecorded, At, planVars
  <2>2. ~Polling
    BY <1>3, <2>1 DEF Polling
  <2>3. Attended'
    BY <1>1, <1>2, <2>1, <2>2, AttendedLate DEF Attended, stateVars, nativeVars
  <2> QED
    BY <1>1, <1>2, <2>1, <2>3 DEF OrphanInv, NoSecond, Unchanging, stateVars
<1> QED
  BY <1>4, <1>5, <1>6, <1>7, <1>8, <1>9 DEF Attempt

\* disconnect(), and its end.
LEMMA OrphanDisconnect ==
  ASSUME OrphanNow, NEW t \in Disconnects,
         \/ (t \in Offs /\ TapDisconnect(t)) \/ (t \in Expiries /\ ExpireSession(t))
         \/ (t \in Selects /\ TapServer(t))
         \/ DisconnectEnded(t) \/ DisconnectCleared(t)
  PROVE  OrphanInv'
<1>1. /\ t \in Tasks /\ DOMAIN pc = Tasks /\ Attended /\ Unchanging /\ NoSecond /\ Single
      /\ alive /\ alive' = alive /\ kills' = kills
  BY Kinds DEF OrphanNow, TypeInv, TurnsOK, OrphanInv, TapDisconnect, ExpireSession, TapServer,
     DisconnectEnded, DisconnectCleared, BeginDisconnect, HomeOnTop, Ready, At, lifeVars, vars
<1>2. fetched' = fetched /\ todo' = todo
  BY DEF TapDisconnect, ExpireSession, TapServer, DisconnectEnded, DisconnectCleared,
         BeginDisconnect, planVars
<1>3. \/ EngineDisconnect /\ SetState("disconnected")
      \/ UNCHANGED <<stateVars, tunnel>>
  BY DEF TapDisconnect, ExpireSession, TapServer, DisconnectEnded, DisconnectCleared,
         BeginDisconnect, nativeVars
<1>4. Unchanging'
  BY <1>1, <1>3, SetUnchanging DEF Unchanging, stateVars
<1>5. CASE t \in Attempts
  <2>1. pc[t] \in {"idle", "ending", "clearing"} \/ ~(t \in Selects)
    BY <1>5, ControllerAssumption DEF TapServer, DisconnectEnded, DisconnectCleared, At
  <2>2. t \in Selects
    BY <1>5, ControllerAssumption DEF Attempts, Disconnects
  <2>3. pc[t] \in Undialed
    BY <2>1, <2>2 DEF Undialed
  <2>4. state # "connected" /\ state' # "connected"
    BY <1>1, <1>3, <1>5, <2>3 DEF Attended, Early, Single, SetState, stateVars
  <2>5. \E label \in Undialed : GoTo(t, label)
    BY DEF TapDisconnect, ExpireSession, TapServer, DisconnectEnded, DisconnectCleared,
           BeginDisconnect, Undialed
  <2>6. Attended'
    BY <1>1, <1>3, <1>5, <2>3, <2>4, <2>5, AttendedEarly
  <2> QED
    BY <1>1, <1>2, <1>4, <2>6 DEF OrphanInv, NoSecond
<1>6. CASE t \notin Attempts
  <2>1. \A u \in Attempts : pc'[u] = pc[u]
    <3>1. \E label : GoTo(t, label)
      BY DEF TapDisconnect, ExpireSession, TapServer, DisconnectEnded, DisconnectCleared,
             BeginDisconnect
    <3> QED
      BY <1>1, <1>6, <3>1, Kinds DEF GoTo
  <2>2. Attended'
    BY <1>1, <1>3, <2>1, AttendedElse DEF SetState, stateVars
  <2> QED
    BY <1>1, <1>2, <1>4, <2>2 DEF OrphanInv, NoSecond
<1> QED
  BY <1>5, <1>6

\* The timers, refreshStage, the stages and init().
LEMMA OrphanReports ==
  ASSUME OrphanNow, NEW t \in Callbacks \cup Inits,
         \/ CheckTimerFires(t) \/ CheckReplyDown(t) \/ CheckReplyUp(t)
         \/ BeginRefresh(t) \/ RefreshReply(t) \/ ReportStarted(t) \/ RefreshEnded(t)
         \/ StageEvent(t) \/ StageReply(t) \/ StageEnded(t)
         \/ InitEngineReady(t) \/ InitSessionEnded(t)
  PROVE  OrphanInv'
<1>1. /\ t \in Tasks /\ t \notin Attempts /\ DOMAIN pc = Tasks
      /\ Attended /\ Unchanging /\ NoSecond
  BY OtherTasks DEF OrphanNow, TypeInv, TurnsOK, OrphanInv
<1> DEFINE Rest == /\ UNCHANGED <<alive, kills, tunnel, fetched, todo>>
                   /\ (\E label : GoTo(t, label)) \/ pc' = pc
<1>2. Rest
  <2> USE DEF lifeVars, planVars, nativeVars
  <2>1. CASE CheckTimerFires(t) \/ CheckReplyDown(t) \/ CheckReplyUp(t)
    BY <2>1 DEF CheckTimerFires, CheckReplyDown, CheckReplyUp, vars
  <2>2. CASE BeginRefresh(t) \/ RefreshReply(t) \/ ReportStarted(t) \/ RefreshEnded(t)
    BY <2>2 DEF BeginRefresh, RefreshReply, ReportStarted, RefreshEnded, vars
  <2>3. CASE StageEvent(t) \/ StageReply(t) \/ StageEnded(t)
    BY <2>3 DEF StageEvent, StageReply, StageEnded, vars
  <2>4. CASE InitEngineReady(t) \/ InitSessionEnded(t)
    BY <2>4 DEF InitEngineReady, InitSessionEnded, Restore, vars
  <2> QED
    BY <2>1, <2>2, <2>3, <2>4
<1>3. \/ UNCHANGED <<stateVars>>
      \/ Reported /\ SetState("connected")
      \/ ~Reported /\ SetState("disconnected")
  <2>1. CASE CheckTimerFires(t) \/ CheckReplyDown(t) \/ CheckReplyUp(t)
    BY <2>1 DEF CheckTimerFires, CheckReplyDown, CheckReplyUp
  <2>2. CASE BeginRefresh(t) \/ RefreshReply(t) \/ ReportStarted(t) \/ RefreshEnded(t)
    BY <2>2 DEF BeginRefresh, RefreshReply, ReportStarted, RefreshEnded
  <2>3. CASE StageEvent(t) \/ StageReply(t) \/ StageEnded(t)
    BY <2>3 DEF StageEvent, StageReply, StageEnded
  <2>4. CASE InitEngineReady(t) \/ InitSessionEnded(t)
    <3>1. UNCHANGED stateVars \/ Restore(t)
      BY <2>4 DEF InitEngineReady, InitSessionEnded
    <3> QED
      BY <1>1, <3>1 DEF Restore, Unchanging, stateVars
  <2> QED
    BY <2>1, <2>2, <2>3, <2>4
<1>4. \A u \in Attempts : pc'[u] = pc[u]
  BY <1>1, <1>2, Kinds DEF GoTo
<1>5. Attended'
  BY <1>1, <1>2, <1>3, <1>4, AttendedElse DEF SetState, stateVars
<1>6. Unchanging'
  BY <1>1, <1>3, SetUnchanging DEF Unchanging, stateVars
<1> QED
  BY <1>1, <1>2, <1>5, <1>6 DEF OrphanInv, NoSecond

\* Launch, kill, tunnel, timeout, clock and device.
LEMMA OrphanElse ==
  ASSUME OrphanNow,
         \/ LaunchApp \/ KillApp \/ TunnelMoves \/ TimeoutFires \/ ExpireUnheard
         \/ ClockTicks \/ PrefsWrite \/ UNCHANGED allVars
  PROVE  OrphanInv'
<1>1. Attended /\ Unchanging /\ NoSecond /\ Attempts \subseteq Tasks \ Inits
  BY OtherTasks DEF OrphanNow, OrphanInv
<1>2. CASE KillApp
  BY <1>2 DEF KillApp, OrphanNow, OrphanInv
<1>3. CASE LaunchApp
  <2>1. \A t \in Attempts : pc[t] = "idle" /\ pc'[t] = "idle"
    BY <1>1, <1>3 DEF LaunchApp, Attended
  <2>2. UNCHANGED <<stateVars, tunnel, fetched, todo>>
    BY <1>3 DEF LaunchApp, nativeVars, planVars
  <2>3. Attended'
    BY <1>1, <1>3, <2>1, <2>2 DEF Attended, Early, Polling, stateVars, LaunchApp, Undialed
  <2> QED
    BY <1>1, <2>2, <2>3 DEF OrphanInv, NoSecond, Unchanging, stateVars
<1>4. CASE TimeoutFires
  <2>1. UNCHANGED <<alive, pc, fetched, todo>>
    BY <1>4 DEF TimeoutFires, lifeVars, planVars
  <2>2. \/ EngineDisconnect /\ SetState("failed")
        \/ UNCHANGED <<stateVars, tunnel>>
    BY <1>4 DEF TimeoutFires, nativeVars
  <2>3. Attended'
    BY <1>1, <2>1, <2>2, AttendedElse DEF SetState, stateVars
  <2>4. Unchanging'
    BY <1>1, <2>2, SetUnchanging DEF Unchanging, stateVars
  <2> QED
    BY <1>1, <2>1, <2>3, <2>4 DEF OrphanInv, NoSecond
<1>5. CASE TunnelMoves \/ ExpireUnheard \/ ClockTicks \/ PrefsWrite \/ UNCHANGED allVars
  <2>1. UNCHANGED <<alive, pc, fetched, todo, stateVars>> /\ (TunnelMoves \/ tunnel' = tunnel)
    BY <1>5 DEF TunnelMoves, ExpireUnheard, ClockTicks, Tick, PrefsWrite, Write, ctlVars, allVars,
       planVars, nativeVars
  <2>2. Attended'
    BY <1>1, <2>1, AttendedElse DEF stateVars
  <2> QED
    BY <1>1, <2>1, <2>2 DEF OrphanInv, NoSecond, Unchanging, stateVars
<1> QED
  BY <1>2, <1>3, <1>4, <1>5

\* Kills are only counted up.
LEMMA KillsGrow ==
  ASSUME TypeInv, [ControllerNext]_allVars
  PROVE  kills' = kills \/ (KillApp /\ kills' # 0)
<1>1. kills \in Nat
  BY SessionAssumption DEF TypeInv, FlagsOK, LifeFlags
<1> USE DEF lifeVars
<1>2. CASE Environment
  <2>1. KillApp => kills' # 0
    <3>1. KillApp => kills' = kills + 1
      BY DEF KillApp
    <3> QED
      BY <1>1, <3>1
  <2> QED
    BY <1>2, <2>1 DEF Environment, LaunchApp, TunnelMoves, TapConnect, TapServer,
       TapDisconnect, BeginRefresh, BeginDisconnect, vars
<1>3. ASSUME NEW t \in Tasks, Program(t) PROVE kills' = kills
  <2>1. Attempt(t) => kills' = kills
    BY DEF Attempt, ServerSaved, PrepareThrows, Dial, DialThrows, DialReturns, PollConnected,
       PollRound, PollExhausted, AttemptStarted, AttemptRecorded, vars
  <2> QED
    BY <1>3, <2>1 DEF Program, InitEngineReady, InitSessionEnded, FetchReply, DisconnectEnded,
       SelectCleared, DisconnectCleared, ExpireSession, BeginDisconnect, RefreshReply,
       ReportStarted, RefreshEnded, CheckTimerFires, CheckReplyDown, CheckReplyUp, StageEvent,
       StageReply, StageEnded, vars
<1>4. CASE ExpireUnheard \/ TimeoutFires \/ ClockTicks \/ PrefsWrite \/ UNCHANGED allVars
  BY <1>4 DEF ExpireUnheard, TimeoutFires, ClockTicks, Tick, PrefsWrite, Write, allVars, vars
<1> QED
  BY <1>2, <1>3, <1>4 DEF ControllerNext

\* No step of a single attempt leaves a tunnel unattended.
LEMMA OrphanNextInv ==
  Single /\ TypeInv /\ OrphanInv /\ [ControllerNext]_allVars => OrphanInv'
<1> SUFFICES ASSUME Single, TypeInv, OrphanInv, [ControllerNext]_allVars PROVE OrphanInv'
  OBVIOUS
<1>0. /\ Connects \subseteq Attempts /\ Selects \subseteq Attempts
      /\ Selects \subseteq Disconnects /\ Offs \subseteq Disconnects
      /\ Expiries \subseteq Disconnects
      /\ Resumes \subseteq Callbacks /\ Stages \subseteq Callbacks /\ Checkers \subseteq Callbacks
  BY DEF Attempts, Disconnects, Callbacks
<1>1. CASE kills # 0
  <2>1. kills' # 0
    BY <1>1, KillsGrow
  <2> QED
    BY <2>1 DEF OrphanInv
<1>2. CASE kills = 0
  <2>0. OrphanNow
    BY <1>2 DEF OrphanNow
  <2>1. CASE Environment
    BY <1>0, <2>0, <2>1, OrphanElse, OrphanChoice, OrphanDisconnect, OrphanReports DEF Environment
  <2>2. ASSUME NEW t \in Tasks, Program(t) PROVE OrphanInv'
    <3>1. CASE \/ t \in Connects /\ (FetchReply(t) \/ Attempt(t))
               \/ t \in Selects /\ (SelectCleared(t) \/ Attempt(t))
      BY <1>0, <2>0, <3>1, OrphanChoice, OrphanAttempt
    <3>2. CASE \/ t \in Selects /\ DisconnectEnded(t)
               \/ t \in Offs /\ (DisconnectEnded(t) \/ DisconnectCleared(t))
               \/ t \in Expiries /\ (\/ ExpireSession(t) \/ DisconnectEnded(t)
                                     \/ DisconnectCleared(t))
      BY <1>0, <2>0, <3>2, OrphanDisconnect
    <3>3. CASE \/ t \in Inits /\ (InitEngineReady(t) \/ InitSessionEnded(t))
               \/ t \in Resumes /\ (RefreshReply(t) \/ ReportStarted(t) \/ RefreshEnded(t))
               \/ t \in Checkers /\ (\/ CheckTimerFires(t) \/ CheckReplyDown(t)
                                     \/ CheckReplyUp(t) \/ ReportStarted(t))
               \/ t \in Stages /\ (StageEvent(t) \/ StageReply(t) \/ StageEnded(t))
      BY <1>0, <2>0, <3>3, OrphanReports
    <3> QED
      BY <2>2, <3>1, <3>2, <3>3 DEF Program
  <2>3. CASE ExpireUnheard \/ TimeoutFires \/ ClockTicks \/ PrefsWrite \/ UNCHANGED allVars
    BY <2>0, <2>3, OrphanElse
  <2> QED
    BY <2>1, <2>2, <2>3 DEF ControllerNext
<1> QED
  BY <1>1, <1>2

\* A single attempt, at one server, leaves no tunnel up behind a state that
\* denies it, whatever the timers, refreshes, stages, disconnects and the
\* tunnel itself do meanwhile, as long as the app is not killed.
THEOREM SingleAttemptLeavesNoOrphan ==
  ASSUME Single
  PROVE  ControllerSpec => [](kills = 0 => NoOrphanTunnel)
<1>1. OrphanInv => (kills = 0 => NoOrphanTunnel)
  BY Kinds DEF OrphanInv, Attended, NoOrphanTunnel, Quiet, Polling
<1>2. ControllerInit => OrphanInv
  BY Kinds DEF ControllerInit, OrphanInv, Attended, Unchanging, NoSecond
<1>3. TypeInv /\ OrphanInv /\ [ControllerNext]_allVars => OrphanInv'
  BY OrphanNextInv
<1> QED
  BY <1>1, <1>2, <1>3, TypeInitInv, TypeNextInv, PTL DEF ControllerSpec
=============================================================================
