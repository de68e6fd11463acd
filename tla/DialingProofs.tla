---------------------------- MODULE DialingProofs ---------------------------
(* Theorems about what happens before a connection is handed out, for every *)
(* value of the constants: the Happy Eyeballs dial, the search for a        *)
(* strategy and the two places it is stored in, the cache of DNS answers,   *)
(* and the dials through a proxy.  The induction that a least number and a  *)
(* counted set need is done on sets, with WFMin and the FS_ theorems.       *)
EXTENDS Dialing, FiniteSetTheorems, SequenceTheorems, WellFoundedInduction, TLAPS

(* ------------------------ sequences and numbers -------------------------- *)
\* Some number of a set of them is the least.
LEMMA LeastOf == ASSUME NEW T, T \subseteq Nat, T # {} PROVE \E m \in T : \A n \in T : m <= n
<1> DEFINE R == OpToRel(<, Nat)
<1>1. IsWellFoundedOn(R, Nat)
  BY NatLessThanWellFounded
<1>2. \A x, y \in Nat : y < x => <<y, x>> \in R
  BY DEF OpToRel
<1> HIDE DEF R
<1>3. PICK x \in T : \A y \in T : ~(<<y, x>> \in R)
  BY <1>1, WFMin
<1>4. \A y \in T : ~(y < x) /\ y \in Nat /\ x \in Nat
  BY <1>2, <1>3
<1>5. \A y \in T : x <= y
  BY <1>4
<1> QED
  BY <1>5

\* An element is taken out of a sequence.
LEMMA RemoveAtProperties ==
  ASSUME NEW S, NEW s \in Seq(S), NEW i \in DOMAIN s
  PROVE  /\ RemoveAt(s, i) \in Seq(S) /\ Len(RemoveAt(s, i)) = Len(s) - 1
         /\ \A j \in 1 .. Len(s) - 1 : RemoveAt(s, i)[j] = IF j < i THEN s[j] ELSE s[j + 1]
<1>1. Len(s) \in Nat /\ DOMAIN s = 1 .. Len(s) /\ i \in 1 .. Len(s) /\ \A j \in 1 .. Len(s) : s[j] \in S
  OBVIOUS
<1>2. /\ SubSeq(s, 1, i - 1) \in Seq(S) /\ Len(SubSeq(s, 1, i - 1)) = i - 1
      /\ \A j \in 1 .. i - 1 : SubSeq(s, 1, i - 1)[j] = s[j]
  <2>1. /\ SubSeq(s, 1, i - 1) \in Seq(S) /\ Len(SubSeq(s, 1, i - 1)) = IF 1 <= i - 1 THEN i - 1 - 1 + 1 ELSE 0
        /\ \A j \in 1 .. i - 1 - 1 + 1 : SubSeq(s, 1, i - 1)[j] = s[1 + j - 1]
    <3>1. 1 \in Int /\ i - 1 \in Int /\ \A j \in 1 .. i - 1 : s[j] \in S
      BY <1>1
    <3> QED
      BY <3>1, SubSeqProperties
  <2>2. i - 1 - 1 + 1 = i - 1 /\ i - 1 \in Nat
    BY <1>1
  <2>3. \A j \in 1 .. i - 1 : 1 + j - 1 = j
    BY <1>1
  <2> QED
    BY <2>1, <2>2, <2>3
<1>3. /\ SubSeq(s, i + 1, Len(s)) \in Seq(S) /\ Len(SubSeq(s, i + 1, Len(s))) = Len(s) - i
      /\ \A j \in 1 .. Len(s) - i : SubSeq(s, i + 1, Len(s))[j] = s[i + j]
  <2>1. /\ SubSeq(s, i + 1, Len(s)) \in Seq(S)
        /\ Len(SubSeq(s, i + 1, Len(s))) = IF i + 1 <= Len(s) THEN Len(s) - (i + 1) + 1 ELSE 0
        /\ \A j \in 1 .. Len(s) - (i + 1) + 1 : SubSeq(s, i + 1, Len(s))[j] = s[(i + 1) + j - 1]
    <3>1. i + 1 \in Int /\ Len(s) \in Int /\ \A j \in i + 1 .. Len(s) : s[j] \in S
      BY <1>1
    <3> QED
      BY <3>1, SubSeqProperties
  <2>2. Len(s) - (i + 1) + 1 = Len(s) - i /\ Len(s) - i \in Nat
    BY <1>1
  <2>3. \A j \in 1 .. Len(s) - i : (i + 1) + j - 1 = i + j
    BY <1>1
  <2> QED
    BY <1>1, <2>1, <2>2, <2>3
<1>4. /\ RemoveAt(s, i) \in Seq(S) /\ Len(RemoveAt(s, i)) = (i - 1) + (Len(s) - i)
      /\ \A j \in 1 .. (i - 1) + (Len(s) - i) :
           RemoveAt(s, i)[j] = IF j <= i - 1 THEN SubSeq(s, 1, i - 1)[j]
                               ELSE SubSeq(s, i + 1, Len(s))[j - (i - 1)]
  <2> DEFINE a == SubSeq(s, 1, i - 1)
             b == SubSeq(s, i + 1, Len(s))
  <2>1. RemoveAt(s, i) = a \o b
    BY DEF RemoveAt
  <2>2. a \in Seq(S) /\ b \in Seq(S) /\ Len(a) = i - 1 /\ Len(b) = Len(s) - i
    BY <1>2, <1>3
  <2> HIDE DEF a, b
  <2>3. /\ a \o b \in Seq(S) /\ Len(a \o b) = Len(a) + Len(b)
        /\ \A j \in 1 .. Len(a) + Len(b) : (a \o b)[j] = IF j <= Len(a) THEN a[j] ELSE b[j - Len(a)]
    BY <2>2, ConcatProperties
  <2>4. /\ RemoveAt(s, i) \in Seq(S) /\ Len(RemoveAt(s, i)) = (i - 1) + (Len(s) - i)
        /\ \A j \in 1 .. (i - 1) + (Len(s) - i) :
             RemoveAt(s, i)[j] = IF j <= i - 1 THEN a[j] ELSE b[j - (i - 1)]
    BY <2>1, <2>2, <2>3
  <2> QED
    BY <2>4 DEF a, b
<1>5. (i - 1) + (Len(s) - i) = Len(s) - 1
  BY <1>1
<1>6. ASSUME NEW j \in 1 .. Len(s) - 1
      PROVE  RemoveAt(s, i)[j] = IF j < i THEN s[j] ELSE s[j + 1]
  <2>1. CASE j < i
    <3>1. j <= i - 1 /\ j \in 1 .. i - 1
      BY <1>1, <2>1
    <3> QED
      BY <1>2, <1>4, <1>5, <2>1, <3>1
  <2>2. CASE ~(j < i)
    <3>1. ~(j <= i - 1) /\ j - (i - 1) \in 1 .. Len(s) - i /\ i + (j - (i - 1)) = j + 1
      BY <1>1, <2>2
    <3> QED
      BY <1>3, <1>4, <1>5, <2>2, <3>1
  <2> QED
    BY <2>1, <2>2
<1> QED
  BY <1>4, <1>5, <1>6

\* An element is put before a sequence.
LEMMA PutBefore ==
  ASSUME NEW S, NEW s \in Seq(S), NEW x \in S
  PROVE  /\ <<x>> \o s \in Seq(S) /\ Len(<<x>> \o s) = Len(s) + 1
         /\ (<<x>> \o s)[1] = x /\ \A j \in 2 .. Len(s) + 1 : (<<x>> \o s)[j] = s[j - 1]
<1>1. <<x>> \in Seq(S) /\ Len(<<x>>) = 1 /\ <<x>>[1] = x /\ Len(s) \in Nat
  OBVIOUS
<1>2. /\ <<x>> \o s \in Seq(S) /\ Len(<<x>> \o s) = 1 + Len(s)
      /\ \A j \in 1 .. 1 + Len(s) : (<<x>> \o s)[j] = IF j <= 1 THEN <<x>>[j] ELSE s[j - 1]
  BY <1>1, ConcatProperties
<1> QED
  BY <1>1, <1>2

(* ---------------------------- Happy Eyeballs ----------------------------- *)
\* Attempts whose result the select has still to take.
Unsettled == {a \in Attempts : attempt[a] \in {"dialing", "connected", "refused"}}
ToCome == (IF resolutionOpen THEN 1 ELSE 0) + Left(4) + Left(6) + Cardinality(Unsettled)

\* A result waits in the channel or was received, once, exactly when its
\* lookup has delivered it; a channel that was seen closed is drained.
Deliveries ==
  /\ results \in Seq(Families) /\ resolutionOpen \in BOOLEAN
  /\ \A i, j \in DOMAIN results : results[i] = results[j] => i = j
  /\ \A i \in DOMAIN results : results[i] \notin got
  /\ \A f \in Families : query[f] = "delivered"
                           <=> (f \in got \/ \E i \in DOMAIN results : results[i] = f)
  /\ ~resolutionOpen => got = Families

\* Addresses are dialed in turn, and no more of them than were received.
Dialed ==
  /\ \A f \in Families : dialed[f] <= Count(f)
  /\ \A f \in Families : \A i \in 1 .. MaxIps : attempt[<<f, i>>] = "none" <=> i > dialed[f]

\* Once its context is done attempts may end without being counted down.
Pending == Selecting => /\ opsPending >= ToCome
                        /\ ~ctxDone => opsPending = ToCome

\* The dial that gives up has tried everything.
TriedAll ==
  /\ got = Families
  /\ \A f \in Families : answer[f] # LookupError =>
       \A i \in 1 .. answer[f] : attempt[<<f, i>>] = "ended"
Exhausted == outcome \in {"dialError", "lookupError", "noIPs"} => TriedAll
NoneReturned == \A a \in Attempts : attempt[a] # "returned"

\* The one connection that is returned ends the dial.
OneReturned ==
  /\ \A a \in Attempts : attempt[a] = "returned" => outcome = "connected"
  /\ \A a, b \in Attempts : attempt[a] = "returned" /\ attempt[b] = "returned" => a = b

EyeballsInv ==
  EyeballsTypeOK /\ Deliveries /\ Dialed /\ Pending /\ Exhausted /\ OneReturned

\* The numbers that are counted with are numbers.
LEMMA Counts ==
  ASSUME EyeballsTypeOK
  PROVE  /\ \A f \in Families :
              Count(f) \in 0 .. MaxIps /\ dialed[f] \in 0 .. MaxIps /\ Left(f) \in Int
         /\ 4 \in Families /\ 6 \in Families /\ MaxIps \in Nat
  BY QueriesAssumption DEF EyeballsTypeOK, Count, Left, Families, LookupError

\* Attempts are finitely many.
LEMMA FewAttempts ==
  /\ IsFiniteSet(Attempts)
  /\ \A A : A \subseteq Attempts => IsFiniteSet(A) /\ Cardinality(A) \in Nat
<1>1. IsFiniteSet(Families)
  BY FS_EmptySet, FS_AddElement, IsFiniteSet({}), IsFiniteSet({} \cup {4}), IsFiniteSet(({} \cup {4}) \cup {6}),
     ({} \cup {4}) \cup {6} = {4, 6} DEF Families
<1>2. IsFiniteSet(1 .. MaxIps)
  BY FS_Interval, QueriesAssumption
<1>3. IsFiniteSet(Attempts)
  BY <1>1, <1>2, FS_Product DEF Attempts
<1>4. ASSUME NEW A, A \subseteq Attempts PROVE IsFiniteSet(A) /\ Cardinality(A) \in Nat
  BY <1>3, <1>4, FS_Subset, FS_CardinalityType
<1> QED
  BY <1>3, <1>4

\* A dial begins with both lookups to come.
LEMMA EyeballsInitInv == EyeballsInit => EyeballsInv
<1> SUFFICES ASSUME EyeballsInit PROVE EyeballsInv
  OBVIOUS
<1> USE DEF EyeballsInit, QueriesInit
<1>1. EyeballsTypeOK
  <2>1. 0 \in 0 .. MaxForged /\ 0 \in 0 .. MaxIps
    BY QueriesAssumption
  <2> QED
    BY <2>1 DEF EyeballsTypeOK
<1>2. Deliveries
  BY DEF Deliveries
<1>3. Dialed
  <2>1. \A f \in Families : dialed[f] = 0 /\ Count(f) = 0
    BY DEF Count
  <2>2. \A f \in Families : \A i \in 1 .. MaxIps : attempt[<<f, i>>] = "none"
    BY DEF Attempts
  <2> QED
    BY <2>1, <2>2, QueriesAssumption DEF Dialed
<1>4. Pending
  <2>1. Left(4) = 0 /\ Left(6) = 0
    BY DEF Left, Count, Families
  <2>2. Unsettled = {}
    BY DEF Unsettled
  <2>3. ToCome = 1
    BY <2>1, <2>2, FS_EmptySet DEF ToCome
  <2> QED
    BY <2>3 DEF Pending
<1>5. Exhausted /\ OneReturned
  BY DEF Exhausted, OneReturned
<1> QED
  BY <1>1, <1>2, <1>3, <1>4, <1>5 DEF EyeballsInv

\* Steps that only end a timer or the context, or see it ended.
LEMMA QuietDial ==
  ASSUME EyeballsInv, UNCHANGED queryVars,
         UNCHANGED <<results, resolutionOpen, got, dialed, last, opsPending, attempt>>,
         \/ UNCHANGED outcome /\ ctxDone' \in {ctxDone, TRUE}
         \/ Selecting /\ outcome' = "cancelled" /\ UNCHANGED ctxDone
  PROVE  EyeballsInv'
<1> USE DEF EyeballsInv, queryVars
<1>1. EyeballsTypeOK'
  BY DEF EyeballsTypeOK
<1>2. Deliveries'
  BY DEF Deliveries
<1>3. Dialed'
  BY DEF Dialed, Count
<1>4. ToCome' = ToCome
  BY DEF ToCome, Left, Count, Unsettled
<1>5. Pending'
  BY <1>4 DEF Pending, Selecting, EyeballsTypeOK
<1>6. Exhausted'
  BY DEF Exhausted, Selecting, TriedAll
<1>7. OneReturned'
  BY DEF OneReturned, Selecting
<1> QED
  BY <1>1, <1>2, <1>3, <1>5, <1>6, <1>7

\* What a step of a lookup may do to its own state; it delivers nothing.
QueryMoves(f) ==
  /\ query[f] # "delivered"
  /\ \/ UNCHANGED query
     \/ \E to \in {"handshaking", "sending", "receiving", "answered"} : query' = [query EXCEPT ![f] = to]
  /\ \/ UNCHANGED qconn
     \/ \E to \in {"none", "open", "closed", "leaked", "kept"} : qconn' = [qconn EXCEPT ![f] = to]
  /\ \/ UNCHANGED forged
     \/ forged[f] < MaxForged /\ forged' = [forged EXCEPT ![f] = @ + 1]
  /\ \/ UNCHANGED answer
     \/ \E value \in {LookupError} \cup (0 .. MaxIps) : answer' = [answer EXCEPT ![f] = value]
  /\ UNCHANGED <<resolver, deadline, ctxDone>>

\* The resolver's steps are such moves.
LEMMA AnswersMove ==
  ASSUME NEW f, NEW from, from # "delivered",
         NEW value \in {LookupError} \cup (0 .. MaxIps),
         NEW state \in {"none", "open", "closed", "leaked", "kept"}, Answers(f, from, value, state)
  PROVE  QueryMoves(f)
  BY DEF Answers, Goes, Conn, QueryMoves

\* A query that goes a step moves as the dial expects of it.
LEMMA QueriesMove == ASSUME NEW f \in Families, QueryStep(f) PROVE QueryMoves(f)
<1>0. LookupError \in {LookupError} \cup (0 .. MaxIps) /\ Afterwards \in {"kept", "closed"}
  BY DEF Afterwards
<1>1. CASE DialResolver(f)
  BY <1>0, <1>1, AnswersMove DEF DialResolver, Proceeds, Conn, Goes, QueryMoves
<1>2. CASE Handshake(f)
  BY <1>0, <1>2, AnswersMove DEF Handshake, Proceeds, Goes, QueryMoves
<1>3. CASE SendQuery(f)
  BY <1>0, <1>3, AnswersMove DEF SendQuery, Proceeds, Goes, QueryMoves
<1>4. CASE ReceiveResponse(f)
  <2>1. ASSUME Resolved(f) PROVE QueryMoves(f)
    BY <1>0, <2>1, AnswersMove DEF Resolved
  <2>2. ASSUME Answers(f, "receiving", LookupError, Afterwards) PROVE QueryMoves(f)
    BY <1>0, <2>2, AnswersMove
  <2>3. ASSUME query[f] = "receiving", forged[f] < MaxForged,
               forged' = [forged EXCEPT ![f] = @ + 1],
               UNCHANGED <<resolver, deadline, ctxDone, query, qconn, answer>>
        PROVE  QueryMoves(f)
    BY <2>3 DEF QueryMoves
  <2> QED
    BY <1>4, <2>1, <2>2, <2>3 DEF ReceiveResponse
<1>5. CASE ReceiveFails(f)
  BY <1>0, <1>5, AnswersMove DEF ReceiveFails
<1> QED
  BY <1>1, <1>2, <1>3, <1>4, <1>5 DEF QueryStep

\* A lookup under way disturbs nothing that the dial has counted.
LEMMA QueryKeeps ==
  ASSUME EyeballsInv, NEW f \in Families, QueryMoves(f), UNCHANGED dialVars
  PROVE  EyeballsInv'
<1> USE DEF EyeballsInv, dialVars
<1>1. EyeballsTypeOK'
  <2>1. query' \in [Families -> {"dialing", "handshaking", "sending", "receiving", "answered", "delivered"}]
    BY DEF QueryMoves, EyeballsTypeOK
  <2>2. qconn' \in [Families -> {"none", "open", "closed", "leaked", "kept"}]
    BY DEF QueryMoves, EyeballsTypeOK
  <2>3. forged' \in [Families -> 0 .. MaxForged]
    <3>1. forged[f] \in 0 .. MaxForged /\ forged \in [Families -> 0 .. MaxForged]
      BY DEF EyeballsTypeOK
    <3>2. forged[f] < MaxForged => forged[f] + 1 \in 0 .. MaxForged
      BY <3>1, QueriesAssumption
    <3> QED
      BY <3>1, <3>2 DEF QueryMoves
  <2>4. answer' \in [Families -> {LookupError} \cup (0 .. MaxIps)]
    BY DEF QueryMoves, EyeballsTypeOK
  <2>5. UNCHANGED <<resolver, deadline, ctxDone>>
    BY DEF QueryMoves
  <2> QED
    BY <2>1, <2>2, <2>3, <2>4, <2>5 DEF EyeballsTypeOK
<1>2. \A g \in Families : (query'[g] = "delivered" <=> query[g] = "delivered")
                          /\ (g = f \/ answer'[g] = answer[g])
  BY DEF QueryMoves, EyeballsTypeOK
<1>3. f \notin got /\ \A g \in got : answer'[g] = answer[g]
  BY <1>2 DEF QueryMoves, Deliveries, EyeballsTypeOK
<1>4. Deliveries'
  BY <1>2 DEF Deliveries
<1>5. \A g : Count(g)' = Count(g)
  BY <1>3 DEF Count
<1>6. Dialed'
  BY <1>5 DEF Dialed
<1>7. ToCome' = ToCome
  BY <1>5 DEF ToCome, Left, Unsettled
<1>8. Pending'
  BY <1>7 DEF Pending, Selecting, QueryMoves
<1>9. Exhausted'
  BY <1>3 DEF Exhausted, TriedAll
<1>10. OneReturned'
  BY DEF OneReturned
<1> QED
  BY <1>1, <1>4, <1>6, <1>8, <1>9, <1>10

\* A delivered result waits in the channel.
LEMMA DeliverKeeps ==
  ASSUME EyeballsInv, NEW f \in Families, LookupDelivers(f)
  PROVE  EyeballsInv'
<1> USE DEF EyeballsInv
<1>1. /\ query[f] = "answered" /\ query' = [query EXCEPT ![f] = "delivered"]
      /\ results' = Append(results, f)
      /\ UNCHANGED <<ctxDone, resolver, deadline, qconn, forged, answer, resolutionOpen, got, dialed,
                     last, opsPending, attempt, outcome>>
  BY DEF LookupDelivers, Goes
<1>2. f \notin got /\ \A i \in DOMAIN results : results[i] # f
  BY <1>1 DEF Deliveries
<1>3. EyeballsTypeOK'
  BY <1>1 DEF EyeballsTypeOK
<1>4. /\ results' \in Seq(Families) /\ DOMAIN results' = DOMAIN results \cup {Len(results) + 1}
      /\ results'[Len(results) + 1] = f /\ Len(results) + 1 \notin DOMAIN results
      /\ \A i \in DOMAIN results : results'[i] = results[i]
  BY <1>1 DEF Deliveries
<1>5. \A g \in Families : query'[g] = "delivered" <=> (query[g] = "delivered" \/ g = f)
  BY <1>1 DEF EyeballsTypeOK
<1>6. Deliveries'
  <2>1. \A i, j \in DOMAIN results' : results'[i] = results'[j] => i = j
    BY <1>2, <1>4 DEF Deliveries
  <2>2. \A i \in DOMAIN results' : results'[i] \notin got'
    BY <1>1, <1>2, <1>4 DEF Deliveries
  <2>3. \A g \in Families : (\E i \in DOMAIN results' : results'[i] = g)
                              <=> (g = f \/ \E i \in DOMAIN results : results[i] = g)
    BY <1>4
  <2>4. \A g \in Families : query'[g] = "delivered"
                              <=> (g \in got' \/ \E i \in DOMAIN results' : results'[i] = g)
    BY <1>1, <1>5, <2>3 DEF Deliveries
  <2> QED
    BY <1>1, <1>4, <2>1, <2>2, <2>4 DEF Deliveries
<1>7. Dialed'
  BY <1>1 DEF Dialed, Count
<1>8. ToCome' = ToCome
  BY <1>1 DEF ToCome, Left, Count, Unsettled
<1>9. Pending' /\ Exhausted' /\ OneReturned'
  BY <1>1, <1>8 DEF Pending, Selecting, Exhausted, TriedAll, OneReturned
<1> QED
  BY <1>3, <1>6, <1>7, <1>9

\* When nothing is to come both lookups have answered, every address was
\* dialed and every attempt has ended.
LEMMA NothingToCome ==
  EyeballsTypeOK /\ Deliveries /\ Dialed /\ ToCome <= 0 /\ NoneReturned => TriedAll
<1> SUFFICES ASSUME EyeballsTypeOK, Deliveries, Dialed, ToCome <= 0, NoneReturned
             PROVE  TriedAll
  OBVIOUS
<1>1. /\ \A f \in Families : Count(f) \in 0 .. MaxIps /\ dialed[f] \in 0 .. MaxIps /\ Left(f) = Count(f) - dialed[f]
      /\ 4 \in Families /\ 6 \in Families /\ MaxIps \in Nat /\ \A f \in Families : f = 4 \/ f = 6
  BY Counts DEF Left, Families
<1>2. Unsettled \subseteq Attempts
  BY DEF Unsettled
<1>3. IsFiniteSet(Unsettled) /\ Cardinality(Unsettled) \in Nat
  BY <1>2, FewAttempts
<1>4. \A f \in Families : Left(f) \in Nat
  BY <1>1 DEF Dialed
<1>5. ~resolutionOpen /\ Left(4) = 0 /\ Left(6) = 0 /\ Cardinality(Unsettled) = 0
  BY <1>1, <1>3, <1>4 DEF ToCome, Deliveries
<1>6. got = Families /\ Unsettled = {}
  BY <1>3, <1>5, FS_EmptySet DEF Deliveries
<1>7. ASSUME NEW f \in Families, answer[f] # LookupError, NEW i \in 1 .. answer[f]
      PROVE  attempt[<<f, i>>] = "ended"
  <2>1. dialed[f] = answer[f] /\ answer[f] \in 0 .. MaxIps
    BY <1>1, <1>5, <1>6, <1>7 DEF Count
  <2>2. i \in 1 .. MaxIps /\ ~(i > dialed[f])
    BY <1>1, <1>7, <2>1
  <2>3. <<f, i>> \in Attempts /\ attempt[<<f, i>>] # "none"
    BY <2>2 DEF Dialed, Attempts
  <2>4. attempt[<<f, i>>] \in {"none", "dialing", "connected", "refused", "returned", "ended"}
    BY <2>3 DEF EyeballsTypeOK
  <2> QED
    BY <1>6, <2>3, <2>4 DEF Unsettled, NoneReturned
<1> QED
  BY <1>6, <1>7 DEF TriedAll

\* With nothing to come after the round, everything was tried.
LEMMA NothingToComeThen ==
  EyeballsTypeOK' /\ Deliveries' /\ Dialed' /\ (ToCome <= 0)' /\ NoneReturned' => TriedAll'
  BY NothingToCome, PTL

\* The end of a round, given that what is left to come was counted down.
LEMMA RoundKeeps ==
  ASSUME EyeballsInv, Selecting, NEW pending \in Nat, NEW errs, Round(pending, errs),
         (EyeballsTypeOK /\ Deliveries /\ Dialed)',
         \A a \in Attempts : attempt'[a] = "returned" => attempt[a] = "returned",
         pending >= ToCome', ~ctxDone => pending = ToCome'
  PROVE  EyeballsInv'
<1>1. \A a \in Attempts : attempt[a] # "returned" /\ attempt'[a] # "returned"
  BY DEF EyeballsInv, OneReturned, Selecting
<1>2. OneReturned'
  BY <1>1 DEF OneReturned
<1>3. opsPending' = pending
  BY DEF Round
<1>4. CASE pending > 0
  <2>1. UNCHANGED <<outcome, ctxDone>>
    BY <1>4 DEF Round
  <2>2. Pending'
    BY <1>3, <2>1 DEF Pending
  <2>3. Exhausted'
    BY <2>1 DEF Exhausted, Selecting
  <2> QED
    BY <1>2, <2>2, <2>3 DEF EyeballsInv
<1>5. CASE ~(pending > 0)
  <2>1. outcome' # "none"
    BY <1>5 DEF Round, NoConnection
  <2>2. Pending'
    BY <2>1 DEF Pending, Selecting
  <2>3. (ToCome <= 0)'
    <3>1. pending = 0
      BY <1>5
    <3> QED
      BY <3>1
  <2>4. Exhausted'
    <3>1. NoneReturned'
      BY <1>1 DEF NoneReturned
    <3> QED
      BY <2>3, <3>1, NothingToComeThen DEF Exhausted
  <2> QED
    BY <1>2, <2>2, <2>4 DEF EyeballsInv
<1> QED
  BY <1>4, <1>5

\* A result is received: its addresses are what is to come of it now.
LEMMA TakeLookupKeeps == EyeballsInv /\ TakeLookup => EyeballsInv'
<1> SUFFICES ASSUME EyeballsInv, TakeLookup PROVE EyeballsInv'
  OBVIOUS
<1>1. /\ EyeballsTypeOK /\ Deliveries /\ Dialed /\ Pending
      /\ Selecting /\ results # <<>>
  BY DEF EyeballsInv, TakeLookup
<1>0. Head(results) \in Families
  BY <1>1 DEF Deliveries
<1>f. PICK f \in Families : f = Head(results)
  BY <1>0
<1> DEFINE gave == IF answer[f] = LookupError THEN 0 ELSE answer[f]
           errs == IF answer[f] = LookupError THEN hadErr \cup {"lookup"} ELSE hadErr
<1>2. /\ results' = Tail(results) /\ got' = got \cup {f}
      /\ UNCHANGED <<queryVars, resolutionOpen, dialed, last, attempt>>
  BY <1>f DEF TakeLookup
<1>3. 1 \in DOMAIN results /\ results[1] = f /\ f \in Families /\ f \notin got
  <2>1. results \in Seq(Families) /\ results # <<>>
    BY <1>1 DEF Deliveries
  <2>2. 1 \in DOMAIN results /\ results[1] = f /\ f \in Families
    BY <1>f, <2>1
  <2> QED
    BY <1>1, <2>2 DEF Deliveries
<1>4. gave \in 0 .. MaxIps /\ MaxIps \in Nat /\ opsPending \in Nat
  BY <1>1, <1>3, QueriesAssumption DEF EyeballsTypeOK
<1>5. Round(opsPending + gave, errs)
  <2>1. CASE answer[f] = LookupError
    <3>1. Round(opsPending, hadErr \cup {"lookup"})
      BY <1>f, <2>1 DEF TakeLookup
    <3>2. opsPending + gave = opsPending
      BY <1>4, <2>1
    <3> QED
      BY <2>1, <3>1, <3>2
  <2>2. CASE answer[f] # LookupError
    BY <1>f, <2>2 DEF TakeLookup
  <2> QED
    BY <2>1, <2>2
<1>6. /\ \A g \in Families : g # f => Count(g)' = Count(g)
      /\ Count(f) = 0 /\ Count(f)' = gave
  BY <1>2, <1>3 DEF Count, queryVars
<1>7. dialed[f] = 0 /\ Left(f) = 0 /\ Left(f)' = gave /\ \A g \in Families : g # f => Left(g)' = Left(g)
  <2>1. dialed[f] \in 0 .. MaxIps /\ dialed[f] <= 0
    BY <1>1, <1>3, <1>6 DEF Dialed, EyeballsTypeOK
  <2>2. dialed[f] = 0
    BY <2>1, <1>4
  <2> QED
    BY <1>2, <1>4, <1>6, <2>2 DEF Left
<1>8. Unsettled' = Unsettled /\ Cardinality(Unsettled) \in Nat
  <2>1. Unsettled \subseteq Attempts
    BY DEF Unsettled
  <2> QED
    BY <1>2, <2>1, FewAttempts DEF Unsettled
<1>9. ToCome' = ToCome + gave /\ ToCome \in Int
  <2>1. Left(4) \in Int /\ Left(6) \in Int /\ f \in {4, 6} /\ 4 \in Families /\ 6 \in Families
    BY <1>1, <1>3, Counts DEF Families
  <2>2. Left(4)' + Left(6)' = Left(4) + Left(6) + gave
    BY <1>4, <1>7, <2>1
  <2>3. Left(4)' \in Int /\ Left(6)' \in Int
    BY <1>4, <1>7, <2>1
  <2>4. (IF resolutionOpen THEN 1 ELSE 0)' = (IF resolutionOpen THEN 1 ELSE 0)
        /\ (IF resolutionOpen THEN 1 ELSE 0) \in Int
    BY <1>2
  <2> QED
    BY <1>4, <1>8, <2>1, <2>2, <2>3, <2>4 DEF ToCome
<1>10. opsPending + gave \in Nat /\ opsPending + gave >= ToCome'
       /\ (~ctxDone => opsPending + gave = ToCome')
  BY <1>1, <1>4, <1>9 DEF Pending
<1>11. EyeballsTypeOK'
  <2>1. opsPending' = opsPending + gave
    BY <1>5 DEF Round
  <2>2. outcome' \in {"none", "connected", "dialError", "lookupError", "noIPs", "cancelled"}
        /\ ctxDone' \in BOOLEAN
    BY <1>1, <1>5 DEF Round, NoConnection, EyeballsTypeOK
  <2>3. opsPending' \in Nat
    BY <1>10, <2>1
  <2>4. got' \subseteq Families
    BY <1>1, <1>2, <1>3 DEF EyeballsTypeOK
  <2> QED
    BY <1>1, <1>2, <2>2, <2>3, <2>4 DEF EyeballsTypeOK, queryVars
<1>12. Deliveries'
  <2>1. /\ results' \in Seq(Families)
        /\ \A i \in DOMAIN results' : i + 1 \in DOMAIN results /\ i + 1 # 1 /\ results'[i] = results[i + 1] /\ i \in Int
        /\ \A j \in DOMAIN results : j # 1 => j - 1 \in DOMAIN results' /\ results'[j - 1] = results[j]
    BY <1>1, <1>2 DEF Deliveries
  <2>2. \A i, j \in DOMAIN results' : results'[i] = results'[j] => i = j
    BY <1>1, <2>1 DEF Deliveries
  <2>3. \A i \in DOMAIN results' : results'[i] \notin got'
    BY <1>1, <1>2, <1>3, <2>1 DEF Deliveries
  <2>4. \A g \in Families : (g = f \/ \E i \in DOMAIN results' : results'[i] = g)
                              <=> \E j \in DOMAIN results : results[j] = g
    BY <1>3, <2>1
  <2>5. \A g \in Families : query'[g] = "delivered"
                              <=> (g \in got' \/ \E i \in DOMAIN results' : results'[i] = g)
    BY <1>1, <1>2, <2>4 DEF Deliveries, queryVars
  <2>6. resolutionOpen'
    BY <1>1, <1>2, <1>3 DEF Deliveries
  <2> QED
    BY <2>1, <2>2, <2>3, <2>5, <2>6 DEF Deliveries
<1>13. Dialed'
  BY <1>1, <1>2, <1>4, <1>6, <1>7 DEF Dialed
<1> QED
  BY <1>1, <1>2, <1>5, <1>10, <1>11, <1>12, <1>13, RoundKeeps

\* The channel is seen closed: one operation less is to come.
LEMMA ClosedKeeps == EyeballsInv /\ LookupsClosed => EyeballsInv'
<1> SUFFICES ASSUME EyeballsInv, LookupsClosed PROVE EyeballsInv'
  OBVIOUS
<1>1. /\ EyeballsTypeOK /\ Deliveries /\ Dialed /\ Pending /\ Selecting
      /\ resolutionOpen /\ resolutionOpen' = FALSE /\ results = <<>> /\ \A f \in Families : query[f] = "delivered"
      /\ Round(opsPending - 1, hadErr)
      /\ UNCHANGED <<queryVars, results, got, dialed, last, attempt>>
  BY DEF EyeballsInv, LookupsClosed
<1>2. got = Families
  <2>1. \A f \in Families : f \in got
    BY <1>1 DEF Deliveries
  <2> QED
    BY <1>1, <2>1 DEF EyeballsTypeOK
<1>3. Deliveries'
  BY <1>1, <1>2 DEF Deliveries, queryVars
<1>4. Dialed'
  BY <1>1 DEF Dialed, Count, queryVars
<1>5. Unsettled' = Unsettled /\ Cardinality(Unsettled) \in Nat
  <2>1. Unsettled \subseteq Attempts
    BY DEF Unsettled
  <2> QED
    BY <1>1, <2>1, FewAttempts DEF Unsettled
<1>6. /\ Left(4)' = Left(4) /\ Left(6)' = Left(6) /\ Left(4) \in Nat /\ Left(6) \in Nat
  <2>1. \A f \in Families : Left(f)' = Left(f)
    BY <1>1 DEF Left, Count, queryVars
  <2>2. \A f \in Families : Left(f) \in Nat
    BY <1>1, Counts DEF Dialed, Left
  <2> QED
    BY <1>1, <2>1, <2>2, Counts
<1>7. ToCome' = ToCome - 1 /\ ToCome \in Int /\ ToCome >= 1
  BY <1>1, <1>5, <1>6 DEF ToCome
<1>8. opsPending - 1 \in Nat /\ opsPending - 1 >= ToCome' /\ (~ctxDone => opsPending - 1 = ToCome')
  BY <1>1, <1>7 DEF Pending, EyeballsTypeOK
<1>9. EyeballsTypeOK'
  <2>1. opsPending' \in Nat
    BY <1>1, <1>8 DEF Round
  <2>2. outcome' \in {"none", "connected", "dialError", "lookupError", "noIPs", "cancelled"}
        /\ ctxDone' \in BOOLEAN
    BY <1>1 DEF Round, NoConnection, EyeballsTypeOK
  <2> QED
    BY <1>1, <2>1, <2>2 DEF EyeballsTypeOK, queryVars
<1> QED
  BY <1>1, <1>3, <1>4, <1>8, <1>9, RoundKeeps

\* An address is dialed: an attempt is to come instead of it.
LEMMA StartKeeps == EyeballsInv /\ StartAttempt => EyeballsInv'
<1> SUFFICES ASSUME EyeballsInv, StartAttempt PROVE EyeballsInv'
  OBVIOUS
<1>1. /\ EyeballsTypeOK /\ Deliveries /\ Dialed /\ Pending /\ Exhausted /\ OneReturned /\ Selecting
      /\ HasIps
      /\ UNCHANGED <<ctxDone, queryVars, results, resolutionOpen, got, opsPending, outcome>>
  BY DEF EyeballsInv, StartAttempt, ReadyToDial
<1>2. \A g \in Families : Left(g) \in Nat /\ Count(g) \in 0 .. MaxIps /\ dialed[g] \in 0 .. MaxIps
                          /\ Left(g) = Count(g) - dialed[g]
  BY <1>1, Counts DEF Dialed, Left
<1>3. PICK f \in Families : f = IF Left(6) = 0 \/ (last = 6 /\ Left(4) > 0) THEN 4 ELSE 6
  BY DEF Families
<1>4. /\ dialed' = [dialed EXCEPT ![f] = @ + 1]
      /\ attempt' = [attempt EXCEPT ![<<f, dialed[f] + 1>>] = "dialing"]
      /\ last' = f
  BY <1>3 DEF StartAttempt
<1>5. Left(f) > 0
  <2>1. \A g \in Families : g = 4 \/ g = 6
    BY DEF Families
  <2>2. 4 \in Families /\ 6 \in Families
    BY DEF Families
  <2>3. Left(4) > 0 \/ Left(6) > 0
    BY <1>1, <2>1 DEF HasIps
  <2>4. Left(4) \in Nat /\ Left(6) \in Nat
    BY <1>2, <2>2
  <2> QED
    BY <1>3, <2>3, <2>4
<1> DEFINE i == dialed[f] + 1
<1>6. i \in 1 .. MaxIps /\ i <= Count(f) /\ i \in 0 .. MaxIps /\ MaxIps \in Nat
  BY <1>2, <1>5, QueriesAssumption
<1>7. <<f, i>> \in Attempts /\ attempt[<<f, i>>] = "none"
  BY <1>1, <1>2, <1>6 DEF Dialed, Attempts
<1>8. /\ dialed'[f] = i /\ \A g \in Families : g # f => dialed'[g] = dialed[g]
      /\ dialed' \in [Families -> 0 .. MaxIps]
  BY <1>1, <1>4, <1>6 DEF EyeballsTypeOK
<1>9. /\ attempt'[<<f, i>>] = "dialing" /\ \A a \in Attempts : a # <<f, i>> => attempt'[a] = attempt[a]
      /\ attempt' \in [Attempts -> {"none", "dialing", "connected", "refused", "returned", "ended"}]
  BY <1>1, <1>4, <1>7 DEF EyeballsTypeOK
<1>10. EyeballsTypeOK'
  BY <1>1, <1>4, <1>8, <1>9 DEF EyeballsTypeOK, queryVars
<1>11. \A g \in Families : Count(g)' = Count(g)
  BY <1>1 DEF Count, queryVars
<1>12. Deliveries'
  BY <1>1 DEF Deliveries, queryVars
<1>13. Dialed'
  <2>1. \A g \in Families : dialed'[g] <= Count(g)'
    BY <1>1, <1>2, <1>6, <1>8, <1>11 DEF Dialed
  <2>2. ASSUME NEW g \in Families, NEW j \in 1 .. MaxIps
        PROVE  attempt'[<<g, j>>] = "none" <=> j > dialed'[g]
    <3>1. <<g, j>> \in Attempts /\ (attempt[<<g, j>>] = "none" <=> j > dialed[g])
      BY <1>1 DEF Dialed, Attempts
    <3>2. CASE <<g, j>> = <<f, i>>
      BY <1>6, <1>8, <1>9, <3>2
    <3>3. CASE g # f
      BY <1>8, <1>9, <3>1, <3>3
    <3>4. CASE g = f /\ j # i
      <4>1. j > dialed[f] <=> j > i
        BY <1>2, <1>6, <3>4
      <4> QED
        BY <1>8, <1>9, <3>1, <3>4, <4>1
    <3> QED
      BY <3>2, <3>3, <3>4
  <2> QED
    BY <2>1, <2>2 DEF Dialed
<1>14. Unsettled' = Unsettled \cup {<<f, i>>} /\ <<f, i>> \notin Unsettled
  BY <1>7, <1>9 DEF Unsettled
<1>15. Cardinality(Unsettled') = Cardinality(Unsettled) + 1 /\ Cardinality(Unsettled) \in Nat
  <2>1. Unsettled \subseteq Attempts
    BY DEF Unsettled
  <2>2. IsFiniteSet(Unsettled) /\ Cardinality(Unsettled) \in Nat
    BY <2>1, FewAttempts
  <2> QED
    BY <1>14, <2>2, FS_AddElement
<1>16. ToCome' = ToCome
  <2>1. Left(f)' = Left(f) - 1 /\ \A g \in Families : g # f => Left(g)' = Left(g)
    BY <1>2, <1>6, <1>8, <1>11 DEF Left
  <2>2. f \in {4, 6} /\ 4 \in Families /\ 6 \in Families
    BY DEF Families
  <2>3. Left(4) \in Nat /\ Left(6) \in Nat
    BY <1>2, <2>2
  <2>4. Left(4)' + Left(6)' = (Left(4) + Left(6)) - 1 /\ Left(4)' \in Int /\ Left(6)' \in Int
    BY <2>1, <2>2, <2>3
  <2>5. (IF resolutionOpen THEN 1 ELSE 0)' = (IF resolutionOpen THEN 1 ELSE 0)
        /\ (IF resolutionOpen THEN 1 ELSE 0) \in Int
    BY <1>1
  <2>6. Cardinality(Unsettled)' = Cardinality(Unsettled) + 1
    BY <1>15
  <2> QED
    BY <1>15, <2>3, <2>4, <2>5, <2>6 DEF ToCome
<1>17. Pending'
  BY <1>1, <1>16 DEF Pending, Selecting
<1>18. Exhausted' /\ OneReturned'
  <2>1. \A a \in Attempts : attempt'[a] = "returned" => attempt[a] = "returned"
    BY <1>7, <1>9
  <2> QED
    BY <1>1, <2>1 DEF Exhausted, OneReturned, Selecting
<1> QED
  BY <1>10, <1>12, <1>13, <1>17, <1>18 DEF EyeballsInv

\* An attempt that is under way goes on to another state.
AttemptGoes(a, to) == /\ attempt[a] \in {"dialing", "connected", "refused"}
                 /\ attempt' = [attempt EXCEPT ![a] = to]

\* Such a step touches no other attempt, and keeps what is known of it.
LEMMA AttemptMoves ==
  ASSUME EyeballsInv, NEW a \in Attempts,
         NEW to \in {"connected", "refused", "returned", "ended"}, AttemptGoes(a, to),
         UNCHANGED <<queryVars, results, resolutionOpen, got, dialed, last>>
  PROVE  /\ attempt' \in [Attempts -> {"none", "dialing", "connected", "refused", "returned", "ended"}]
         /\ attempt'[a] = to /\ \A b \in Attempts : b # a => attempt'[b] = attempt[b]
         /\ Deliveries' /\ Dialed' /\ ToCome \in Int
         /\ to \in {"connected", "refused"} => ToCome' = ToCome
         /\ to \in {"returned", "ended"} => ToCome' = ToCome - 1 /\ ToCome >= 1
<1>1. /\ attempt' \in [Attempts -> {"none", "dialing", "connected", "refused", "returned", "ended"}]
      /\ attempt'[a] = to /\ \A b \in Attempts : b # a => attempt'[b] = attempt[b]
  BY DEF EyeballsInv, EyeballsTypeOK, AttemptGoes
<1>2. Deliveries'
  BY DEF EyeballsInv, Deliveries, queryVars
<1>3. \A f \in Families : Count(f)' = Count(f) /\ Left(f)' = Left(f)
  BY DEF Left, Count, queryVars
<1>4. \A b \in Attempts : attempt'[b] = "none" <=> attempt[b] = "none"
  BY <1>1 DEF AttemptGoes
<1>5. Dialed'
  <2>1. \A f \in Families : \A i \in 1 .. MaxIps : <<f, i>> \in Attempts
    BY DEF Attempts
  <2> QED
    BY <1>3, <1>4, <2>1 DEF EyeballsInv, Dialed
<1>6. Unsettled \subseteq Attempts /\ a \in Unsettled
  BY DEF Unsettled, AttemptGoes
<1>7. IsFiniteSet(Unsettled) /\ Cardinality(Unsettled) \in Nat
  BY <1>6, FewAttempts
<1>8. /\ 4 \in Families /\ 6 \in Families /\ Left(4) \in Nat /\ Left(6) \in Nat
  BY Counts DEF EyeballsInv, Dialed, Left
<1>9. (IF resolutionOpen THEN 1 ELSE 0)' = (IF resolutionOpen THEN 1 ELSE 0)
      /\ (IF resolutionOpen THEN 1 ELSE 0) \in Nat
  OBVIOUS
<1>10. ToCome \in Int
  BY <1>7, <1>8, <1>9 DEF ToCome
<1>11. ASSUME to \in {"connected", "refused"} PROVE ToCome' = ToCome
  <2>1. Unsettled' = Unsettled
    BY <1>1, <1>11 DEF Unsettled, AttemptGoes
  <2> QED
    BY <1>3, <1>8, <1>9, <2>1 DEF ToCome
<1>12. ASSUME to \in {"returned", "ended"} PROVE ToCome' = ToCome - 1 /\ ToCome >= 1
  <2>1. Unsettled' = Unsettled \ {a}
    BY <1>1, <1>12 DEF Unsettled, AttemptGoes
  <2>2. Cardinality(Unsettled') = Cardinality(Unsettled) - 1 /\ Cardinality(Unsettled) >= 1
    <3>1. Cardinality(Unsettled \ {a}) = Cardinality(Unsettled) - 1 /\ IsFiniteSet(Unsettled \ {a})
      BY <1>6, <1>7, FS_RemoveElement
    <3>2. Cardinality(Unsettled \ {a}) \in Nat
      BY <3>1, FS_CardinalityType
    <3> QED
      BY <1>7, <2>1, <3>1, <3>2
  <2>3. Cardinality(Unsettled)' = Cardinality(Unsettled) - 1
    BY <2>2
  <2>4. Left(4)' = Left(4) /\ Left(6)' = Left(6)
    BY <1>3, <1>8
  <2> QED
    BY <1>7, <1>8, <1>9, <2>2, <2>3, <2>4 DEF ToCome
<1> QED
  BY <1>1, <1>2, <1>5, <1>10, <1>11, <1>12

\* A base dial returns, or its goroutine sees that nobody waits any more.
LEMMA ReturnKeeps == ASSUME EyeballsInv, NEW a \in Attempts, AttemptReturns(a) PROVE EyeballsInv'
<1>1. PICK to \in {"connected", "refused"} : AttemptGoes(a, to)
  BY DEF AttemptReturns, AttemptGoes
<1>2. UNCHANGED <<ctxDone, queryVars, results, resolutionOpen, got, dialed, last, opsPending, outcome>>
  BY DEF AttemptReturns
<1>3. /\ attempt' \in [Attempts -> {"none", "dialing", "connected", "refused", "returned", "ended"}]
      /\ attempt'[a] = to /\ \A b \in Attempts : b # a => attempt'[b] = attempt[b]
      /\ Deliveries' /\ Dialed' /\ ToCome' = ToCome
  BY <1>1, <1>2, AttemptMoves
<1>4. EyeballsTypeOK'
  BY <1>2, <1>3 DEF EyeballsInv, EyeballsTypeOK, queryVars
<1>5. Pending'
  BY <1>2, <1>3 DEF EyeballsInv, Pending, Selecting
<1>6. attempt[a] = "dialing"
  BY DEF AttemptReturns
<1>7. OneReturned'
  BY <1>2, <1>3 DEF EyeballsInv, OneReturned
<1>8. Exhausted'
  <2> SUFFICES ASSUME outcome \in {"dialError", "lookupError", "noIPs"}, TriedAll PROVE TriedAll'
    BY <1>2 DEF EyeballsInv, Exhausted
  <2>1. \A f \in Families : answer[f] # LookupError => answer[f] \in 0 .. MaxIps
    BY DEF EyeballsInv, EyeballsTypeOK
  <2>2. \A f \in Families : answer[f] # LookupError =>
          \A i \in 1 .. answer[f] : <<f, i>> \in Attempts /\ <<f, i>> # a
    BY <1>6, <2>1, QueriesAssumption DEF TriedAll, Attempts
  <2> QED
    BY <1>2, <1>3, <2>2 DEF TriedAll, queryVars
<1> QED
  BY <1>3, <1>4, <1>5, <1>7, <1>8 DEF EyeballsInv

\* An attempt that sees the end of its dial ends.
LEMMA SeesDoneKeeps == ASSUME EyeballsInv, NEW a \in Attempts, AttemptSeesDone(a) PROVE EyeballsInv'
<1>1. AttemptGoes(a, "ended")
  BY DEF AttemptSeesDone, AttemptGoes
<1>2. UNCHANGED <<ctxDone, queryVars, results, resolutionOpen, got, dialed, last, opsPending, outcome>>
      /\ ctxDone
  BY DEF AttemptSeesDone
<1>3. /\ attempt' \in [Attempts -> {"none", "dialing", "connected", "refused", "returned", "ended"}]
      /\ attempt'[a] = "ended" /\ \A b \in Attempts : b # a => attempt'[b] = attempt[b]
      /\ Deliveries' /\ Dialed' /\ ToCome' = ToCome - 1 /\ ToCome \in Int
  BY <1>1, <1>2, AttemptMoves
<1>4. EyeballsTypeOK' /\ opsPending \in Nat
  BY <1>2, <1>3 DEF EyeballsInv, EyeballsTypeOK, queryVars
<1>5. Pending'
  BY <1>2, <1>3, <1>4 DEF EyeballsInv, Pending, Selecting
<1>6. OneReturned'
  BY <1>2, <1>3 DEF EyeballsInv, OneReturned
<1>7. Exhausted'
  <2>1. \A f \in Families : answer[f] # LookupError => answer[f] \in 0 .. MaxIps
    BY DEF EyeballsInv, EyeballsTypeOK
  <2>2. \A f \in Families : answer[f] # LookupError => \A i \in 1 .. answer[f] : <<f, i>> \in Attempts
    BY <2>1, QueriesAssumption DEF Attempts
  <2> QED
    BY <1>2, <1>3, <2>2 DEF EyeballsInv, Exhausted, TriedAll, queryVars
<1> QED
  BY <1>3, <1>4, <1>5, <1>6, <1>7 DEF EyeballsInv

\* The select takes a result: it returns the connection, or counts it down.
LEMMA TakeAttemptKeeps == ASSUME EyeballsInv, NEW a \in Attempts, TakeAttempt(a) PROVE EyeballsInv'
<1>1. Selecting /\ UNCHANGED <<queryVars, results, resolutionOpen, got, dialed, last>>
  BY DEF TakeAttempt
<1>2. EyeballsTypeOK /\ Pending /\ opsPending \in Nat
  BY DEF EyeballsInv, EyeballsTypeOK
<1>3. CASE attempt[a] = "refused"
  <2>1. AttemptGoes(a, "ended") /\ Round(opsPending - 1, hadErr \cup {"dial"})
    BY <1>3 DEF TakeAttempt, AttemptGoes
  <2>2. /\ attempt' \in [Attempts -> {"none", "dialing", "connected", "refused", "returned", "ended"}]
        /\ attempt'[a] = "ended" /\ \A b \in Attempts : b # a => attempt'[b] = attempt[b]
        /\ Deliveries' /\ Dialed' /\ ToCome' = ToCome - 1 /\ ToCome \in Int /\ ToCome >= 1
    BY <1>1, <2>1, AttemptMoves
  <2>3. opsPending - 1 \in Nat /\ opsPending - 1 >= ToCome' /\ (~ctxDone => opsPending - 1 = ToCome')
    BY <1>1, <1>2, <2>2 DEF Pending
  <2>4. EyeballsTypeOK'
    <3>1. opsPending' \in Nat
      BY <2>1, <2>3 DEF Round
    <3>2. outcome' \in {"none", "connected", "dialError", "lookupError", "noIPs", "cancelled"}
          /\ ctxDone' \in BOOLEAN
      BY <1>2, <2>1 DEF Round, NoConnection, EyeballsTypeOK
    <3> QED
      BY <1>1, <1>2, <2>2, <3>1, <3>2 DEF EyeballsTypeOK, queryVars
  <2>5. \A b \in Attempts : attempt'[b] = "returned" => attempt[b] = "returned"
    BY <2>2
  <2> QED
    BY <1>1, <2>1, <2>2, <2>3, <2>4, <2>5, RoundKeeps
<1>4. CASE attempt[a] # "refused"
  <2>1. /\ AttemptGoes(a, "returned") /\ opsPending' = opsPending - 1
        /\ outcome' = "connected" /\ ctxDone' = TRUE
    BY <1>4 DEF TakeAttempt, AttemptGoes
  <2>2. /\ attempt' \in [Attempts -> {"none", "dialing", "connected", "refused", "returned", "ended"}]
        /\ attempt'[a] = "returned" /\ \A b \in Attempts : b # a => attempt'[b] = attempt[b]
        /\ Deliveries' /\ Dialed' /\ ToCome' = ToCome - 1 /\ ToCome \in Int /\ ToCome >= 1
    BY <1>1, <2>1, AttemptMoves
  <2>3. opsPending' \in Nat
    BY <1>1, <1>2, <2>1, <2>2 DEF Pending
  <2>4. EyeballsTypeOK'
    BY <1>1, <1>2, <2>1, <2>2, <2>3 DEF EyeballsTypeOK, queryVars
  <2>5. \A b \in Attempts : attempt[b] # "returned"
    BY <1>1 DEF EyeballsInv, OneReturned, Selecting
  <2>6. OneReturned'
    BY <2>1, <2>2, <2>5 DEF OneReturned
  <2>7. Pending' /\ Exhausted'
    BY <2>1 DEF Pending, Selecting, Exhausted
  <2> QED
    BY <2>2, <2>4, <2>6, <2>7 DEF EyeballsInv
<1> QED
  BY <1>3, <1>4

\* Every step preserves the invariant.
LEMMA EyeballsNextInv == EyeballsInv /\ [EyeballsNext]_eyeballsVars => EyeballsInv'
<1> SUFFICES ASSUME EyeballsInv, [EyeballsNext]_eyeballsVars PROVE EyeballsInv'
  OBVIOUS
<1>1. CASE CallerCancels \/ ResolutionDelayEnds \/ AttemptDelayEnds \/ SeeCancel
  BY <1>1, QuietDial DEF CallerCancels, ResolutionDelayEnds, AttemptDelayEnds, SeeCancel, dialVars
<1>2. CASE UNCHANGED eyeballsVars
  BY <1>2, QuietDial DEF eyeballsVars, dialVars
<1>3. CASE TakeLookup \/ LookupsClosed \/ StartAttempt
  BY <1>3, TakeLookupKeeps, ClosedKeeps, StartKeeps
<1>4. ASSUME NEW f \in Families, (QueryStep(f) /\ UNCHANGED dialVars) \/ LookupDelivers(f)
      PROVE  EyeballsInv'
  BY <1>4, QueriesMove, QueryKeeps, DeliverKeeps
<1>5. ASSUME NEW a \in Attempts, AttemptStep(a) PROVE EyeballsInv'
  BY <1>5, ReturnKeeps, SeesDoneKeeps, TakeAttemptKeeps DEF AttemptStep
<1> QED
  BY <1>1, <1>2, <1>3, <1>4, <1>5 DEF EyeballsNext, SelectStep

\* What the invariant says of opsPending and of a dial that gives up.
LEMMA EyeballsInvTries == EyeballsInv => EyeballsTypeOK /\ AllTried
  BY DEF EyeballsInv, Pending, PendingExact, ToCome, Unsettled, Exhausted, TriedAll, OneReturned, AllTried

\* A Happy Eyeballs dial gives up only when everything was tried, and hands
\* out one connection, however its lookups, timers and attempts interleave.
THEOREM EveryAddressIsTried == EyeballsSpec => [](EyeballsTypeOK /\ AllTried)
  BY EyeballsInitInv, EyeballsNextInv, EyeballsInvTries, PTL DEF EyeballsSpec

(* ------------------------- the search and its cache ---------------------- *)
\* The search that resumes a cached fallback returns without storing anything:
\* that the cache still names its result needs what the search was started with
\* (Resumed) and the shape of what is stored (Shaped).

\* A stored strategy with a fallback has nothing else.
Shape(w) == w.fallback # Nothing => w = Fallback(w.fallback)
Shaped == Shape(cache) /\ Shape(file)

\* The race that resumes the cache is over the fallback that is stored.
Resumed == stage = "cached" => /\ store /\ entries = <<cache.fallback>>
                               /\ cache = Fallback(cache.fallback)

\* Results come from the entries of the race.
ResultsOfEntries == DOMAIN tests = DOMAIN entries /\ arrived \in Seq(DOMAIN entries)

\* While Put is under way memory is ahead of the file; otherwise the file is
\* what was written last.
InPut == stage = "putting" => store /\ cache = WinningConfig(found) /\ ~flushed
Written == store /\ flushed => file = cache

\* After a search that is what winningConfig keeps of its result.
Kept == store /\ stage = "idle" /\ searched =>
          cache = WinningConfig(found) /\ (flushed => file = cache)

SearchInv ==
  /\ stage \in Races \cup {"idle", "putting"}
  /\ Shaped /\ Resumed /\ ResultsOfEntries /\ InPut /\ Written /\ Kept

\* The initial states satisfy the invariant.
LEMMA SearchInitInv == SearchInit => SearchInv
<1> SUFFICES ASSUME SearchInit PROVE SearchInv
  OBVIOUS
<1>1. stage = "idle" /\ ~searched /\ cache = NoWinner /\ file = NoWinner
        /\ entries = <<>> /\ tests = <<>> /\ arrived = <<>>
  BY DEF SearchInit
<1>2. Shaped
  BY <1>1 DEF Shaped, Shape, NoWinner, Nothing
<1>3. ResultsOfEntries
  BY <1>1 DEF ResultsOfEntries
<1> QED
  BY <1>1, <1>2, <1>3 DEF SearchInv, Resumed, InPut, Written, Kept, Races

\* A race that is not the one over the cache may begin at any time.
LEMMA RaceKeeps ==
  ASSUME SearchInv, NEW what \in {"dns", "tls", "fallback"}, NEW list, Race(what, list),
         UNCHANGED storeVars
  PROVE  SearchInv'
<1>1. /\ stage' = what /\ entries' = list /\ arrived' = <<>>
      /\ DOMAIN tests' = DOMAIN list
      /\ UNCHANGED <<store, cache, file, flushed>>
  BY DEF Race, storeVars
<1>2. ResultsOfEntries'
  BY <1>1 DEF ResultsOfEntries
<1> QED
  BY <1>1, <1>2 DEF SearchInv, Shaped, Shape, Resumed, InPut, Written, Kept, Races

\* The end of a call clears the race.
LEMMA FinishClears ==
  ASSUME NEW result, NEW then, Finish(result, then)
  PROVE  /\ stage' = then /\ found' = result /\ entries' = <<>>
         /\ ResultsOfEntries'
  BY DEF Finish, ResultsOfEntries

\* What is returned is what is stored, when it is stored.
LEMMA PersistKeeps ==
  ASSUME SearchInv, NEW result, Shape(WinningConfig(result)), Persist(result)
  PROVE  SearchInv'
<1>1. CASE store
  <2>1. /\ Finish(result, "putting")
        /\ cache' = WinningConfig(result) /\ flushed' = FALSE /\ store' = store /\ file' = file
    BY <1>1 DEF Persist, Put
  <2>2. Shaped'
    BY <2>1 DEF SearchInv, Shaped, Shape
  <2> QED
    BY <1>1, <2>1, <2>2, FinishClears
       DEF SearchInv, Resumed, InPut, Written, Kept, Races
<1>2. CASE ~store
  <2>1. Finish(result, "idle") /\ UNCHANGED <<store, cache, file, flushed>>
    BY <1>2 DEF Persist, Return, storeVars
  <2>2. Shaped'
    BY <2>1 DEF SearchInv, Shaped, Shape
  <2> QED
    BY <1>2, <2>1, <2>2, FinishClears
       DEF SearchInv, Resumed, InPut, Written, Kept, Races
<1> QED
  BY <1>1, <1>2

\* What is kept of each kind of strategy, and that it has the shape.
LEMMA Keeps ==
  /\ WinningConfig(NoWinner) = NoWinner
  /\ \A f : WinningConfig(Fallback(f)) = Fallback(f)
  /\ \A d, t : WinningConfig(Proxyless(d, t)) = Proxyless(d, IF t = Direct THEN Nothing ELSE t)
  BY SearchAssumption DEF WinningConfig, NoWinner, Fallback, Proxyless
LEMMA Shapes ==
  /\ Shape(NoWinner) /\ Shape(WinningConfig(NoWinner)) /\ Shape(Torn)
  /\ \A f : Shape(WinningConfig(Fallback(f)))
  /\ \A d, t : Shape(WinningConfig(Proxyless(d, t)))
<1>1. Shape(NoWinner) /\ Shape(Torn) /\ (\A f : Shape(Fallback(f)))
        /\ \A d, t : Shape(Proxyless(d, t))
  BY DEF Shape, NoWinner, Fallback, Proxyless, Torn, Nothing
<1> QED
  BY <1>1, Keeps

\* The fallbacks are tried, or the search ends without a strategy.
LEMMA TryFallbacksKeeps == SearchInv /\ TryFallbacks => SearchInv'
<1> SUFFICES ASSUME SearchInv, TryFallbacks PROVE SearchInv'
  OBVIOUS
<1>1. CASE Persist(NoWinner)
  BY <1>1, PersistKeeps, Shapes
<1>2. CASE Race("fallback", config.fallback) /\ UNCHANGED storeVars
  BY <1>2, RaceKeeps
<1> QED
  BY <1>1, <1>2 DEF TryFallbacks, FindFallback

\* A race that found nothing, whatever it was over.
LEMMA LostKeeps == SearchInv /\ Lost => SearchInv'
<1> SUFFICES ASSUME SearchInv, Lost PROVE SearchInv'
  OBVIOUS
<1>1. CASE Race("dns", config.dns) /\ UNCHANGED storeVars
  BY <1>1, RaceKeeps
<1>2. CASE TryFallbacks
  BY <1>2, TryFallbacksKeeps
<1>3. CASE Persist(NoWinner)
  BY <1>3, PersistKeeps, Shapes
<1> QED
  BY <1>1, <1>2, <1>3 DEF Lost, FindDNS

\* A race that was won by one of its entries.
LEMMA WonKeeps ==
  ASSUME SearchInv, NEW i \in DOMAIN entries, Won(entries[i])
  PROVE  SearchInv'
<1> DEFINE e == entries[i]
<1>1. CASE stage = "cached" /\ Return(Fallback(e))
  <2>1. e = cache.fallback
    BY <1>1 DEF SearchInv, Resumed
  <2>2. /\ Finish(Fallback(e), "idle") /\ UNCHANGED <<store, cache, file, flushed>>
    BY <1>1 DEF Return, storeVars
  <2>3. cache' = WinningConfig(found')
    BY <1>1, <2>1, <2>2, FinishClears, Keeps DEF SearchInv, Resumed
  <2>4. Shaped' /\ Written'
    BY <2>2 DEF SearchInv, Shaped, Shape, Written
  <2> QED
    BY <2>2, <2>3, <2>4, FinishClears DEF SearchInv, Resumed, InPut, Written, Kept, Races
<1>2. CASE Persist(Fallback(e))
  BY <1>2, PersistKeeps, Shapes
<1>3. CASE Persist(Proxyless(winner, e))
  BY <1>3, PersistKeeps, Shapes
<1>4. CASE TryFallbacks
  BY <1>4, TryFallbacksKeeps
<1>5. CASE Persist(Proxyless(e, Direct))
  BY <1>5, PersistKeeps, Shapes
<1>6. CASE Race("tls", config.tls) /\ UNCHANGED storeVars
  BY <1>6, RaceKeeps
<1> QED
  BY <1>1, <1>2, <1>3, <1>4, <1>5, <1>6 DEF Won, FindTLS

\* A step that leaves the stage, the result and what is stored alone, and takes
\* no result that is not an entry's.
LEMMA QuietKeeps ==
  ASSUME SearchInv, UNCHANGED <<stage, entries, found, searched, store, cache, file, flushed>>,
         DOMAIN tests' = DOMAIN tests, arrived' \in Seq(DOMAIN entries)
  PROVE  SearchInv'
<1>1. ResultsOfEntries'
  BY DEF SearchInv, ResultsOfEntries
<1> QED
  BY <1>1 DEF SearchInv, Shaped, Shape, Resumed, InPut, Written, Kept

\* A call that begins: it resumes the cached fallback, or races over the DNS.
LEMMA NewDialerKeeps == SearchInv /\ NewDialer => SearchInv'
<1> SUFFICES ASSUME SearchInv, NewDialer PROVE SearchInv'
  OBVIOUS
<1>1. UNCHANGED storeVars /\ searched' = FALSE
  BY DEF NewDialer
<1>2. PICK c \in Configs : IF Exclusive(c) THEN Race("cached", <<cache.fallback>>)
                           ELSE Race("dns", Ranked(c).dns)
  BY DEF NewDialer, FindFallback, FindDNS
<1>3. CASE Exclusive(c)
  <2>1. store /\ cache.fallback # Nothing
    BY <1>3, SearchAssumption DEF Exclusive
  <2>2. cache = Fallback(cache.fallback)
    BY <2>1 DEF SearchInv, Shaped, Shape
  <2>3. /\ stage' = "cached" /\ entries' = <<cache.fallback>> /\ arrived' = <<>>
        /\ DOMAIN tests' = DOMAIN entries'
        /\ UNCHANGED <<store, cache, file, flushed>>
    BY <1>1, <1>2, <1>3 DEF Race, storeVars
  <2>4. ResultsOfEntries'
    BY <2>3 DEF ResultsOfEntries
  <2>5. Resumed'
    BY <2>1, <2>2, <2>3 DEF Resumed
  <2>6. Shaped' /\ Written'
    BY <2>3 DEF SearchInv, Shaped, Shape, Written
  <2> QED
    BY <2>3, <2>4, <2>5, <2>6 DEF SearchInv, InPut, Kept, Races
<1>4. CASE ~Exclusive(c)
  BY <1>1, <1>2, <1>4, RaceKeeps
<1> QED
  BY <1>3, <1>4

\* The file is written; or an error leaves it in one of its states.
LEMMA FlushKeeps == SearchInv /\ FlushNoLock => SearchInv'
<1> SUFFICES ASSUME SearchInv, FlushNoLock PROVE SearchInv'
  OBVIOUS
<1>1. /\ stage = "putting" /\ stage' = "idle"
      /\ UNCHANGED <<entries, tests, arrived, found, store, cache>>
  BY DEF FlushNoLock, raceVars
<1>2. \/ file' = cache /\ flushed' = TRUE
      \/ file' \in Contents(cache) /\ flushed' = flushed
  BY DEF FlushNoLock
<1>3. Shape(file') /\ Shape(cache')
  BY <1>1, <1>2, Shapes DEF SearchInv, Shaped, Contents
<1>4. Shaped' /\ ResultsOfEntries'
  BY <1>1, <1>3 DEF SearchInv, Shaped, Shape, ResultsOfEntries
<1>5. Written' /\ Kept'
  BY <1>1, <1>2 DEF SearchInv, InPut, Written, Kept
<1> QED
  BY <1>1, <1>4, <1>5 DEF SearchInv, Resumed, InPut, Races

\* The process starts again with what it finds in the file.
LEMMA RestartKeeps == SearchInv /\ Restart => SearchInv'
<1> SUFFICES ASSUME SearchInv, Restart PROVE SearchInv'
  OBVIOUS
<1>1. /\ stage' = "idle" /\ searched' = FALSE /\ arrived' = <<>>
      /\ DOMAIN tests' = DOMAIN entries'
  BY DEF Restart
<1>2. file' \in Contents(cache)
  BY DEF Restart, Contents
<1>3. store' = (file' # Torn) /\ cache' = (IF file' = Torn THEN NoWinner ELSE file')
  BY DEF Restart, NewJSONFileCache
<1>4. Shape(file') /\ Shape(cache')
  BY <1>2, <1>3, Shapes DEF SearchInv, Shaped, Contents
<1>5. Shaped' /\ Written'
  BY <1>3, <1>4 DEF Shaped, Shape, Written
<1>6. ResultsOfEntries'
  BY <1>1 DEF ResultsOfEntries
<1> QED
  BY <1>1, <1>5, <1>6 DEF SearchInv, Resumed, InPut, Kept, Races

\* A result is taken from the channel: the race is won, lost or goes on.
LEMMA TakeResultKeeps == SearchInv /\ TakeResult => SearchInv'
<1> SUFFICES ASSUME SearchInv, TakeResult PROVE SearchInv'
  OBVIOUS
<1>1. Head(arrived) \in DOMAIN entries /\ Tail(arrived) \in Seq(DOMAIN entries)
  BY DEF SearchInv, ResultsOfEntries, TakeResult
<1>2. \/ Won(entries[Head(arrived)])
      \/ Lost
      \/ /\ arrived' = Tail(arrived)
         /\ UNCHANGED <<stage, entries, tests, found, searched, store, cache, file, flushed>>
  BY DEF TakeResult, storeVars
<1>3. CASE Won(entries[Head(arrived)])
  BY <1>1, <1>3, WonKeeps
<1>4. CASE Lost
  BY <1>4, LostKeeps
<1>5. CASE /\ arrived' = Tail(arrived)
           /\ UNCHANGED <<stage, entries, tests, found, searched, store, cache, file, flushed>>
  BY <1>1, <1>5, QuietKeeps
<1> QED
  BY <1>2, <1>3, <1>4, <1>5

\* What a step of a test does: it waits for the response, or ends.
LEMMA TestMoves ==
  ASSUME NEW i \in DOMAIN tests, TestGoes(i) \/ Answered(i)
  PROVE  /\ tests[i] \in {"running", "asking"} /\ DOMAIN tests' = DOMAIN tests
         /\ \A j \in DOMAIN tests : j # i => tests'[j] = tests[j]
         /\ \/ tests'[i] = "asking" /\ UNCHANGED <<arrived, ready>>
            \/ /\ tests'[i] \in {"passed", "failed"} /\ arrived' = Append(arrived, i)
               /\ ready' = (ready \/ i = next)
         /\ \E to \in {"asking", "passed", "failed"} : tests' = [tests EXCEPT ![i] = to]
         /\ UNCHANGED <<base, config, stage, calls, cancelled, entries, next, refused,
                        winner, found, searched, store, cache, file, flushed>>
<1>1. tests[i] \in {"running", "asking"}
      /\ UNCHANGED <<base, config, stage, calls, cancelled, entries, next, refused,
                     winner, found, searched, store, cache, file, flushed>>
  BY DEF TestGoes, Answered, storeVars
<1>2. \/ tests' = [tests EXCEPT ![i] = "asking"] /\ UNCHANGED <<arrived, ready>>
      \/ \E ok : Ends(i, ok)
  BY DEF TestGoes, Answered, TestResolver, MakeDialerFromConfig, TestDialer
<1>3. CASE tests' = [tests EXCEPT ![i] = "asking"] /\ UNCHANGED <<arrived, ready>>
  BY <1>1, <1>3
<1>4. ASSUME NEW ok, Ends(i, ok)
      PROVE  /\ \E to \in {"passed", "failed"} : tests' = [tests EXCEPT ![i] = to]
             /\ arrived' = Append(arrived, i) /\ ready' = (ready \/ i = next)
  BY <1>4 DEF Ends
<1> QED
  BY <1>1, <1>2, <1>3, <1>4

\* Every step preserves the invariant.
LEMMA SearchNextInv == SearchInv /\ [SearchNext]_searchVars => SearchInv'
<1> SUFFICES ASSUME SearchInv, [SearchNext]_searchVars PROVE SearchInv'
  OBVIOUS
<1> USE DEF storeVars
<1>0. arrived \in Seq(DOMAIN entries)
  BY DEF SearchInv, ResultsOfEntries
<1>1. CASE ParseFails
  <2>1. /\ stage = "idle" /\ searched' = FALSE
        /\ UNCHANGED <<stage, entries, tests, arrived, store, cache, file, flushed>>
    BY <1>1 DEF ParseFails, raceVars
  <2>2. ResultsOfEntries' /\ Shaped' /\ Written'
    BY <2>1 DEF SearchInv, ResultsOfEntries, Shaped, Shape, Written
  <2> QED
    BY <2>1, <2>2 DEF SearchInv, Resumed, InPut, Kept, Races
<1>2. CASE NewDialer
  BY <1>2, NewDialerKeeps
<1>3. CASE FlushNoLock
  BY <1>3, FlushKeeps
<1>4. CASE Restart
  BY <1>4, RestartKeeps
<1>5. CASE CallerGivesUp
  BY <1>0, <1>5, QuietKeeps DEF CallerGivesUp, raceVars
<1>6. CASE StartTest
  <2>1. DOMAIN tests' = DOMAIN tests
    BY <1>6 DEF StartTest
  <2> QED
    BY <1>0, <1>6, <2>1, QuietKeeps DEF StartTest
<1>7. CASE MaxWaitPasses
  BY <1>0, <1>7, QuietKeeps DEF MaxWaitPasses
<1>8. CASE TakeResult
  BY <1>8, TakeResultKeeps
<1>9. CASE NoEntries \/ SeeGivenUp
  BY <1>9, LostKeeps DEF NoEntries, SeeGivenUp
<1>10. ASSUME NEW i \in DOMAIN tests, TestGoes(i) \/ Answered(i) PROVE SearchInv'
  <2>1. /\ DOMAIN tests' = DOMAIN tests
        /\ arrived' = arrived \/ arrived' = Append(arrived, i)
        /\ UNCHANGED <<stage, entries, found, searched, store, cache, file, flushed>>
    BY <1>10, TestMoves
  <2>2. arrived' \in Seq(DOMAIN entries)
    BY <1>0, <1>10, <2>1 DEF SearchInv, ResultsOfEntries
  <2> QED
    BY <2>1, <2>2, QuietKeeps
<1>11. CASE UNCHANGED searchVars
  BY <1>0, <1>11, QuietKeeps DEF searchVars, raceVars
<1> QED
  BY <1>1, <1>2, <1>3, <1>4, <1>5, <1>6, <1>7, <1>8, <1>9, <1>10, <1>11 DEF SearchNext

(* ----------------------------- why it ended ------------------------------ *)
Listed(list) == list \in Seq(Range(list)) /\ Nothing \notin Range(list)
ConfigListed(c) ==
  /\ c = [dns |-> c.dns, tls |-> c.tls, fallback |-> c.fallback]
  /\ Listed(c.dns) /\ Listed(c.tls) /\ Listed(c.fallback)

\* The race is over the list of its stage.
Staged ==
  /\ stage = "dns" => entries = config.dns
  /\ stage = "tls" => entries = config.tls /\ config.tls # <<>>
  /\ stage = "fallback" => entries = config.fallback
  /\ stage = "cached" => entries # <<>>

SearchTypes ==
  /\ SearchTypeOK /\ ConfigListed(config) /\ Listed(entries)
  /\ arrived \in Seq(DOMAIN tests) /\ Staged

\* A list has entries of another one only, and none twice.
Taken(list, of) ==
  \E from \in [DOMAIN list -> DOMAIN of] :
    /\ \A j \in DOMAIN from : list[j] = of[from[j]]
    /\ \A j, k \in DOMAIN from : from[j] = from[k] => j = k

\* Moving an entry to the front neither adds one nor doubles one.
LEMMA ToFrontProperties ==
  ASSUME NEW list, Listed(list), NEW e
  PROVE  /\ Listed(ToFront(list, e)) /\ Taken(ToFront(list, e), list)
         /\ e \in Range(list) => ToFront(list, e)[1] = e
<1>1. CASE e \notin Range(list)
  <2>1. ToFront(list, e) = list
    BY <1>1 DEF ToFront
  <2> DEFINE from == [j \in DOMAIN list |-> j]
  <2>2. /\ from \in [DOMAIN ToFront(list, e) -> DOMAIN list]
        /\ \A j \in DOMAIN from : ToFront(list, e)[j] = list[from[j]]
        /\ \A j, k \in DOMAIN from : from[j] = from[k] => j = k
    BY <2>1
  <2> HIDE DEF from
  <2> QED
    BY <1>1, <2>1, <2>2 DEF Taken
<1>2. CASE e \in Range(list)
  <2> DEFINE First(j) == list[j] = e /\ \A k \in 1 .. (j - 1) : list[k] # e
             i == CHOOSE j \in DOMAIN list : First(j)
             rest == RemoveAt(list, i)
  <2>1. list \in Seq(Range(list)) /\ DOMAIN list = 1 .. Len(list) /\ Len(list) \in Nat
        /\ Range(list) = {list[j] : j \in DOMAIN list}
    BY DEF Listed, Range
  <2>2. \E j \in DOMAIN list : First(j)
    <3> DEFINE T == {j \in DOMAIN list : list[j] = e}
    <3>1. T \subseteq Nat /\ T # {}
      BY <1>2, <2>1
    <3>2. PICK m \in T : \A n \in T : m <= n
      <4> HIDE DEF T
      <4> QED
        BY <3>1, LeastOf
    <3>3. \A k \in 1 .. (m - 1) : k \in DOMAIN list /\ ~(m <= k)
      BY <2>1, <3>2
    <3>4. \A k \in 1 .. (m - 1) : list[k] # e
      BY <3>2, <3>3
    <3> QED
      BY <3>2, <3>4
  <2>3. i \in DOMAIN list /\ list[i] = e
    BY <2>2
  <2>4. ToFront(list, e) = <<e>> \o rest
    BY <1>2 DEF ToFront
  <2> HIDE DEF i
  <2>5. /\ rest \in Seq(Range(list)) /\ Len(rest) = Len(list) - 1
        /\ \A j \in 1 .. Len(list) - 1 : rest[j] = IF j < i THEN list[j] ELSE list[j + 1]
    BY <2>1, <2>3, RemoveAtProperties
  <2> HIDE DEF rest
  <2>6. /\ ToFront(list, e) \in Seq(Range(list)) /\ Len(ToFront(list, e)) = Len(list)
        /\ ToFront(list, e)[1] = e /\ \A j \in 2 .. Len(list) : ToFront(list, e)[j] = rest[j - 1]
    <3>1. /\ <<e>> \o rest \in Seq(Range(list)) /\ Len(<<e>> \o rest) = Len(rest) + 1
          /\ (<<e>> \o rest)[1] = e /\ \A j \in 2 .. Len(rest) + 1 : (<<e>> \o rest)[j] = rest[j - 1]
      BY <1>2, <2>5, PutBefore
    <3>2. Len(rest) + 1 = Len(list)
      BY <2>1, <2>5
    <3> QED
      BY <2>4, <3>1, <3>2
  <2> DEFINE from == [j \in 1 .. Len(list) |-> IF j = 1 THEN i ELSE IF j - 1 < i THEN j - 1 ELSE j]
  <2>7. DOMAIN ToFront(list, e) = 1 .. Len(list)
    BY <2>1, <2>6
  <2>8. \A j \in 1 .. Len(list) : from[j] \in DOMAIN list /\ ToFront(list, e)[j] = list[from[j]]
    <3> SUFFICES ASSUME NEW j \in 1 .. Len(list)
                 PROVE  from[j] \in DOMAIN list /\ ToFront(list, e)[j] = list[from[j]]
      OBVIOUS
    <3>1. CASE j = 1
      BY <2>1, <2>3, <2>6, <3>1
    <3>2. CASE j # 1
      <4>1. j \in 2 .. Len(list) /\ j - 1 \in 1 .. Len(list) - 1 /\ (j - 1) + 1 = j
        BY <2>1, <3>2
      <4>2. ToFront(list, e)[j] = IF j - 1 < i THEN list[j - 1] ELSE list[j]
        BY <2>5, <2>6, <4>1
      <4> QED
        BY <2>1, <3>2, <4>1, <4>2
    <3> QED
      BY <3>1, <3>2
  <2>9. \A j, k \in 1 .. Len(list) : from[j] = from[k] => j = k
    BY <2>1, <2>3
  <2>10. Listed(ToFront(list, e))
    <3>1. \A j \in 1 .. Len(list) : ToFront(list, e)[j] \in Range(list)
      BY <2>1, <2>8
    <3>2. Range(ToFront(list, e)) \subseteq Range(list)
      BY <2>7, <3>1 DEF Range
    <3>3. ToFront(list, e) \in Seq(Range(ToFront(list, e)))
      <4>1. \A j \in DOMAIN ToFront(list, e) : ToFront(list, e)[j] \in Range(ToFront(list, e))
        BY DEF Range
      <4> HIDE DEF from
      <4> QED
        BY <2>6, <2>7, <4>1
    <3> QED
      BY <3>2, <3>3 DEF Listed
  <2>11. from \in [DOMAIN ToFront(list, e) -> DOMAIN list] /\ DOMAIN from = 1 .. Len(list)
    BY <2>7, <2>8
  <2> HIDE DEF from
  <2>12. Taken(ToFront(list, e), list)
    BY <2>8, <2>9, <2>11 DEF Taken
  <2> QED
    BY <2>6, <2>10, <2>12
<1> QED
  BY <1>1, <1>2

\* The configs of the calls, and what ranking makes of one.
LEMMA RankedListed ==
  ASSUME NEW c \in Configs
  PROVE  /\ ConfigListed(c) /\ ConfigListed(Ranked(c)) /\ Ranked(c).fallback = c.fallback
         /\ Taken(Ranked(c).dns, c.dns)
<1>1. ConfigListed(c)
  BY SearchAssumption DEF ConfigListed, Listed
<1>2. CASE Ranked(c) = c
  <2>1. Taken(c.dns, c.dns)
    <3> DEFINE from == [j \in DOMAIN c.dns |-> j]
    <3>1. /\ from \in [DOMAIN c.dns -> DOMAIN c.dns]
          /\ \A j \in DOMAIN from : c.dns[j] = c.dns[from[j]]
          /\ \A j, k \in DOMAIN from : from[j] = from[k] => j = k
      OBVIOUS
    <3> HIDE DEF from
    <3> QED
      BY <3>1 DEF Taken
  <2> QED
    BY <1>1, <1>2, <2>1
<1>3. CASE Ranked(c) # c
  <2>1. Ranked(c) = [c EXCEPT !.dns = ToFront(@, cache.dns), !.tls = ToFront(@, cache.tls)]
    BY <1>3 DEF Ranked
  <2>2. Ranked(c) = [dns |-> ToFront(c.dns, cache.dns), tls |-> ToFront(c.tls, cache.tls), fallback |-> c.fallback]
    BY <1>1, <2>1 DEF ConfigListed
  <2>3. Listed(ToFront(c.dns, cache.dns)) /\ Listed(ToFront(c.tls, cache.tls))
    BY <1>1, ToFrontProperties DEF ConfigListed
  <2>4. ConfigListed(Ranked(c))
    BY <1>1, <2>2, <2>3 DEF ConfigListed
  <2>5. Ranked(c).dns = ToFront(c.dns, cache.dns) /\ Ranked(c).fallback = c.fallback
    BY <2>2
  <2>6. Taken(ToFront(c.dns, cache.dns), c.dns)
    BY <1>1, ToFrontProperties DEF ConfigListed
  <2> QED
    BY <1>1, <2>4, <2>5, <2>6
<1> QED
  BY <1>2, <1>3

\* The call ends with a result, which is stored or not.
EndsWith(result) ==
  \E then \in {"idle", "putting"} : Finish(result, then) /\ store' = store /\ flushed' \in {flushed, FALSE}

\* So it does whether it stores its result or not.
LEMMA PersistEnds == ASSUME NEW result, Persist(result) \/ Return(result) PROVE EndsWith(result)
  BY DEF Persist, Return, Put, EndsWith, storeVars
Rest == UNCHANGED <<found, searched, storeVars>>

\* How a race that found nothing goes on.
LEMMA TryFallbacksLeads ==
  ASSUME TryFallbacks
  PROVE  \/ config.fallback = <<>> /\ EndsWith(NoWinner)
         \/ Race("fallback", config.fallback) /\ Rest
  BY PersistEnds DEF TryFallbacks, FindFallback, Rest

\* From a race that is lost to the next one, or to the end.
LEMMA LostLeads ==
  ASSUME Lost
  PROVE  \/ stage = "cached" /\ Race("dns", config.dns) /\ Rest
         \/ stage \in {"dns", "tls"} /\ config.fallback = <<>> /\ EndsWith(NoWinner)
         \/ stage \in {"dns", "tls"} /\ Race("fallback", config.fallback) /\ Rest
         \/ stage = "fallback" /\ EndsWith(NoWinner)
<1>1. CASE stage \in {"dns", "tls"} /\ TryFallbacks
  BY <1>1, TryFallbacksLeads
<1> QED
  BY <1>1, PersistEnds DEF Lost, FindDNS, Rest

\* How a race that was won by e goes on.
LEMMA WonLeads ==
  ASSUME NEW e, e # Nothing, Won(e)
  PROVE  \/ /\ stage = "dns" /\ e = System /\ ~base
            /\ \/ config.fallback = <<>> /\ EndsWith(NoWinner)
               \/ Race("fallback", config.fallback) /\ Rest
         \/ stage = "dns" /\ config.tls # <<>> /\ Race("tls", config.tls) /\ Rest
         \/ stage \in Races /\ \E result : result # NoWinner /\ EndsWith(result)
<1>1. Fallback(e) # NoWinner /\ \A d : Proxyless(d, e) # NoWinner /\ Proxyless(e, d) # NoWinner
  BY DEF Fallback, Proxyless, NoWinner
<1>2. CASE stage = "dns" /\ TryFallbacks /\ NewDNSResolverFromEntry(e).resolver = Nothing /\ ~base
  <2>1. e = System
    BY <1>2 DEF NewDNSResolverFromEntry
  <2> QED
    BY <1>2, <2>1, TryFallbacksLeads
<1>3. CASE (stage = "cached" /\ Return(Fallback(e))) \/ (stage = "fallback" /\ Persist(Fallback(e)))
  BY <1>1, <1>3, PersistEnds DEF Races
<1>4. CASE stage = "tls" /\ Persist(Proxyless(winner, e))
  BY <1>1, <1>4, PersistEnds DEF Races
<1>5. CASE stage = "dns" /\ Persist(Proxyless(e, Direct))
  BY <1>1, <1>5, PersistEnds DEF Races
<1>6. CASE stage = "dns" /\ config.tls # <<>> /\ FindTLS(config.tls)
      /\ UNCHANGED <<found, searched, storeVars>>
  BY <1>6 DEF FindTLS, Rest
<1>7. CASE stage = "dns" /\ ~(NewDNSResolverFromEntry(e).resolver = Nothing /\ ~base)
  <2>1. CASE config.tls = <<>>
    BY <1>5, <1>7, <2>1 DEF Won
  <2>2. CASE config.tls # <<>>
    BY <1>6, <1>7, <2>2 DEF Won
  <2> QED
    BY <2>1, <2>2
<1>8. CASE stage # "dns"
  <2>1. \/ stage = "cached" /\ Return(Fallback(e))
        \/ stage = "fallback" /\ Persist(Fallback(e))
        \/ stage = "tls" /\ Persist(Proxyless(winner, e))
    BY <1>8 DEF Won
  <2> QED
    BY <1>3, <1>4, <2>1
<1>9. CASE stage = "dns" /\ NewDNSResolverFromEntry(e).resolver = Nothing /\ ~base
  BY <1>2, <1>9 DEF Won
<1> QED
  BY <1>7, <1>8, <1>9

\* A race begins over a list of the config, and a call ends.
LEMMA RaceTypes ==
  ASSUME SearchTypes, NEW what \in Races, NEW list, Listed(list), Race(what, list),
         ConfigListed(config'), what = "cached" => list # <<>>,
         what = "dns" => list = config'.dns, what = "tls" => list = config'.tls /\ list # <<>>,
         what = "fallback" => list = config'.fallback,
         UNCHANGED <<base, storeVars>>, calls' \in 0 .. MaxCalls, cancelled' \in BOOLEAN, searched' \in BOOLEAN
  PROVE  SearchTypes'
<1>1. /\ stage' = what /\ entries' = list /\ next' = 0 /\ ready' = TRUE
      /\ tests' = [i \in DOMAIN list |-> "waiting"] /\ arrived' = <<>>
  BY DEF Race
<1>2. Len(list) \in Nat
  BY DEF Listed
<1>3. tests' \in [DOMAIN entries' -> {"waiting", "running", "asking", "passed", "failed"}]
  BY <1>1
<1>4. Range(arrived') \subseteq DOMAIN tests' /\ arrived' \in Seq(DOMAIN tests')
  BY <1>1 DEF Range
<1>5. next' \in 0 .. Len(entries')
  BY <1>1, <1>2
<1>6. SearchTypeOK'
  BY <1>1, <1>3, <1>4, <1>5 DEF SearchTypes, SearchTypeOK, storeVars
<1>7. Staged'
  BY <1>1 DEF Staged, Races
<1> QED
  BY <1>1, <1>4, <1>6, <1>7 DEF SearchTypes

\* A search that is over has no race left.
LEMMA EmptyRace ==
  ASSUME SearchTypes, stage' \in {"idle", "putting"}, entries' = <<>>, next' = 0, ready' = FALSE,
         tests' = <<>>,
         arrived' = <<>>, ConfigListed(config'), base' = base, calls' \in 0 .. MaxCalls,
         cancelled' \in BOOLEAN, searched' \in BOOLEAN, store' \in BOOLEAN, flushed' \in BOOLEAN
  PROVE  SearchTypes'
<1>1. tests' \in [DOMAIN entries' -> {"waiting", "running", "asking", "passed", "failed"}]
      /\ DOMAIN tests' = {}
  OBVIOUS
<1>2. Range(arrived') \subseteq DOMAIN tests' /\ arrived' \in Seq(DOMAIN tests')
  BY DEF Range
<1>3. next' \in 0 .. Len(entries')
  OBVIOUS
<1>4. Listed(entries')
  BY DEF Listed, Range
<1>5. SearchTypeOK'
  BY <1>1, <1>2, <1>3 DEF SearchTypes, SearchTypeOK
<1>6. Staged'
  BY DEF Staged
<1> QED
  BY <1>2, <1>4, <1>5, <1>6 DEF SearchTypes

\* A search that ends keeps the types.
LEMMA EndTypes ==
  ASSUME SearchTypes, NEW result, EndsWith(result), UNCHANGED <<base, config, calls, cancelled>>
  PROVE  SearchTypes'
<1>1. PICK then \in {"idle", "putting"} : Finish(result, then) /\ store' = store /\ flushed' \in {flushed, FALSE}
  BY DEF EndsWith
<1>2. store' \in BOOLEAN /\ flushed' \in BOOLEAN /\ searched' \in BOOLEAN
      /\ calls' \in 0 .. MaxCalls
      /\ cancelled' \in BOOLEAN
  BY <1>1 DEF SearchTypes, SearchTypeOK, Finish
<1> QED
  BY <1>1, <1>2, EmptyRace DEF Finish, SearchTypes

\* Steps within a race, and between races, that keep its list.
LEMMA SameRaceTypes ==
  ASSUME SearchTypes, UNCHANGED <<stage, entries, base, config, store>>,
         calls' \in 0 .. MaxCalls, cancelled' \in BOOLEAN, ready' \in BOOLEAN, next' \in 0 .. Len(entries),
         tests' \in [DOMAIN entries -> {"waiting", "running", "asking", "passed", "failed"}],
         arrived' \in Seq(DOMAIN tests), searched' \in BOOLEAN, flushed' \in BOOLEAN
  PROVE  SearchTypes'
<1>1. DOMAIN tests' = DOMAIN entries /\ DOMAIN tests = DOMAIN entries
  BY DEF SearchTypes, SearchTypeOK
<1>2. Range(arrived') \subseteq DOMAIN tests'
  BY <1>1 DEF Range
<1>3. SearchTypeOK'
  BY <1>1, <1>2 DEF SearchTypes, SearchTypeOK
<1>4. Staged' /\ Listed(entries') /\ ConfigListed(config')
  BY DEF SearchTypes, Staged, Listed, ConfigListed
<1> QED
  BY <1>1, <1>3, <1>4 DEF SearchTypes

\* What the types say of the race.
LEMMA RaceFacts ==
  ASSUME SearchTypes
  PROVE  /\ Len(entries) \in Nat /\ DOMAIN entries = 1 .. Len(entries) /\ next \in 0 .. Len(entries)
         /\ DOMAIN tests = DOMAIN entries
         /\ tests \in [DOMAIN entries -> {"waiting", "running", "asking", "passed", "failed"}]
         /\ arrived \in Seq(DOMAIN tests) /\ calls \in 0 .. MaxCalls /\ calls \in Nat
         /\ cancelled \in BOOLEAN /\ ready \in BOOLEAN /\ searched \in BOOLEAN
         /\ flushed \in BOOLEAN
         /\ \A i \in DOMAIN entries : entries[i] \in Range(entries) /\ entries[i] # Nothing
  BY SearchAssumption DEF SearchTypes, SearchTypeOK, Listed, Range

\* A lost race is followed by one that the config has, or ends the call.
LEMMA LostTypes ==
  ASSUME SearchTypes, Lost, UNCHANGED <<base, config, calls, cancelled>>
  PROVE  SearchTypes'
<1>1. /\ calls' \in 0 .. MaxCalls /\ cancelled' \in BOOLEAN /\ searched \in BOOLEAN
      /\ ConfigListed(config')
      /\ Listed(config.dns) /\ Listed(config.fallback) /\ Listed(config.tls)
      /\ UNCHANGED base
  BY DEF SearchTypes, SearchTypeOK, ConfigListed
<1>2. CASE \E result : EndsWith(result)
  BY <1>2, EndTypes
<1>3. CASE Race("dns", config.dns) /\ Rest
  BY <1>1, <1>3, RaceTypes DEF Races, Rest
<1>4. CASE Race("fallback", config.fallback) /\ Rest
  BY <1>1, <1>4, RaceTypes DEF Races, Rest
<1> QED
  BY <1>2, <1>3, <1>4, LostLeads

\* So does a race that is won.
LEMMA WonTypes ==
  ASSUME SearchTypes, NEW e, e # Nothing, Won(e), UNCHANGED <<base, config, calls, cancelled>>
  PROVE  SearchTypes'
<1>1. /\ calls' \in 0 .. MaxCalls /\ cancelled' \in BOOLEAN /\ searched \in BOOLEAN
      /\ ConfigListed(config')
      /\ Listed(config.dns) /\ Listed(config.fallback) /\ Listed(config.tls)
      /\ UNCHANGED base
  BY DEF SearchTypes, SearchTypeOK, ConfigListed
<1>2. CASE \E result : EndsWith(result)
  BY <1>2, EndTypes
<1>3. CASE config.tls # <<>> /\ Race("tls", config.tls) /\ Rest
  BY <1>1, <1>3, RaceTypes DEF Races, Rest
<1>4. CASE Race("fallback", config.fallback) /\ Rest
  BY <1>1, <1>4, RaceTypes DEF Races, Rest
<1> QED
  BY <1>2, <1>3, <1>4, WonLeads

\* The types hold in the beginning and are preserved.
LEMMA SearchTypesInit == SearchInit => SearchTypes
<1> SUFFICES ASSUME SearchInit PROVE SearchTypes
  OBVIOUS
<1>1. ConfigListed(config)
  BY RankedListed DEF SearchInit
<1>2. calls \in 0 .. MaxCalls
      /\ tests \in [DOMAIN entries -> {"waiting", "running", "asking", "passed", "failed"}]
        /\ next \in 0 .. Len(entries)
  BY SearchAssumption DEF SearchInit
<1>3. Range(arrived) \subseteq DOMAIN tests /\ arrived \in Seq(DOMAIN tests) /\ Listed(entries)
  BY DEF SearchInit, Range, Listed
<1>4. SearchTypeOK
  BY <1>2, <1>3 DEF SearchInit, Finder, SearchTypeOK
<1> QED
  BY <1>1, <1>3, <1>4 DEF SearchInit, SearchTypes, Staged

\* Every step keeps the types.
LEMMA SearchTypesNext == SearchTypes /\ [SearchNext]_searchVars => SearchTypes'
<1> SUFFICES ASSUME SearchTypes, [SearchNext]_searchVars PROVE SearchTypes'
  OBVIOUS
<1> USE DEF storeVars
<1>0. /\ Len(entries) \in Nat /\ DOMAIN entries = 1 .. Len(entries) /\ next \in 0 .. Len(entries)
      /\ DOMAIN tests = DOMAIN entries
      /\ tests \in [DOMAIN entries -> {"waiting", "running", "asking", "passed", "failed"}]
      /\ arrived \in Seq(DOMAIN tests) /\ calls \in 0 .. MaxCalls /\ calls \in Nat
      /\ cancelled \in BOOLEAN /\ ready \in BOOLEAN /\ searched \in BOOLEAN /\ flushed \in BOOLEAN
      /\ \A i \in DOMAIN entries : entries[i] \in Range(entries) /\ entries[i] # Nothing
  BY RaceFacts
<1>1. CASE ParseFails
  <2>1. calls' \in 0 .. MaxCalls
    BY <1>0, <1>1, SearchAssumption DEF ParseFails
  <2> QED
    BY <1>0, <1>1, <2>1, SameRaceTypes DEF ParseFails, raceVars
<1>2. CASE NewDialer
  <2>1. calls' \in 0 .. MaxCalls
    BY <1>0, <1>2, SearchAssumption DEF NewDialer
  <2>2. PICK c \in Configs : /\ config' = Ranked(c)
                             /\ IF Exclusive(c) THEN Race("cached", <<cache.fallback>>)
                                ELSE Race("dns", Ranked(c).dns)
    BY <1>2 DEF NewDialer, FindFallback, FindDNS
  <2>3. ConfigListed(config') /\ Listed(Ranked(c).dns)
    BY <2>2, RankedListed DEF ConfigListed
  <2>4. UNCHANGED <<base, storeVars>> /\ cancelled' \in BOOLEAN /\ searched' \in BOOLEAN
    BY <1>2 DEF NewDialer
  <2>5. CASE Exclusive(c)
    <3>1. cache.fallback # Nothing
      BY <2>5, SearchAssumption DEF Exclusive
    <3>2. Listed(<<cache.fallback>>) /\ <<cache.fallback>> # <<>>
      BY <3>1 DEF Listed, Range
    <3> QED
      BY <2>1, <2>2, <2>3, <2>4, <2>5, <3>2, RaceTypes DEF Races
  <2>6. CASE ~Exclusive(c)
    BY <2>1, <2>2, <2>3, <2>4, <2>6, RaceTypes DEF Races
  <2> QED
    BY <2>5, <2>6
<1>3. CASE FlushNoLock
  <2>1. /\ stage = "putting" /\ stage' = "idle" /\ searched' = TRUE /\ flushed' \in BOOLEAN
        /\ UNCHANGED <<base, config, calls, cancelled, entries, next, ready, tests, arrived, store>>
    BY <1>0, <1>3 DEF FlushNoLock, raceVars
  <2>2. SearchTypeOK'
    BY <2>1 DEF SearchTypes, SearchTypeOK
  <2>3. Staged'
    BY <2>1 DEF Staged
  <2> QED
    BY <2>1, <2>2, <2>3 DEF SearchTypes
<1>4. CASE Restart
  <2>1. /\ stage' = "idle" /\ entries' = <<>> /\ next' = 0 /\ ready' = FALSE /\ tests' = <<>>
        /\ arrived' = <<>>
        /\ UNCHANGED <<base, config, calls>> /\ cancelled' = FALSE /\ searched' = FALSE
        /\ flushed' = TRUE
        /\ store' \in BOOLEAN
    BY <1>4 DEF Restart, NewJSONFileCache
  <2> QED
    BY <1>0, <2>1, EmptyRace DEF SearchTypes
<1>5. CASE CallerGivesUp
  BY <1>0, <1>5, SameRaceTypes DEF CallerGivesUp, raceVars
<1>6. CASE StartTest
  <2>1. next' \in 0 .. Len(entries)
    BY <1>0, <1>6 DEF StartTest
  <2>2. tests' \in [DOMAIN entries -> {"waiting", "running", "asking", "passed", "failed"}]
    BY <1>0, <1>6 DEF StartTest
  <2> QED
    BY <1>0, <1>6, <2>1, <2>2, SameRaceTypes DEF StartTest
<1>7. CASE MaxWaitPasses
  BY <1>0, <1>7, SameRaceTypes DEF MaxWaitPasses
<1>8. CASE TakeResult
  <2>1. Head(arrived) \in DOMAIN tests /\ Tail(arrived) \in Seq(DOMAIN tests)
    BY <1>0, <1>8 DEF TakeResult
  <2>2. /\ UNCHANGED <<base, config, calls, cancelled>>
        /\ \/ Won(entries[Head(arrived)])
           \/ Lost
           \/ /\ arrived' = Tail(arrived)
              /\ UNCHANGED <<stage, entries, next, ready, tests, winner, found, searched, storeVars>>
    BY <1>8 DEF TakeResult
  <2>3. entries[Head(arrived)] # Nothing
    BY <1>0, <2>1
  <2> QED
    BY <1>0, <2>1, <2>2, <2>3, WonTypes, LostTypes, SameRaceTypes
<1>9. CASE NoEntries \/ SeeGivenUp
  BY <1>9, LostTypes DEF NoEntries, SeeGivenUp
<1>10. ASSUME NEW i \in DOMAIN tests, TestGoes(i) \/ Answered(i) PROVE SearchTypes'
  <2>0. /\ \E to \in {"asking", "passed", "failed"} : tests' = [tests EXCEPT ![i] = to]
        /\ arrived' = arrived \/ arrived' = Append(arrived, i)
        /\ ready' = ready \/ ready' = (ready \/ i = next)
        /\ UNCHANGED <<base, config, stage, calls, cancelled, entries, next, found, searched,
                       store, flushed>>
    BY <1>10, TestMoves
  <2>1. tests' \in [DOMAIN entries -> {"waiting", "running", "asking", "passed", "failed"}]
    BY <1>0, <2>0
  <2>2. arrived' \in Seq(DOMAIN tests)
    <3>1. arrived \in Seq(DOMAIN tests) /\ i \in DOMAIN tests
      BY <1>0, <1>10
    <3>2. Append(arrived, i) \in Seq(DOMAIN tests)
      BY <3>1
    <3> QED
      BY <2>0, <3>1, <3>2
  <2>3. ready' \in BOOLEAN
    BY <1>0, <2>0
  <2> QED
    BY <1>0, <2>0, <2>1, <2>2, <2>3, SameRaceTypes
<1>11. CASE UNCHANGED searchVars
  BY <1>0, <1>11, SameRaceTypes DEF searchVars, raceVars
<1> QED
  BY <1>1, <1>2, <1>3, <1>4, <1>5, <1>6, <1>7, <1>8, <1>9, <1>10, <1>11 DEF SearchNext

\* The system's resolver is in one entry of the DNS, and no fallback.
OneSystem(c) ==
  /\ System \notin Range(c.fallback)
  /\ \A i, j \in DOMAIN c.dns : c.dns[i] = System /\ c.dns[j] = System => i = j

\* Why no strategy without a proxy was found.
DnsLost ==
  \/ Range(config.dns) \subseteq refused
  \/ Range(config.dns) \cap Malformed # {}
  \/ config.tls # <<>> /\ Range(config.tls) \subseteq refused
  \/ ~base /\ System \in Range(config.dns) \ refused

\* A test that has ended is waited for, or has failed and is counted; those
\* that were not started wait.
Reported ==
  \A i \in DOMAIN tests :
    /\ tests[i] \in {"passed", "failed"} =>
         i \in Range(arrived) \/ (tests[i] = "failed" /\ entries[i] \in refused)
    /\ i > next => tests[i] = "waiting"

\* What each stage of the search has behind it.
Why ==
  /\ OneSystem(config) /\ Reported
  /\ stage = "cached" => System \notin refused /\ System \notin Range(entries)
  /\ stage = "dns" /\ System \in refused =>
       \E j \in DOMAIN entries : entries[j] = System /\ tests[j] = "failed"
  /\ stage = "fallback" /\ ~cancelled => DnsLost
  /\ (stage = "putting" \/ (stage = "idle" /\ searched)) /\ found = NoWinner /\ ~cancelled
       => NothingLeft

WhyInv == SearchTypes /\ Why

\* A race that begins has reported nothing yet.
LEMMA NewRaceReports ==
  ASSUME NEW what, NEW list, Race(what, list)
  PROVE  Reported' /\ stage' = what /\ entries' = list
  BY DEF Race, Reported

\* Nor has a search that ended anything left to report.
LEMMA EndReports ==
  ASSUME NEW result, EndsWith(result)
  PROVE  Reported' /\ found' = result /\ stage' \in {"idle", "putting"}
  BY DEF EndsWith, Finish, Reported

\* What has been refused grows by entries of the race that is lost.
LEMMA LostWhy ==
  ASSUME WhyInv, Lost, UNCHANGED <<base, config, calls, cancelled>>,
         refused \subseteq refused', refused' \subseteq refused \cup Range(entries),
         \/ cancelled
         \/ Range(entries) \subseteq refused'
         \/ stage = "dns" /\ Range(entries) \cap Malformed # {}
  PROVE  Why'
<1>1. /\ OneSystem(config') /\ config' = config /\ base' = base /\ cancelled' = cancelled
      /\ System \notin Range(config.fallback)
  BY DEF WhyInv, Why, OneSystem
<1>2. SearchTypes /\ Why /\ Staged
  BY DEF WhyInv, SearchTypes
<1>3. stage \in {"dns", "tls"} /\ ~cancelled => DnsLost'
  BY <1>1, <1>2 DEF Staged, DnsLost
<1>4. stage = "fallback" /\ ~cancelled => NothingLeft'
  <2> SUFFICES ASSUME stage = "fallback", ~cancelled PROVE NothingLeft'
    OBVIOUS
  <2>1. entries = config.fallback /\ DnsLost
    BY <1>2 DEF Staged, Why
  <2>2. System \notin refused => System \notin refused'
    BY <1>1, <2>1
  <2>3. DnsLost'
    BY <1>1, <2>1, <2>2 DEF DnsLost
  <2> QED
    BY <1>1, <2>1, <2>3 DEF NothingLeft, DnsLost
<1>5. CASE stage = "cached" /\ Race("dns", config.dns) /\ Rest
  <2>1. Reported' /\ stage' = "dns"
    BY <1>5, NewRaceReports
  <2>2. System \notin refused'
    BY <1>2, <1>5 DEF Why
  <2> QED
    BY <1>1, <2>1, <2>2 DEF Why
<1>6. CASE stage \in {"dns", "tls"} /\ config.fallback = <<>> /\ EndsWith(NoWinner)
  <2>1. Reported' /\ found' = NoWinner /\ stage' \in {"idle", "putting"}
    BY <1>6, EndReports
  <2>2. Range(config.fallback) = {}
    BY <1>6 DEF Range
  <2>3. ~cancelled => NothingLeft'
    BY <1>1, <1>3, <1>6, <2>2 DEF NothingLeft, DnsLost
  <2> QED
    BY <1>1, <2>1, <2>3 DEF Why
<1>7. CASE stage \in {"dns", "tls"} /\ Race("fallback", config.fallback) /\ Rest
  <2>1. Reported' /\ stage' = "fallback"
    BY <1>7, NewRaceReports
  <2> QED
    BY <1>1, <1>3, <1>7, <2>1 DEF Why
<1>8. CASE stage = "fallback" /\ EndsWith(NoWinner)
  <2>1. Reported' /\ found' = NoWinner /\ stage' \in {"idle", "putting"}
    BY <1>8, EndReports
  <2> QED
    BY <1>1, <1>4, <1>8, <2>1 DEF Why
<1> QED
  BY <1>5, <1>6, <1>7, <1>8, LostLeads

\* A race that is won, by an entry whose test has passed.
LEMMA WonWhy ==
  ASSUME WhyInv, NEW i \in DOMAIN entries, tests[i] = "passed", Won(entries[i]),
         UNCHANGED <<base, config, calls, cancelled, refused>>
  PROVE  Why'
<1>1. /\ OneSystem(config') /\ config' = config /\ base' = base /\ cancelled' = cancelled
      /\ refused' = refused
      /\ SearchTypes /\ Why /\ Staged /\ OneSystem(config)
  BY DEF WhyInv, Why, SearchTypes
<1>2. entries[i] # Nothing /\ entries[i] \in Range(entries)
  BY <1>1, RaceFacts
<1>3. stage = "dns" /\ entries[i] = System /\ ~base => DnsLost'
  <2> SUFFICES ASSUME stage = "dns", entries[i] = System, ~base PROVE DnsLost'
    OBVIOUS
  <2>1. entries = config.dns
    BY <1>1 DEF Staged
  <2>2. System \notin refused
    BY <1>1, <2>1 DEF Why, OneSystem
  <2>3. System \in Range(config.dns)
    BY <1>2, <2>1
  <2> QED
    BY <1>1, <2>2, <2>3 DEF DnsLost
<1>4. CASE stage = "dns" /\ entries[i] = System /\ ~base /\ config.fallback = <<>>
      /\ EndsWith(NoWinner)
  <2>1. Reported' /\ found' = NoWinner /\ stage' \in {"idle", "putting"}
    BY <1>4, EndReports
  <2>2. Range(config.fallback) = {}
    BY <1>4 DEF Range
  <2>3. NothingLeft'
    BY <1>1, <1>3, <1>4, <2>2 DEF NothingLeft, DnsLost
  <2> QED
    BY <1>1, <2>1, <2>3 DEF Why
<1>5. CASE stage = "dns" /\ entries[i] = System /\ ~base /\ Race("fallback", config.fallback)
      /\ Rest
  <2>1. Reported' /\ stage' = "fallback"
    BY <1>5, NewRaceReports
  <2> QED
    BY <1>1, <1>3, <1>5, <2>1 DEF Why
<1>6. CASE stage = "dns" /\ config.tls # <<>> /\ Race("tls", config.tls) /\ Rest
  <2>1. Reported' /\ stage' = "tls"
    BY <1>6, NewRaceReports
  <2> QED
    BY <1>1, <2>1 DEF Why
<1>7. ASSUME NEW result, result # NoWinner, EndsWith(result) PROVE Why'
  <2>1. Reported' /\ found' = result /\ stage' \in {"idle", "putting"}
    BY <1>7, EndReports
  <2> QED
    BY <1>1, <1>7, <2>1 DEF Why
<1> QED
  BY <1>2, <1>4, <1>5, <1>6, <1>7, WonLeads

\* Steps of a race that goes on.
LEMMA OnWhy ==
  ASSUME WhyInv, UNCHANGED <<base, config, stage, entries, found, searched>>, Reported',
         cancelled' \in {cancelled, TRUE}, cancelled \in BOOLEAN,
         DOMAIN tests' = DOMAIN tests, \A j \in DOMAIN tests : tests[j] = "failed" => tests'[j] = "failed",
         \/ UNCHANGED refused
         \/ /\ stage \in Races
            /\ \E i \in DOMAIN entries : tests'[i] = "failed" /\ refused' = refused \cup {entries[i]}
  PROVE  Why'
<1>1. SearchTypes /\ Why /\ Staged /\ OneSystem(config) /\ DOMAIN tests = DOMAIN entries
      /\ OneSystem(config)'
  BY RaceFacts DEF WhyInv, Why, SearchTypes, OneSystem
<1>2. CASE UNCHANGED refused
  <2>1. DnsLost' = DnsLost /\ NothingLeft' = NothingLeft
    BY <1>2 DEF DnsLost, NothingLeft
  <2> QED
    BY <1>1, <1>2, <2>1 DEF Why
<1>3. ASSUME NEW i \in DOMAIN entries, tests'[i] = "failed", refused' = refused \cup {entries[i]},
             stage \in Races
      PROVE  Why'
  <2>1. entries[i] \in Range(entries)
    BY <1>1, RaceFacts
  <2>2. stage = "fallback" /\ ~cancelled' => DnsLost'
    <3> SUFFICES ASSUME stage = "fallback", ~cancelled' PROVE DnsLost'
      OBVIOUS
    <3>1. DnsLost /\ entries[i] # System
      BY <1>1, <2>1 DEF Why, Staged, OneSystem
    <3> QED
      BY <1>3, <3>1 DEF DnsLost
  <2>3. stage = "cached" => System \notin refused' /\ System \notin Range(entries')
    BY <1>1, <1>3, <2>1 DEF Why
  <2>4. stage = "dns" /\ System \in refused' => \E j \in DOMAIN entries' : entries'[j] = System /\ tests'[j] = "failed"
    BY <1>1, <1>3 DEF Why
  <2> QED
    BY <1>1, <1>3, <2>2, <2>3, <2>4 DEF Why, Races
<1> QED
  BY <1>2, <1>3

\* The invariant holds in the beginning and is preserved.
LEMMA WhyInit == SearchInit /\ (\A c \in Configs : OneSystem(c)) => WhyInv
<1> SUFFICES ASSUME SearchInit, \A c \in Configs : OneSystem(c) PROVE WhyInv
  OBVIOUS
<1>1. OneSystem(config) /\ tests = <<>> /\ stage = "idle" /\ ~searched
  BY DEF SearchInit
<1> QED
  BY <1>1, SearchTypesInit DEF WhyInv, Why, Reported

\* Ranking does not double the system's resolver.
LEMMA RankedOneSystem == ASSUME NEW c \in Configs, OneSystem(c) PROVE OneSystem(Ranked(c))
  BY RankedListed DEF OneSystem, Taken

\* Every step keeps the reasons.
LEMMA WhyNext ==
  ASSUME \A c \in Configs : OneSystem(c)
  PROVE  WhyInv /\ [SearchNext]_searchVars => WhyInv'
<1> SUFFICES ASSUME WhyInv, [SearchNext]_searchVars PROVE WhyInv'
  OBVIOUS
<1> USE DEF storeVars
<1>0. /\ Len(entries) \in Nat /\ DOMAIN entries = 1 .. Len(entries) /\ next \in 0 .. Len(entries)
      /\ DOMAIN tests = DOMAIN entries
      /\ tests \in [DOMAIN entries -> {"waiting", "running", "asking", "passed", "failed"}]
      /\ arrived \in Seq(DOMAIN tests) /\ cancelled \in BOOLEAN
      /\ \A i \in DOMAIN entries : entries[i] \in Range(entries) /\ entries[i] # Nothing
  BY RaceFacts DEF WhyInv
<1>a. SearchTypes /\ SearchTypes' /\ Why /\ Reported /\ Staged /\ OneSystem(config)
  BY SearchTypesNext DEF WhyInv, Why, SearchTypes
<1> SUFFICES Why'
  BY <1>a DEF WhyInv
<1>1. CASE ParseFails
  <2>1. /\ stage = "idle" /\ searched' = FALSE
        /\ UNCHANGED <<base, config, stage, cancelled, entries, next, tests, arrived, refused>>
    BY <1>1 DEF ParseFails, raceVars
  <2>2. Reported' /\ OneSystem(config')
    BY <1>a, <2>1 DEF Reported
  <2> QED
    BY <2>1, <2>2 DEF Why
<1>2. CASE NewDialer
  <2>1. PICK c \in Configs : /\ config' = Ranked(c)
                             /\ IF Exclusive(c) THEN Race("cached", <<cache.fallback>>)
                                ELSE Race("dns", Ranked(c).dns)
    BY <1>2 DEF NewDialer, FindFallback, FindDNS
  <2>2. refused' = {} /\ OneSystem(config') /\ OneSystem(c)
    BY <1>2, <2>1, RankedOneSystem DEF NewDialer
  <2>3. CASE Exclusive(c)
    <3>1. Reported' /\ stage' = "cached" /\ entries' = <<cache.fallback>>
      BY <2>1, <2>3, NewRaceReports
    <3>2. cache.fallback # System
      BY <2>2, <2>3 DEF Exclusive, OneSystem
    <3>3. System \notin Range(entries')
      BY <3>1, <3>2 DEF Range
    <3> QED
      BY <2>2, <3>1, <3>3 DEF Why
  <2>4. CASE ~Exclusive(c)
    <3>1. Reported' /\ stage' = "dns"
      BY <2>1, <2>4, NewRaceReports
    <3> QED
      BY <2>2, <3>1 DEF Why
  <2> QED
    BY <2>3, <2>4
<1>3. CASE FlushNoLock
  <2>1. /\ stage = "putting" /\ stage' = "idle"
        /\ UNCHANGED <<base, config, cancelled, entries, next, tests, arrived, refused, found>>
    BY <1>3 DEF FlushNoLock, raceVars
  <2>2. Reported' /\ OneSystem(config') /\ NothingLeft' = NothingLeft
    BY <1>a, <2>1 DEF Reported, NothingLeft
  <2> QED
    BY <1>a, <2>1, <2>2 DEF Why
<1>4. CASE Restart
  <2>1. /\ stage' = "idle" /\ tests' = <<>> /\ config' = config /\ searched' = FALSE
    BY <1>4 DEF Restart
  <2> QED
    BY <1>a, <2>1 DEF Why, Reported
<1>5. CASE CallerGivesUp
  <2>1. Reported'
    BY <1>5, <1>a DEF CallerGivesUp, raceVars, Reported
  <2> QED
    BY <1>0, <1>5, <2>1, OnWhy DEF CallerGivesUp, raceVars
<1>6. CASE StartTest
  <2>1. /\ next + 1 \in DOMAIN tests /\ tests' = [tests EXCEPT ![next + 1] = "running"]
        /\ next' = next + 1
        /\ UNCHANGED <<base, config, stage, cancelled, entries, arrived, refused, found, searched>>
    BY <1>0, <1>6 DEF StartTest
  <2>2. tests[next + 1] = "waiting"
    BY <1>0, <1>a, <2>1 DEF Reported
  <2>3. \A i \in DOMAIN tests : i > next + 1 => i > next
    BY <1>0
  <2>4. Reported'
    BY <1>0, <1>a, <2>1, <2>3 DEF Reported
  <2>5. DOMAIN tests' = DOMAIN tests /\ \A j \in DOMAIN tests : tests[j] = "failed" => tests'[j] = "failed"
    BY <2>1, <2>2
  <2> QED
    BY <1>0, <2>1, <2>4, <2>5, OnWhy
<1>7. CASE MaxWaitPasses
  <2>1. Reported'
    BY <1>7, <1>a DEF MaxWaitPasses, Reported
  <2> QED
    BY <1>0, <1>7, <2>1, OnWhy DEF MaxWaitPasses
<1>8. CASE TakeResult
  <2> DEFINE i == Head(arrived)
             lost == {j \in DOMAIN tests : tests[j] = "failed"} \ Range(Tail(arrived))
  <2>1. /\ arrived # <<>> /\ stage \in Races /\ UNCHANGED <<base, config, calls, cancelled>>
        /\ refused' = IF tests[i] = "failed" THEN refused \cup {entries[i]} ELSE refused
        /\ IF tests[i] = "passed" THEN Won(entries[i])
           ELSE IF lost = DOMAIN tests THEN Lost
           ELSE /\ arrived' = Tail(arrived)
                /\ UNCHANGED <<stage, entries, next, ready, tests, winner, found, searched, storeVars>>
    BY <1>8 DEF TakeResult, Racing
  <2>2. i \in DOMAIN tests /\ Tail(arrived) \in Seq(DOMAIN tests)
        /\ Range(arrived) = {i} \cup Range(Tail(arrived))
    <3>1. i \in DOMAIN tests /\ Tail(arrived) \in Seq(DOMAIN tests) /\ i = arrived[1]
          /\ 1 \in DOMAIN arrived
          /\ Len(arrived) \in Nat /\ DOMAIN arrived = 1 .. Len(arrived)
          /\ Len(Tail(arrived)) = Len(arrived) - 1 /\ DOMAIN Tail(arrived) = 1 .. Len(Tail(arrived))
          /\ \A j \in 1 .. Len(Tail(arrived)) : Tail(arrived)[j] = arrived[j + 1]
      BY <1>0, <2>1, HeadTailProperties
    <3>2. \A j \in DOMAIN arrived : j = 1 \/ (j - 1 \in DOMAIN Tail(arrived) /\ Tail(arrived)[j - 1] = arrived[j])
      BY <3>1
    <3>3. \A j \in DOMAIN Tail(arrived) : j + 1 \in DOMAIN arrived
      BY <3>1
    <3> HIDE DEF i
    <3>4. \A x : x \in Range(arrived) => x = i \/ x \in Range(Tail(arrived))
      BY <3>1, <3>2 DEF Range
    <3>5. \A x : x \in Range(Tail(arrived)) \/ x = i => x \in Range(arrived)
      BY <3>1, <3>3 DEF Range
    <3>6. Range(arrived) = {i} \cup Range(Tail(arrived))
      BY <3>4, <3>5
    <3> QED
      BY <3>1, <3>6
  <2> HIDE DEF i
  <2>3. CASE tests[i] = "passed"
    <3>1. UNCHANGED refused /\ Won(entries[i]) /\ i \in DOMAIN entries
      BY <1>0, <2>1, <2>2, <2>3
    <3>2. PICK k \in DOMAIN entries : k = i
      BY <3>1
    <3> QED
      BY <2>1, <2>3, <3>1, <3>2, WonWhy
  <2>4. CASE tests[i] # "passed" /\ lost = DOMAIN tests
    <3>1. \A j \in DOMAIN tests : tests[j] = "failed" /\ j \notin Range(Tail(arrived))
      BY <2>4
    <3>2. refused' = refused \cup {entries[i]} /\ entries[i] \in Range(entries)
      BY <1>0, <2>1, <2>2, <3>1
    <3>3. \A j \in DOMAIN entries : entries[j] \in refused'
      BY <1>0, <1>a, <2>2, <3>1, <3>2 DEF Reported
    <3>4. Range(entries) \subseteq refused'
      BY <3>3 DEF Range
    <3> QED
      BY <2>1, <2>4, <3>2, <3>4, LostWhy
  <2>5. CASE tests[i] # "passed" /\ lost # DOMAIN tests
    <3>1. arrived' = Tail(arrived) /\ UNCHANGED <<stage, entries, next, tests, found, searched>>
      BY <2>1, <2>5
    <3>2. refused \subseteq refused' /\ (tests[i] = "failed" => entries[i] \in refused')
      BY <2>1
    <3>3. Reported'
      BY <1>0, <1>a, <2>2, <2>5, <3>1, <3>2 DEF Reported
    <3>4. \/ UNCHANGED refused
          \/ /\ stage \in Races
             /\ \E j \in DOMAIN entries : tests'[j] = "failed" /\ refused' = refused \cup {entries[j]}
      BY <1>0, <2>1, <2>2, <3>1
    <3> QED
      BY <1>0, <2>1, <3>1, <3>3, <3>4, OnWhy
  <2> QED
    BY <2>3, <2>4, <2>5
<1>9. CASE NoEntries
  <2>1. \/ Range(entries) \subseteq refused
        \/ stage = "dns" /\ Range(entries) \cap Malformed # {}
    BY <1>9 DEF NoEntries, DnsConfigFails, Range
  <2> QED
    BY <1>9, <2>1, LostWhy DEF NoEntries
<1>10. CASE SeeGivenUp
  BY <1>10, LostWhy DEF SeeGivenUp
<1>11. ASSUME NEW i \in DOMAIN tests, TestGoes(i) \/ Answered(i) PROVE Why'
  <2>1. /\ tests[i] \in {"running", "asking"} /\ DOMAIN tests' = DOMAIN tests
        /\ \A j \in DOMAIN tests : j # i => tests'[j] = tests[j]
        /\ \/ tests'[i] = "asking" /\ arrived' = arrived
           \/ arrived' = Append(arrived, i)
        /\ UNCHANGED <<base, config, stage, cancelled, entries, next, refused, found, searched>>
    BY <1>11, TestMoves
  <2>2. arrived' = Append(arrived, i) =>
          i \in Range(arrived') /\ \A j \in Range(arrived) : j \in Range(arrived')
    <3> SUFFICES ASSUME arrived' = Append(arrived, i)
                 PROVE  i \in Range(arrived') /\ \A j \in Range(arrived) : j \in Range(arrived')
      OBVIOUS
    <3>1. /\ Len(arrived) + 1 \in DOMAIN arrived' /\ arrived'[Len(arrived) + 1] = i
          /\ \A j \in DOMAIN arrived : j \in DOMAIN arrived' /\ arrived'[j] = arrived[j]
      BY <1>0, <2>1
    <3> QED
      BY <3>1 DEF Range
  <2>3. ~(i > next)
    BY <1>a, <2>1 DEF Reported
  <2>4. Reported'
    BY <1>0, <1>a, <2>1, <2>2, <2>3 DEF Reported
  <2> QED
    BY <1>0, <2>1, <2>4, OnWhy
<1>12. CASE UNCHANGED searchVars
  <2>1. Reported'
    BY <1>12, <1>a DEF searchVars, raceVars, Reported
  <2> QED
    BY <1>0, <1>12, <2>1, OnWhy DEF searchVars, raceVars
<1> QED
  BY <1>1, <1>2, <1>3, <1>4, <1>5, <1>6, <1>7, <1>8, <1>9, <1>10, <1>11, <1>12 DEF SearchNext

\* The search's state is of its types, whatever the configs.
THEOREM SearchTypesHold == SearchSpec => []SearchTypeOK
<1>1. SearchTypes => SearchTypeOK
  BY DEF SearchTypes
<1> QED
  BY <1>1, SearchTypesInit, SearchTypesNext, PTL DEF SearchSpec

\* A search that returns an error to a caller who waits for it has nothing left
\* to try, in configs that name the system's resolver once.
THEOREM NothingIsLeft ==
  ASSUME \A c \in Configs : OneSystem(c)
  PROVE  SearchSpec => [](stage = "idle" /\ searched /\ found = NoWinner /\ ~cancelled => NothingLeft)
<1>1. WhyInv => (stage = "idle" /\ searched /\ found = NoWinner /\ ~cancelled => NothingLeft)
  BY DEF WhyInv, Why
<1> QED
  BY <1>1, WhyInit, WhyNext, PTL DEF SearchSpec

(* ------------------------- what the next call does ----------------------- *)
\* What is found is in the lists of the call's config: the next call with it
\* can start there.
Chose(s) ==
  \/ s = NoWinner
  \/ \E f \in Range(config.fallback) : s = Fallback(f)
  \/ \E d \in Range(config.dns), t \in Range(config.tls) \cup {Direct} : s = Proxyless(d, t)
Chosen ==
  /\ stage = "tls" => winner \in Range(config.dns)
  /\ stage = "cached" => Range(entries) \subseteq Range(config.fallback)
  /\ stage = "putting" \/ (stage = "idle" /\ searched) => Chose(found)

\* A call ends with such a strategy.
LEMMA EndChosen ==
  ASSUME NEW s, Chose(s), EndsWith(s), UNCHANGED config
  PROVE  Chosen'
<1>1. found' = s /\ stage' \in {"idle", "putting"} /\ Chose(s)'
  BY DEF EndsWith, Finish, Chose
<1> QED
  BY <1>1 DEF Chosen, Chose

\* A race that is lost, or won by one of its entries.
LEMMA LostChosen ==
  ASSUME Lost, UNCHANGED config
  PROVE  Chosen'
<1>1. CASE EndsWith(NoWinner)
  BY <1>1, EndChosen DEF Chose
<1>2. ASSUME NEW what \in {"dns", "fallback"}, NEW list, Race(what, list) PROVE Chosen'
  BY <1>2 DEF Race, Chosen
<1> QED
  BY <1>1, <1>2, LostLeads
LEMMA WonChosen ==
  ASSUME SearchTypes, Chosen, NEW e \in Range(entries), Won(e), UNCHANGED config
  PROVE  Chosen'
<1>1. /\ stage = "dns" => e \in Range(config.dns)
      /\ stage = "tls" => e \in Range(config.tls) /\ winner \in Range(config.dns)
      /\ stage \in {"cached", "fallback"} => e \in Range(config.fallback)
  BY DEF SearchTypes, Staged, Chosen
<1>2. CASE stage \in {"cached", "fallback"} /\ EndsWith(Fallback(e))
  BY <1>1, <1>2, EndChosen DEF Chose
<1>3. CASE stage = "tls" /\ EndsWith(Proxyless(winner, e))
  BY <1>1, <1>3, EndChosen DEF Chose
<1>4. CASE stage = "dns" /\ EndsWith(Proxyless(e, Direct))
  BY <1>1, <1>4, EndChosen DEF Chose
<1>5. CASE stage = "dns" /\ Race("tls", config.tls) /\ winner' = e
  BY <1>1, <1>5 DEF Race, Chosen
<1>6. CASE TryFallbacks
  <2>1. CASE EndsWith(NoWinner)
    BY <2>1, EndChosen DEF Chose
  <2>2. CASE Race("fallback", config.fallback)
    BY <2>2 DEF Race, Chosen
  <2> QED
    BY <1>6, <2>1, <2>2, TryFallbacksLeads
<1>7. \/ stage \in {"cached", "fallback"} /\ (Return(Fallback(e)) \/ Persist(Fallback(e)))
      \/ stage = "tls" /\ Persist(Proxyless(winner, e))
      \/ stage = "dns" /\ Persist(Proxyless(e, Direct))
      \/ stage = "dns" /\ Race("tls", config.tls) /\ winner' = e
      \/ TryFallbacks
  BY DEF Won, FindTLS
<1> QED
  BY <1>2, <1>3, <1>4, <1>5, <1>6, <1>7, PersistEnds

\* The steps of a search keep to its config.
LEMMA ChosenNext == SearchTypes /\ Chosen /\ [SearchNext]_searchVars => Chosen'
<1> SUFFICES ASSUME SearchTypes, Chosen, [SearchNext]_searchVars PROVE Chosen'
  OBVIOUS
<1>1. CASE UNCHANGED <<config, stage, winner, found, searched, entries>>
  BY <1>1 DEF Chosen, Chose
<1>2. CASE ParseFails \/ Restart
  <2>1. stage' = "idle" /\ searched' = FALSE
    BY <1>2 DEF ParseFails, Restart
  <2> QED
    BY <2>1 DEF Chosen
<1>3. CASE NewDialer
  <2>1. PICK c \in Configs : /\ config' = Ranked(c)
                             /\ IF Exclusive(c) THEN Race("cached", <<cache.fallback>>)
                                ELSE Race("dns", Ranked(c).dns)
    BY <1>3 DEF NewDialer, FindFallback, FindDNS
  <2>2. CASE Exclusive(c)
    <3>1. stage' = "cached" /\ entries' = <<cache.fallback>>
      BY <2>1, <2>2 DEF Race
    <3>2. cache.fallback \in Range(config'.fallback)
      BY <2>1, <2>2, RankedListed DEF Exclusive
    <3>3. Range(entries') = {cache.fallback}
      BY <3>1 DEF Range
    <3> QED
      BY <3>1, <3>2, <3>3 DEF Chosen
  <2>3. CASE ~Exclusive(c)
    BY <2>1, <2>3 DEF Race, Chosen
  <2> QED
    BY <2>2, <2>3
<1>4. CASE FlushNoLock
  <2>1. stage = "putting" /\ stage' = "idle" /\ UNCHANGED <<config, found>>
    BY <1>4 DEF FlushNoLock
  <2> QED
    BY <2>1 DEF Chosen, Chose
<1>5. CASE TakeResult
  <2>1. Head(arrived) \in DOMAIN entries
    BY <1>5, RaceFacts DEF TakeResult
  <2>2. entries[Head(arrived)] \in Range(entries)
    BY <2>1, RaceFacts
  <2>3. /\ UNCHANGED config
        /\ \/ Won(entries[Head(arrived)])
           \/ Lost
           \/ UNCHANGED <<config, stage, winner, found, searched, entries>>
    BY <1>5 DEF TakeResult
  <2> QED
    BY <1>1, <2>2, <2>3, WonChosen, LostChosen
<1>6. CASE NoEntries \/ SeeGivenUp
  BY <1>6, LostChosen DEF NoEntries, SeeGivenUp
<1>7. CASE CallerGivesUp \/ StartTest \/ MaxWaitPasses
  BY <1>1, <1>7 DEF CallerGivesUp, StartTest, MaxWaitPasses, raceVars
<1>8. ASSUME NEW i \in DOMAIN tests, TestGoes(i) \/ Answered(i) PROVE Chosen'
  BY <1>1, <1>8, TestMoves
<1>9. CASE UNCHANGED searchVars
  BY <1>1, <1>9 DEF searchVars, raceVars
<1> QED
  BY <1>2, <1>3, <1>4, <1>5, <1>6, <1>7, <1>8, <1>9 DEF SearchNext

\* From what is kept of a strategy in the lists of a config to where the next
\* call with that config starts.
LEMMA KeptNamesWinner == SearchTypes /\ SearchInv /\ Chosen => CacheNamesWinner
<1> SUFFICES ASSUME SearchTypes, SearchInv, Chosen, store, stage = "idle", searched
             PROVE  /\ cache.dns = found.dns /\ cache.fallback = found.fallback
                    /\ cache.tls = found.tls \/ (cache.tls = Nothing /\ found.tls = Direct)
                    /\ found # NoWinner => NextStartsThere
                    /\ flushed => file = cache
  BY DEF CacheNamesWinner
<1>1. cache = WinningConfig(found) /\ (flushed => file = cache)
  BY DEF SearchInv, Kept
<1>2. ConfigListed(config) /\ Chose(found) /\ Nothing \notin Range(config.fallback)
  BY DEF SearchTypes, Chosen, ConfigListed, Listed
<1>3. CASE found = NoWinner
  BY <1>1, <1>3, Keeps DEF NoWinner
<1>4. ASSUME NEW f \in Range(config.fallback), found = Fallback(f)
      PROVE  cache = found /\ found # NoWinner /\ NextStartsThere
  <2>1. cache = Fallback(f)
    BY <1>1, <1>4, Keeps
  <2>2. cache.fallback = f /\ found.fallback = f /\ f # Nothing
    BY <1>2, <1>4, <2>1 DEF Fallback
  <2> QED
    BY <1>4, <2>1, <2>2 DEF NextStartsThere, Exclusive, NoWinner
<1>5. ASSUME NEW d \in Range(config.dns), NEW t \in Range(config.tls) \cup {Direct},
             found = Proxyless(d, t)
      PROVE  /\ cache.dns = found.dns /\ cache.fallback = found.fallback
             /\ cache.tls = found.tls \/ (cache.tls = Nothing /\ found.tls = Direct)
             /\ NextStartsThere
  <2>1. cache = Proxyless(d, IF t = Direct THEN Nothing ELSE t)
    BY <1>1, <1>5, Keeps
  <2>2. /\ cache.dns = d /\ cache.fallback = Nothing
        /\ cache.tls = (IF t = Direct THEN Nothing ELSE t)
    BY <2>1 DEF Proxyless
  <2>3. found.dns = d /\ found.fallback = Nothing /\ found.tls = t
    BY <1>5 DEF Proxyless
  <2>4. ~Exclusive(config)
    BY <1>2, <2>2 DEF Exclusive
  <2>5. Ranked(config) = [config EXCEPT !.dns = ToFront(@, cache.dns), !.tls = ToFront(@, cache.tls)]
    BY <2>4 DEF Ranked
  <2>6. /\ Ranked(config).dns = ToFront(config.dns, cache.dns)
        /\ Ranked(config).tls = ToFront(config.tls, cache.tls)
    BY <1>2, <2>5 DEF ConfigListed
  <2>7. Ranked(config).dns[1] = d
    BY <1>2, <2>2, <2>6, ToFrontProperties DEF ConfigListed
  <2>8. t # Direct => Ranked(config).tls[1] = t
    BY <1>2, <2>2, <2>6, ToFrontProperties DEF ConfigListed
  <2> QED
    BY <2>2, <2>3, <2>4, <2>7, <2>8 DEF NextStartsThere
<1> QED
  BY <1>1, <1>2, <1>3, <1>4, <1>5 DEF Chose

\* After a search the cache names the strategy that NewDialer returned, but for
\* a TLS entry "", and the file does once it is written; the next call with the
\* same config tests that strategy's entries first, a TLS entry "" excepted.
\* This holds whatever the configs, whoever gives up and wherever the process
\* was killed before.
THEOREM CacheIsTheWinner == SearchSpec => []CacheNamesWinner
<1>1. SearchInit => Chosen
  BY DEF SearchInit, Chosen
<1> QED
  BY <1>1, SearchInitInv, SearchNextInv, SearchTypesInit, SearchTypesNext, ChosenNext,
     KeptNamesWinner, PTL DEF SearchSpec

(* ------------------------- the cache of answers -------------------------- *)
\* Of two answers to one name the one in front is the newer.
NewestFirst ==
  \A i, j \in DOMAIN lru : i < j /\ lru[i].key = lru[j].key => lru[i].added >= lru[j].added

\* While a query is searching nothing in the cache has expired for it.
Fresh == \A q \in Queries : at[q] = "searching" => \A i \in DOMAIN lru : lru[i].expire > began[q]

\* Nothing was added later than now, nor has a query begun later.
Past ==
  /\ clock \in Nat /\ began \in [Queries -> Nat] /\ \A q \in Queries : began[q] <= clock
  /\ \A i \in DOMAIN lru : lru[i].added <= clock
ServedFresh == DOMAIN served = Queries
               /\ \A q \in Queries : \A i \in DOMAIN served[q] : served[q][i].expire > began[q]

CacheInv == DnsCacheTypeOK /\ NewestFirst /\ Fresh /\ Past /\ ServedFresh

\* The cache is empty in the beginning.
LEMMA CacheInitInv == DnsCacheInit => CacheInv
<1> SUFFICES ASSUME DnsCacheInit PROVE CacheInv
  OBVIOUS
<1>1. DnsCacheTypeOK
  BY CacheAssumption DEF DnsCacheInit, DnsCacheTypeOK
<1>2. NewestFirst /\ Fresh /\ Past /\ ServedFresh
  BY DEF DnsCacheInit, NewestFirst, Fresh, Past, ServedFresh
<1> QED
  BY <1>1, <1>2 DEF CacheInv

\* A list whose entries come from the cache, those of one name in their order.
Rearranges(list, from) ==
  /\ list \in Seq(Entry) /\ Len(list) <= Capacity
  /\ from \in [DOMAIN list -> DOMAIN lru] /\ \A i \in DOMAIN list : list[i] = lru[from[i]]
  /\ \A i, j \in DOMAIN list : i < j /\ list[i].key = list[j].key => from[i] < from[j]

\* Such a list keeps what is known of the cache.
LEMMA RearrangedKeeps ==
  ASSUME CacheInv, NEW from, Rearranges(lru', from), UNCHANGED <<clock, began>>
  PROVE  /\ lru' \in Seq(Entry) /\ Len(lru') <= Capacity /\ NewestFirst' /\ Past'
         /\ \A q \in Queries : at[q] = "searching" => \A i \in DOMAIN lru' : lru'[i].expire > began'[q]
<1>1. \A i \in DOMAIN lru' : from[i] \in DOMAIN lru /\ lru'[i] = lru[from[i]] /\ i \in Int /\ from[i] \in Int
  BY DEF Rearranges, CacheInv, DnsCacheTypeOK
<1>2. NewestFirst'
  <2> SUFFICES ASSUME NEW i \in DOMAIN lru', NEW j \in DOMAIN lru', i < j, lru'[i].key = lru'[j].key
               PROVE  lru'[i].added >= lru'[j].added
    BY DEF NewestFirst
  <2>1. from[i] < from[j]
    BY DEF Rearranges
  <2> QED
    BY <1>1, <2>1 DEF CacheInv, NewestFirst
<1>3. Past'
  BY <1>1 DEF CacheInv, Past
<1>4. \A q \in Queries : at[q] = "searching" => \A i \in DOMAIN lru' : lru'[i].expire > began'[q]
  BY <1>1 DEF CacheInv, Fresh
<1> QED
  BY <1>2, <1>3, <1>4 DEF Rearranges

\* The entries that have not expired, each where the order puts it.
LEMMA RemoveExpiredKeeps ==
  ASSUME CacheInv, NEW q \in Queries, RemoveExpired(q)
  PROVE  CacheInv'
<1> DEFINE kept == {i \in DOMAIN lru : lru[i].expire > began[q]}
<1>1. PICK order \in [1 .. Cardinality(kept) -> kept] :
        /\ \A m, n \in DOMAIN order : m < n => order[m] < order[n]
        /\ lru' = [n \in DOMAIN order |-> lru[order[n]]]
  BY DEF RemoveExpired
<1>2. lru \in Seq(Entry) /\ Len(lru) <= Capacity /\ DOMAIN lru = 1 .. Len(lru) /\ Len(lru) \in Nat
  BY DEF CacheInv, DnsCacheTypeOK
<1>3. kept \subseteq 1 .. Len(lru) /\ IsFiniteSet(1 .. Len(lru))
      /\ Cardinality(1 .. Len(lru)) = Len(lru)
  <2>1. IsFiniteSet(1 .. Len(lru)) /\ Cardinality(1 .. Len(lru)) = IF 1 > Len(lru) THEN 0 ELSE Len(lru) - 1 + 1
    BY <1>2, FS_Interval
  <2> QED
    BY <1>2, <2>1
<1> HIDE DEF kept
<1>4. Cardinality(kept) \in Nat /\ Cardinality(kept) <= Len(lru) /\ Cardinality(kept) <= Capacity
  <2>1. IsFiniteSet(kept) /\ Cardinality(kept) <= Cardinality(1 .. Len(lru))
    BY <1>3, FS_Subset
  <2>2. Cardinality(kept) \in Nat
    BY <2>1, FS_CardinalityType
  <2> QED
    BY <1>2, <1>3, <2>1, <2>2, CacheAssumption
<1>5. DOMAIN order = 1 .. Cardinality(kept) /\ \A n \in DOMAIN order : order[n] \in kept /\ lru'[n] = lru[order[n]]
  BY <1>1
<1>6. lru' \in Seq(Entry) /\ Len(lru') = Cardinality(kept) /\ DOMAIN lru' = DOMAIN order
  <2>1. lru' \in [1 .. Cardinality(kept) -> Entry]
    <3>1. \A n \in DOMAIN order : order[n] \in 1 .. Len(lru) /\ lru[order[n]] \in Entry
      <4>1. \A i \in 1 .. Len(lru) : lru[i] \in Entry
        BY <1>2
      <4>2. \A n \in DOMAIN order : order[n] \in 1 .. Len(lru)
        BY <1>3, <1>5
      <4> QED
        BY <4>1, <4>2
    <3>2. lru' = [n \in 1 .. Cardinality(kept) |-> lru[order[n]]]
      BY <1>1, <1>5
    <3> QED
      BY <1>5, <3>1, <3>2
  <2>2. lru' \in Seq(Entry) /\ DOMAIN lru' = 1 .. Cardinality(kept)
    BY <1>4, <2>1
  <2> QED
    BY <1>4, <1>5, <2>2
<1>7. Rearranges(lru', order)
  <2>1. order \in [DOMAIN lru' -> DOMAIN lru]
    BY <1>2, <1>3, <1>5, <1>6
  <2>2. \A i, j \in DOMAIN lru' : i < j => order[i] < order[j]
    BY <1>1, <1>6
  <2>3. lru' \in Seq(Entry) /\ Len(lru') <= Capacity /\ \A i \in DOMAIN lru' : lru'[i] = lru[order[i]]
    BY <1>4, <1>5, <1>6
  <2> QED
    BY <2>1, <2>2, <2>3 DEF Rearranges
<1>8. UNCHANGED <<clock, asked, key, began, served>> /\ Moves(q, "removing", "searching")
  BY DEF RemoveExpired
<1>9. /\ NewestFirst' /\ Past'
      /\ \A p \in Queries : at[p] = "searching" => \A i \in DOMAIN lru' : lru'[i].expire > began'[p]
  BY <1>7, <1>8, RearrangedKeeps
<1>10. \A i \in DOMAIN lru' : lru'[i].expire > began'[q]
  BY <1>5, <1>6, <1>8 DEF kept
<1>11. \A p \in Queries : at'[p] = "searching" => at[p] = "searching" \/ p = q
  BY <1>8 DEF Moves, CacheInv, DnsCacheTypeOK
<1>12. Fresh'
  BY <1>9, <1>10, <1>11 DEF Fresh
<1>13. DnsCacheTypeOK'
  <2>1. lru' \in Seq(Entry) /\ Len(lru') <= Capacity
    BY <1>4, <1>6
  <2>2. at' \in [Queries -> {"idle", "removing", "searching", "asking", "adding"}]
    BY <1>8 DEF CacheInv, DnsCacheTypeOK, Moves
  <2> QED
    BY <1>8, <2>1, <2>2 DEF CacheInv, DnsCacheTypeOK
<1>14. ServedFresh'
  BY <1>8 DEF CacheInv, ServedFresh
<1> QED
  BY <1>9, <1>12, <1>13, <1>14 DEF CacheInv

\* Some entry of the name that is asked for is the first one.
FirstHit(q, i) == i \in Hits(q) /\ \A k \in Hits(q) : i <= k

\* What the search of the cache serves is that entry, moved to the front.
LEMMA SomeFirstHit ==
  ASSUME CacheInv, NEW q \in Queries, Hits(q) # {}, SearchCache(q)
  PROVE  \E i \in DOMAIN lru : /\ FirstHit(q, i) /\ Moves(q, "searching", "idle")
                               /\ lru' = MoveToFront(i)
                               /\ served' = [served EXCEPT ![q] = <<lru[i]>>]
<1> DEFINE i == CHOOSE j \in Hits(q) : \A k \in Hits(q) : j <= k
<1>1. Hits(q) \subseteq Nat /\ Hits(q) \subseteq DOMAIN lru
  BY DEF Hits, CacheInv, DnsCacheTypeOK
<1>2. \E j \in Hits(q) : \A k \in Hits(q) : j <= k
  BY <1>1, LeastOf
<1>3. i \in Hits(q) /\ \A k \in Hits(q) : i <= k
  BY <1>2
<1>4. /\ Moves(q, "searching", "idle") /\ lru' = MoveToFront(i)
      /\ served' = [served EXCEPT ![q] = <<lru[i]>>]
  BY DEF SearchCache
<1> HIDE DEF i
<1> QED
  BY <1>1, <1>3, <1>4 DEF FirstHit

\* What is found is newer than the others of its name, and goes in front.
LEMMA FoundKeeps ==
  ASSUME CacheInv, NEW q \in Queries, NEW i \in DOMAIN lru, FirstHit(q, i),
         Moves(q, "searching", "idle"), lru' = MoveToFront(i),
         served' = [served EXCEPT ![q] = <<lru[i]>>], UNCHANGED <<clock, asked, key, began>>
  PROVE  /\ CacheInv'
         /\ \A k \in DOMAIN lru : lru[k].key = key[q] => lru[k].added <= served'[q][1].added
<1>1. /\ lru \in Seq(Entry) /\ Len(lru) \in Nat /\ Len(lru) <= Capacity
      /\ DOMAIN lru = 1 .. Len(lru)
      /\ lru[i] \in Entry /\ i \in 1 .. Len(lru)
  BY DEF CacheInv, DnsCacheTypeOK
<1>2. /\ RemoveAt(lru, i) \in Seq(Entry) /\ Len(RemoveAt(lru, i)) = Len(lru) - 1
      /\ \A j \in 1 .. Len(lru) - 1 : RemoveAt(lru, i)[j] = IF j < i THEN lru[j] ELSE lru[j + 1]
  BY <1>1, RemoveAtProperties
<1>3. /\ lru' \in Seq(Entry) /\ Len(lru') = Len(lru) /\ lru'[1] = lru[i]
      /\ \A j \in 2 .. Len(lru) : lru'[j] = RemoveAt(lru, i)[j - 1]
  <2>1. Len(RemoveAt(lru, i)) + 1 = Len(lru)
    BY <1>1, <1>2
  <2> QED
    <3> DEFINE r == RemoveAt(lru, i)
    <3>1. r \in Seq(Entry) /\ Len(r) + 1 = Len(lru) /\ lru' = <<lru[i]>> \o r
      BY <1>2, <2>1 DEF MoveToFront
    <3> HIDE DEF r
    <3>2. /\ lru' \in Seq(Entry) /\ Len(lru') = Len(r) + 1
          /\ lru'[1] = lru[i] /\ \A j \in 2 .. Len(r) + 1 : lru'[j] = r[j - 1]
      BY <1>1, <3>1, PutBefore
    <3>3. /\ lru' \in Seq(Entry) /\ Len(lru') = Len(lru) /\ lru'[1] = lru[i]
          /\ \A j \in 2 .. Len(lru) : lru'[j] = r[j - 1]
      BY <3>1, <3>2
    <3> QED
      BY <3>3 DEF r
<1>4. DOMAIN lru' = 1 .. Len(lru)
  BY <1>1, <1>3
<1> DEFINE from == [j \in 1 .. Len(lru) |-> IF j = 1 THEN i ELSE IF j - 1 < i THEN j - 1 ELSE j]
<1>5. \A j \in 1 .. Len(lru) : from[j] \in 1 .. Len(lru) /\ lru'[j] = lru[from[j]]
  <2> SUFFICES ASSUME NEW j \in 1 .. Len(lru) PROVE from[j] \in 1 .. Len(lru) /\ lru'[j] = lru[from[j]]
    OBVIOUS
  <2>1. CASE j = 1
    BY <1>1, <1>3, <2>1
  <2>2. CASE j # 1
    <3>1. j \in 2 .. Len(lru) /\ j - 1 \in 1 .. Len(lru) - 1 /\ (j - 1) + 1 = j
      BY <1>1, <2>2
    <3>2. lru'[j] = IF j - 1 < i THEN lru[j - 1] ELSE lru[j]
      BY <1>2, <1>3, <3>1
    <3> QED
      BY <1>1, <2>2, <3>1, <3>2
  <2> QED
    BY <2>1, <2>2
<1>6. \A k \in DOMAIN lru : lru[k].key = lru[i].key => i <= k
  BY DEF FirstHit, Hits
<1>7. ASSUME NEW j \in 1 .. Len(lru), NEW k \in 1 .. Len(lru), j < k,
             lru[from[j]].key = lru[from[k]].key
      PROVE  from[j] < from[k]
  <2>1. CASE j = 1
    <3>1. from[j] = i /\ from[k] # i
      BY <1>1, <1>7, <2>1
    <3>2. from[k] \in DOMAIN lru
      BY <1>1, <1>5
    <3>3. i <= from[k]
      BY <1>6, <1>7, <3>1, <3>2
    <3> QED
      BY <1>1, <1>5, <3>1, <3>3
  <2>2. CASE j # 1
    BY <1>1, <1>7, <2>2
  <2> QED
    BY <2>1, <2>2
<1>8. Rearranges(lru', from)
  <2>1. from \in [DOMAIN lru' -> DOMAIN lru]
    BY <1>1, <1>4, <1>5
  <2> HIDE DEF from
  <2> QED
    BY <1>1, <1>3, <1>4, <1>5, <1>7, <2>1 DEF Rearranges
<1> HIDE DEF from
<1>9. /\ NewestFirst' /\ Past'
      /\ \A p \in Queries : at[p] = "searching" => \A j \in DOMAIN lru' : lru'[j].expire > began'[p]
  BY <1>8, RearrangedKeeps
<1>10. at' \in [Queries -> {"idle", "removing", "searching", "asking", "adding"}]
       /\ \A p \in Queries : at'[p] = "searching" => at[p] = "searching"
  BY DEF Moves, CacheInv, DnsCacheTypeOK
<1>11. DnsCacheTypeOK' /\ Fresh'
  BY <1>1, <1>3, <1>9, <1>10 DEF DnsCacheTypeOK, Fresh, CacheInv
<1>12. lru[i].expire > began[q] /\ served'[q] = <<lru[i]>> /\ \A p \in Queries : p # q => served'[p] = served[p]
  BY <1>1 DEF Moves, CacheInv, Fresh, ServedFresh
<1>13. ServedFresh'
  <2>1. DOMAIN served' = Queries
    BY DEF CacheInv, ServedFresh
  <2> QED
    BY <1>12, <2>1 DEF CacheInv, ServedFresh
<1>14. \A k \in DOMAIN lru : lru[k].key = key[q] => lru[k].added <= lru[i].added
  <2> SUFFICES ASSUME NEW k \in DOMAIN lru, lru[k].key = key[q] PROVE lru[k].added <= lru[i].added
    OBVIOUS
  <2>1. i <= k /\ lru[i].key = key[q]
    BY DEF FirstHit, Hits
  <2>2. lru[i].added \in Nat /\ lru[k].added \in Nat
    <3>1. lru[i] \in Entry /\ lru[k] \in Entry
      BY <1>1
    <3> QED
      BY <3>1 DEF Entry
  <2>3. CASE i < k
    BY <2>1, <2>2, <2>3 DEF CacheInv, NewestFirst
  <2>4. CASE i = k
    BY <2>2, <2>4
  <2> QED
    BY <1>1, <2>1, <2>3, <2>4
<1> QED
  BY <1>9, <1>11, <1>12, <1>13, <1>14 DEF CacheInv

\* What is not found leaves the cache alone.
LEMMA StepKeeps ==
  ASSUME CacheInv, NEW q \in Queries, NEW to \in {"asking", "adding", "idle"}, NEW from,
         Moves(q, from, to),
         UNCHANGED <<lru, clock, key, began, served>>
  PROVE  CacheInv'
<1>1. at' \in [Queries -> {"idle", "removing", "searching", "asking", "adding"}]
      /\ \A p \in Queries : at'[p] = "searching" => at[p] = "searching"
  BY DEF Moves, CacheInv, DnsCacheTypeOK
<1> QED
  BY <1>1 DEF CacheInv, DnsCacheTypeOK, NewestFirst, Fresh, Past, ServedFresh

\* An answer is added in front, and a full list loses its last one.
LEMMA AddKeeps == ASSUME CacheInv, NEW q \in Queries, AddToCache(q) PROVE CacheInv'
<1> DEFINE e == [key |-> key[q], added |-> clock, expire |-> clock + Lifetime]
           longer == <<e>> \o lru
           n == IF Len(longer) > Capacity THEN Capacity ELSE Len(longer)
<1>1. /\ lru \in Seq(Entry) /\ Len(lru) \in Nat /\ DOMAIN lru = 1 .. Len(lru) /\ clock \in Nat
      /\ Capacity \in Nat \ {0} /\ Lifetime \in Nat \ {0}
  BY CacheAssumption DEF CacheInv, DnsCacheTypeOK, Past
<1>2. e \in Entry
  BY <1>1 DEF Entry, CacheInv, DnsCacheTypeOK
<1>3. e.key = key[q] /\ e.added = clock /\ e.expire > clock
  BY <1>1
<1>4. lru' = SubSeq(longer, 1, n) /\ Moves(q, "adding", "idle")
      /\ UNCHANGED <<clock, key, began, served>>
  BY DEF AddToCache
<1> HIDE DEF e
<1>5. /\ longer \in Seq(Entry) /\ Len(longer) = Len(lru) + 1
      /\ longer[1] = e /\ \A j \in 2 .. Len(lru) + 1 : longer[j] = lru[j - 1]
  BY <1>1, <1>2, PutBefore
<1>6. n \in 1 .. Len(lru) + 1 /\ n <= Capacity
  BY <1>1, <1>5
<1> HIDE DEF longer, n
<1>7. lru' \in Seq(Entry) /\ Len(lru') = n /\ \A j \in 1 .. n : lru'[j] = longer[j]
  <2>1. \A j \in 1 .. n : longer[j] \in Entry
    BY <1>1, <1>5, <1>6
  <2>2. /\ SubSeq(longer, 1, n) \in Seq(Entry) /\ Len(SubSeq(longer, 1, n)) = IF 1 <= n THEN n - 1 + 1 ELSE 0
        /\ \A j \in 1 .. n - 1 + 1 : SubSeq(longer, 1, n)[j] = longer[1 + j - 1]
    BY <1>6, <2>1, SubSeqProperties
  <2>3. n - 1 + 1 = n /\ 1 <= n /\ \A j \in 1 .. n : 1 + j - 1 = j
    BY <1>1, <1>6
  <2> QED
    BY <1>4, <2>2, <2>3
<1>8. DOMAIN lru' = 1 .. n /\ lru'[1] = e /\ \A j \in 2 .. n : j - 1 \in DOMAIN lru /\ lru'[j] = lru[j - 1]
  BY <1>1, <1>5, <1>6, <1>7
<1>9. at' \in [Queries -> {"idle", "removing", "searching", "asking", "adding"}]
      /\ \A p \in Queries : at'[p] = "searching" => at[p] = "searching"
  BY <1>4 DEF Moves, CacheInv, DnsCacheTypeOK
<1>10. DnsCacheTypeOK'
  BY <1>4, <1>6, <1>7, <1>9 DEF CacheInv, DnsCacheTypeOK
<1>11. \A j \in DOMAIN lru : lru[j].added <= clock
  BY DEF CacheInv, Past
<1>12. \A j \in DOMAIN lru' : j = 1 \/ j \in 2 .. n
  BY <1>6, <1>8
<1>13. NewestFirst'
  <2> SUFFICES ASSUME NEW i \in DOMAIN lru', NEW j \in DOMAIN lru', i < j, lru'[i].key = lru'[j].key
               PROVE  lru'[i].added >= lru'[j].added
    BY DEF NewestFirst
  <2>1. j \in 2 .. n /\ j - 1 \in DOMAIN lru /\ lru'[j] = lru[j - 1]
    BY <1>6, <1>8
  <2>2. CASE i = 1
    <3>0. lru[j - 1] \in Entry
      BY <1>1, <2>1
    <3>1. lru[j - 1].added <= clock /\ lru[j - 1].added \in Nat
      BY <1>11, <2>1, <3>0 DEF Entry
    <3> QED
      BY <1>1, <1>3, <1>8, <2>1, <2>2, <3>1
  <2>3. CASE i # 1
    <3>1. i \in 2 .. n /\ i - 1 \in DOMAIN lru /\ lru'[i] = lru[i - 1] /\ i - 1 < j - 1
      BY <1>6, <1>8, <1>12, <2>1, <2>3
    <3> QED
      BY <2>1, <3>1 DEF CacheInv, NewestFirst
  <2> QED
    BY <2>2, <2>3
<1>14. Past'
  <2>1. \A j \in DOMAIN lru' : lru'[j].added <= clock
    <3>1. lru'[1].added <= clock
      BY <1>1, <1>3, <1>8
    <3> QED
      BY <1>8, <1>11, <1>12, <3>1
  <2> QED
    BY <1>4, <2>1 DEF CacheInv, Past
<1>15. Fresh'
  <2> SUFFICES ASSUME NEW p \in Queries, at'[p] = "searching", NEW j \in DOMAIN lru'
               PROVE  lru'[j].expire > began'[p]
    BY DEF Fresh
  <2>1. at[p] = "searching" /\ began'[p] = began[p] /\ began[p] \in Nat /\ began[p] <= clock
    BY <1>4, <1>9 DEF CacheInv, Past
  <2>2. CASE j = 1
    <3>1. e.expire \in Nat
      BY <1>2 DEF Entry
    <3> QED
      BY <1>1, <1>3, <1>8, <2>1, <2>2, <3>1
  <2>3. CASE j \in 2 .. n
    BY <1>8, <2>1, <2>3 DEF CacheInv, Fresh
  <2> QED
    BY <1>12, <2>2, <2>3
<1>16. ServedFresh'
  BY <1>4 DEF CacheInv, ServedFresh
<1> QED
  BY <1>10, <1>13, <1>14, <1>15, <1>16 DEF CacheInv

\* A query begins, or time passes.
LEMMA QueryBegins == ASSUME CacheInv, NEW q \in Queries, Query(q) PROVE CacheInv'
<1>1. UNCHANGED <<lru, clock>> /\ Moves(q, "idle", "removing")
      /\ began' = [began EXCEPT ![q] = clock]
      /\ served' = [served EXCEPT ![q] = <<>>]
  BY DEF Query
<1>2. key' \in [Queries -> Keys]
  BY DEF Query, CacheInv, DnsCacheTypeOK
<1>3. at' \in [Queries -> {"idle", "removing", "searching", "asking", "adding"}]
      /\ \A p \in Queries : at'[p] = "searching" => at[p] = "searching" /\ p # q
  BY <1>1 DEF Moves, CacheInv, DnsCacheTypeOK
<1>4. /\ began' \in [Queries -> Nat] /\ began'[q] = clock
      /\ \A p \in Queries : p # q => began'[p] = began[p] /\ served'[p] = served[p]
      /\ served'[q] = <<>> /\ DOMAIN served' = Queries /\ clock \in Nat
  BY <1>1 DEF CacheInv, Past, ServedFresh
<1>5. DnsCacheTypeOK' /\ NewestFirst'
  BY <1>1, <1>2, <1>3 DEF CacheInv, DnsCacheTypeOK, NewestFirst
<1>6. Fresh'
  BY <1>1, <1>3, <1>4 DEF CacheInv, Fresh
<1>7. Past'
  BY <1>1, <1>4 DEF CacheInv, Past
<1>8. ServedFresh'
  BY <1>4 DEF CacheInv, ServedFresh
<1> QED
  BY <1>5, <1>6, <1>7, <1>8 DEF CacheInv

\* Time passes without making an entry older than its query.
LEMMA TimeKeeps == CacheInv /\ PassTime => CacheInv'
<1> SUFFICES ASSUME CacheInv, PassTime PROVE CacheInv'
  OBVIOUS
<1>1. clock \in Nat /\ clock' = clock + 1 /\ UNCHANGED <<lru, asked, at, key, began, served>>
  BY DEF PassTime, CacheInv, Past
<1>2. DnsCacheTypeOK' /\ NewestFirst' /\ Fresh' /\ ServedFresh'
  BY <1>1 DEF CacheInv, DnsCacheTypeOK, NewestFirst, Fresh, ServedFresh
<1>3. \A i \in DOMAIN lru : lru[i].added <= clock /\ lru[i].added \in Nat
  <2>1. \A i \in DOMAIN lru : lru[i] \in Entry
    BY DEF CacheInv, DnsCacheTypeOK
  <2> QED
    BY <2>1 DEF CacheInv, Past, Entry
<1>4. \A q \in Queries : began[q] <= clock /\ began[q] \in Nat
  BY DEF CacheInv, Past
<1>5. Past'
  BY <1>1, <1>3, <1>4 DEF CacheInv, Past
<1> QED
  BY <1>2, <1>5 DEF CacheInv

\* A query that is answered gets the newest answer to its name.
ServesNewest ==
  \A q \in Queries : at[q] = "searching" /\ at'[q] = "idle" =>
    \A i \in DOMAIN lru : lru[i].key = key[q] => lru[i].added <= served'[q][1].added

\* Every step preserves the invariant, and serves the newest.
LEMMA CacheNextInv == CacheInv /\ [DnsCacheNext]_dnsCacheVars => CacheInv' /\ ServesNewest
<1> SUFFICES ASSUME CacheInv, [DnsCacheNext]_dnsCacheVars PROVE CacheInv' /\ ServesNewest
  OBVIOUS
<1>1. CASE PassTime
  BY <1>1, TimeKeeps DEF ServesNewest, PassTime
<1>2. CASE UNCHANGED dnsCacheVars
  BY <1>2 DEF dnsCacheVars, CacheInv, DnsCacheTypeOK, NewestFirst, Fresh, Past, ServedFresh, ServesNewest
<1>3. ASSUME NEW q \in Queries, QueryGoesOn(q) PROVE CacheInv' /\ ServesNewest
  <2>0. ASSUME NEW from, from # "searching", NEW to, Moves(q, from, to) PROVE ServesNewest
    BY <2>0 DEF Moves, ServesNewest, CacheInv, DnsCacheTypeOK
  <2>1. CASE Query(q)
    BY <2>0, <2>1, QueryBegins DEF Query
  <2>2. CASE RemoveExpired(q)
    BY <2>0, <2>2, RemoveExpiredKeeps DEF RemoveExpired
  <2>3. CASE ResolverAnswers(q)
    <3>1. PICK to \in {"idle", "adding"} : Moves(q, "asking", to)
      BY <2>3 DEF ResolverAnswers
    <3> QED
      BY <2>0, <2>3, <3>1, StepKeeps DEF ResolverAnswers
  <2>4. CASE AddToCache(q)
    BY <2>0, <2>4, AddKeeps DEF AddToCache
  <2>5. CASE SearchCache(q) /\ Hits(q) = {}
    <3>1. Moves(q, "searching", "asking") /\ UNCHANGED <<lru, served, clock, asked, key, began>>
      BY <2>5 DEF SearchCache
    <3>2. ServesNewest
      BY <3>1 DEF Moves, ServesNewest, CacheInv, DnsCacheTypeOK
    <3> QED
      BY <3>1, <3>2, StepKeeps
  <2>6. CASE SearchCache(q) /\ Hits(q) # {}
    <3>1. PICK i \in DOMAIN lru :
            /\ FirstHit(q, i) /\ Moves(q, "searching", "idle")
            /\ lru' = MoveToFront(i) /\ served' = [served EXCEPT ![q] = <<lru[i]>>]
      BY <2>6, SomeFirstHit
    <3>2. UNCHANGED <<clock, asked, key, began>>
      BY <2>6 DEF SearchCache
    <3>3. CacheInv' /\ \A k \in DOMAIN lru : lru[k].key = key[q] => lru[k].added <= served'[q][1].added
      BY <3>1, <3>2, FoundKeeps
    <3>4. \A p \in Queries : at[p] = "searching" /\ at'[p] = "idle" => p = q
      BY <3>1 DEF Moves, CacheInv, DnsCacheTypeOK
    <3> QED
      BY <3>3, <3>4 DEF ServesNewest
  <2> QED
    BY <1>3, <2>1, <2>2, <2>3, <2>4, <2>5, <2>6 DEF QueryGoesOn
<1> QED
  BY <1>1, <1>2, <1>3 DEF DnsCacheNext

\* No query is served what had expired when it began, and each is served the
\* newest answer that is there, however the queries interleave.
THEOREM NewestIsServed == DnsCacheSpec => ServedNewest /\ []DnsCacheTypeOK
<1>1. CacheInv =>
        /\ DnsCacheTypeOK
        /\ \A q \in Queries : \A i \in DOMAIN served[q] : served[q][i].expire > began[q]
  BY DEF CacheInv, ServedFresh
<1>2. CacheInv /\ [DnsCacheNext]_dnsCacheVars =>
        [\A q \in Queries : at[q] = "searching" /\ at'[q] = "idle" =>
           \A i \in DOMAIN lru : lru[i].key = key[q] => lru[i].added <= served'[q][1].added]_dnsCacheVars
  BY CacheNextInv DEF ServesNewest
<1> QED
  BY <1>1, <1>2, CacheInitInv, CacheNextInv, PTL DEF DnsCacheSpec, ServedNewest

(* ------------------------- dials through a proxy ------------------------- *)
Secured == "certificate" \in granted /\ VerifyCertificate(CertificateName, verified)

\* What the peer has granted by the time the dial has got this far.
GrantedSoFar ==
  /\ user # "nothing" => pc = "done"
  /\ pc = "failed" => control \in {"none", "closed"} \/ Leaks
  /\ pc \in {"connect", "write", "method"} => granted = {}
  /\ Socks => /\ pc = "auth" => "user" \in granted
              /\ pc \in {"reply", "bound", "udp", "done"}
                   => ("user" \in granted => "auth" \in granted)
              /\ pc \in {"bound", "udp", "done"} => "reply" \in granted
  /\ pc = "done" => Socks \/ kind \in {"tls", "tunnel"}
  /\ kind = "tls" /\ pc = "done" => Secured
  /\ kind = "tunnel" => /\ pc \in {"request", "done"} => over = "http" \/ Secured
                        /\ pc = "done" => "status" \in granted
                        /\ over \in Protocols

DialsInv == DialsTypeOK /\ GrantedSoFar

\* A dial begins with nothing granted.
LEMMA DialsInitInv == DialsInit => DialsInv
<1> SUFFICES ASSUME DialsInit PROVE DialsInv
  OBVIOUS
<1>1. datagrams \in 0 .. MaxDatagrams
  BY DialsAssumption DEF DialsInit
<1>2. over \in Protocols \cup {"none"} /\ (kind = "tunnel" => over \in Protocols)
  BY DEF DialsInit
<1>3. DialsTypeOK
  BY <1>1, <1>2 DEF DialsInit, DialsTypeOK
<1> QED
  BY <1>2, <1>3 DEF DialsInit, DialsInv, GrantedSoFar, Socks

\* What was granted stays granted while the dial gets no further.
LEMMA GrantedStays ==
  ASSUME GrantedSoFar, UNCHANGED <<kind, over, options, pc, verified, granted>>,
         control' \in {control, "closed"}, user # "nothing" \/ user' = user
  PROVE  GrantedSoFar'
  BY DEF GrantedSoFar, Leaks, Socks, Secured, VerifyCertificate, CertificateName

\* The types hold when the dial gets no further and the rest keeps its own.
LEMMA TypeStays ==
  ASSUME DialsTypeOK, UNCHANGED <<kind, over, options, pc, verified, granted>>,
         datagrams' \in 0 .. MaxDatagrams,
         control' \in {"none", "open", "closed", "leaked"},
         packetConn' \in {"none", "open", "closed"},
         upPipe' \subseteq {"reader", "writer"}, downPipe' \subseteq {"reader", "writer"},
         body' \in {"none", "open", "eof", "closed"},
         pump' \in {"none", "copying", "ended"}, user' \in {"nothing", "conn", "closed"}
  PROVE  DialsTypeOK'
<1>1. options' \in Options /\ verified' \in Certificates \cup {NoCertificate}
  <2>1. options' = options /\ verified' = verified
    OBVIOUS
  <2> QED
    BY <2>1, Zenon DEF DialsTypeOK
<1> QED
  BY <1>1 DEF DialsTypeOK

\* A step of the dial that fails has no open connection, or the one that leaks.
LEMMA FailsKeeps ==
  ASSUME DialsInv, NEW from, from # "done", NEW state \in {"none", "closed", "leaked"},
         state = "leaked" => from = "udp" /\ kind = "association", Fails(from, state)
  PROVE  DialsInv'
<1> USE DEF DialsInv, Fails, Step, Steady, configVars
<1>1. DialsTypeOK'
  BY DEF DialsTypeOK
<1>2. GrantedSoFar'
  BY DEF GrantedSoFar, Leaks, Socks, Secured, VerifyCertificate, CertificateName
<1> QED
  BY <1>1, <1>2

\* The SOCKS5 client asks, and goes on only with what the proxy grants.
LEMMA SocksKeeps ==
  ASSUME DialsInv,
         Connect \/ BadAddress \/ WriteRequest \/ ReadMethod \/ ReadAuth \/ ReadReply
           \/ ReadAddr \/ ListenPacket \/ ReadFrom
  PROVE  DialsInv'
<1>0. CASE ReadFrom
  <2>1. datagrams \in 0 .. MaxDatagrams
    BY DEF DialsInv, DialsTypeOK
  <2>2. datagrams < MaxDatagrams /\ datagrams' = datagrams + 1
    BY <1>0 DEF ReadFrom
  <2>3. datagrams' \in 0 .. MaxDatagrams
    BY <2>1, <2>2, DialsAssumption
  <2>4. UNCHANGED <<kind, over, options, pc, verified, control, packetConn, granted, upPipe, downPipe, body,
                   pump, user>>
    BY <1>0 DEF ReadFrom, configVars, connVars, pipeVars
  <2>5. DialsTypeOK'
    BY <2>3, <2>4, TypeStays DEF DialsInv, DialsTypeOK
  <2>6. GrantedSoFar'
    BY <2>4, GrantedStays DEF DialsInv
  <2> QED
    BY <2>5, <2>6 DEF DialsInv
<1> USE DEF DialsInv, DialsTypeOK, GrantedSoFar, Socks, Secured, VerifyCertificate, CertificateName,
        Step, Steady, configVars, connVars, pipeVars
<1>1. CASE Connect
  BY <1>1, FailsKeeps DEF Connect
<1>2. CASE BadAddress \/ WriteRequest
  BY <1>2, FailsKeeps, ZenonT(60) DEF BadAddress, WriteRequest, RequestFails, Reads
<1>3. CASE ReadMethod
  BY <1>3, FailsKeeps, ZenonT(60) DEF ReadMethod, RequestFails, Reads
<1>4. CASE ReadAuth
  BY <1>4, FailsKeeps, ZenonT(60) DEF ReadAuth, RequestFails, Reads
<1>5. CASE ReadReply
  BY <1>5, FailsKeeps, ZenonT(60) DEF ReadReply, RequestFails, Reads
<1>6. CASE ReadAddr
  BY <1>6, FailsKeeps, ZenonT(60) DEF ReadAddr, RequestFails, Reads
<1>7. CASE ListenPacket
  <2>1. CASE \E state \in {"leaked", "closed"} : Fails("udp", state)
    BY <1>7, <2>1, FailsKeeps DEF ListenPacket, Fails
  <2>2. CASE ~\E state \in {"leaked", "closed"} : Fails("udp", state)
    <3> HIDE DEF DialsInv
    <3>1. /\ kind = "association" /\ pc = "udp" /\ pc' = "done" /\ packetConn' = "open"
          /\ user' = "conn"
          /\ UNCHANGED <<kind, over, options, datagrams, control, granted, verified, upPipe, downPipe, body,
                         pump>>
      BY <1>7, <2>2 DEF ListenPacket
    <3>2. DialsTypeOK'
      BY <3>1 DEF DialsInv
    <3>3. GrantedSoFar'
      BY <3>1 DEF DialsInv
    <3> QED
      BY <3>2, <3>3 DEF DialsInv
  <2> QED
    BY <2>1, <2>2
<1> QED
  BY <1>0, <1>1, <1>2, <1>3, <1>4, <1>5, <1>6, <1>7

\* The certificate that is shown is the one that is verified.
LEMMA ShowsSecures ==
  ASSUME DialsInv, NEW cert \in Certificates, NEW name, Shows(cert, name), UNCHANGED options,
         name = CertificateName
  PROVE  Secured' /\ verified' \in Certificates /\ granted' = granted \cup {"certificate"}
  BY DEF Shows, Secured, VerifyCertificate, CertificateName

\* TLS hands out a connection to a verified name.
LEMMA TlsKeeps == DialsInv /\ TlsHandshake => DialsInv'
<1> SUFFICES ASSUME DialsInv, TlsHandshake PROVE DialsInv'
  OBVIOUS
<1>1. CASE Fails("handshake", "closed")
  BY <1>1, FailsKeeps
<1>2. ASSUME NEW cert \in Certificates, WrapConn(cert) PROVE DialsInv'
  <2>1. /\ pc = "handshake" /\ pc' = "done" /\ user' = "conn" /\ kind = "tls"
        /\ UNCHANGED <<configVars, datagrams, connVars, pipeVars>>
    BY <1>2 DEF WrapConn, Step, Steady, TlsHandshake
  <2>2. Secured' /\ verified' \in Certificates /\ granted' = granted \cup {"certificate"}
    BY <1>2, <2>1, ShowsSecures DEF WrapConn, configVars
  <2> QED
    BY <2>1, <2>2 DEF DialsInv, DialsTypeOK, GrantedSoFar, Socks, configVars, connVars, pipeVars
<1> QED
  BY <1>1, <1>2 DEF TlsHandshake

\* The tunnel's transport, its two pipes and its copying goroutine.
LEMMA TunnelKeeps ==
  ASSUME DialsInv,
         HttpConnect \/ QuicDial \/ ProxyHandshake \/ DoRequest \/ BodyEnds \/ PumpEnds
           \/ CloseHalf \/ Close
  PROVE  DialsInv'
<1>3. CASE ProxyHandshake
  <2>1. ASSUME NEW cert \in Certificates, Shows(cert, options.verifier), options.verifier # "none",
               Step("handshake", "request"), UNCHANGED <<connVars, pipeVars, user>>, Steady
        PROVE  DialsInv'
    <3>1. UNCHANGED <<configVars, datagrams>> /\ kind = "tunnel"
      BY <1>3, <2>1 DEF Steady, ProxyHandshake
    <3>2. Secured' /\ verified' \in Certificates /\ granted' = granted \cup {"certificate"}
      BY <2>1, <3>1, ShowsSecures DEF configVars, CertificateName
    <3> QED
      BY <2>1, <3>1, <3>2 DEF DialsInv, DialsTypeOK, GrantedSoFar, Socks, configVars, connVars,
         pipeVars, Step
  <2>2. CASE Step("handshake", "panicked")
    BY <1>3, <2>2 DEF ProxyHandshake, Fails, Shows, Step, Steady, configVars, connVars, pipeVars, DialsInv,
       DialsTypeOK, GrantedSoFar, Socks
  <2>3. CASE Fails("handshake", "closed")
    BY <2>3, FailsKeeps
  <2> QED
    BY <1>3, <2>1, <2>2, <2>3 DEF ProxyHandshake
<1> USE DEF DialsInv, DialsTypeOK, GrantedSoFar, Socks, Secured, VerifyCertificate, CertificateName,
        Step, Steady, configVars, connVars, pipeVars
<1>1. CASE HttpConnect
  BY <1>1, FailsKeeps DEF HttpConnect, TunnelGoes
<1>2. CASE QuicDial
  BY <1>2, FailsKeeps DEF QuicDial, TunnelGoes
<1>4. CASE DoRequest
  <2>1. CASE Fails("request", "closed")
    BY <2>1, FailsKeeps
  <2>2. CASE ~Fails("request", "closed")
    <3>1. /\ pc = "request" /\ pc' = "done" /\ user' = "conn" /\ granted' = granted \cup {"status"}
          /\ body' = "open" /\ pump' = "copying" /\ kind = "tunnel"
          /\ UNCHANGED <<kind, over, options, datagrams, control, packetConn, verified, upPipe, downPipe>>
      BY <1>4, <2>2 DEF DoRequest
    <3>2. DialsTypeOK'
      BY <3>1
    <3>3. GrantedSoFar'
      BY <3>1
    <3> QED
      BY <3>2, <3>3
  <2> QED
    BY <2>1, <2>2
<1>5. CASE BodyEnds \/ PumpEnds \/ CloseHalf \/ Close
  <2> HIDE DEF GrantedSoFar, Socks, Secured, VerifyCertificate, CertificateName
  <2>1. GrantedSoFar'
    BY <1>5, GrantedStays DEF BodyEnds, PumpEnds, CloseHalf, Close
  <2>2. DialsTypeOK'
    <3>1. CASE BodyEnds \/ PumpEnds
      BY <3>1, TypeStays DEF BodyEnds, PumpEnds
    <3>2. CASE CloseHalf
      BY <3>2, TypeStays DEF CloseHalf
    <3>3. CASE Close
      BY <3>3, TypeStays DEF Close
    <3> QED
      BY <1>5, <3>1, <3>2, <3>3
  <2> QED
    BY <2>1, <2>2
<1> QED
  BY <1>1, <1>2, <1>3, <1>4, <1>5

\* Every step preserves the invariant.
LEMMA DialsNextInv == DialsInv /\ [DialsNext]_dialsVars => DialsInv'
<1> SUFFICES ASSUME DialsInv, [DialsNext]_dialsVars PROVE DialsInv'
  OBVIOUS
<1>1. CASE UNCHANGED dialsVars
  <2>1. DialsTypeOK'
    BY <1>1, TypeStays DEF dialsVars, configVars, DialsInv, DialsTypeOK
  <2>2. GrantedSoFar'
    BY <1>1, GrantedStays DEF dialsVars, configVars, DialsInv
  <2> QED
    BY <2>1, <2>2 DEF DialsInv
<1> QED
  BY <1>1, SocksKeeps, TlsKeeps, TunnelKeeps DEF DialsNext

\* What the invariant says of a connection that a caller holds.
LEMMA HeldIsGranted == DialsInv => (user # "nothing" => Granted)
  BY DEF DialsInv, GrantedSoFar, DialsTypeOK, Granted, Socks, Secured

\* Nobody ever holds a connection that the peer has not agreed to.
THEOREM OnlyGrantedIsHeld == DialsSpec => [](user # "nothing" => Granted)
  BY DialsInitInv, DialsNextInv, HeldIsGranted, PTL DEF DialsSpec

\* A dial that fails has closed its connection to the proxy, if it made one:
\* all but an association's, once the proxy has granted it, when the address
\* that came with the grant cannot be used.  That one stays open.
THEOREM FailureClosesOrLeaks ==
  DialsSpec => [](pc = "failed" => control \in {"none", "closed"} \/ Leaks)
<1>1. DialsInv => (pc = "failed" => control \in {"none", "closed"} \/ Leaks)
  BY DEF DialsInv, GrantedSoFar
<1> QED
  BY <1>1, DialsInitInv, DialsNextInv, PTL DEF DialsSpec

(* ------------------------------ all together ----------------------------- *)
\* No part writes another's state, so each behaves as it does alone.
LEMMA DialingParts == DialingSpec => EyeballsSpec /\ SearchSpec /\ DnsCacheSpec /\ DialsSpec
<1>1. DialingInit => EyeballsInit /\ SearchInit /\ DnsCacheInit /\ DialsInit
  BY DEF DialingInit
<1>2. [DialingNext]_dialingVars =>
        /\ [EyeballsNext]_eyeballsVars /\ [SearchNext]_searchVars
        /\ [DnsCacheNext]_dnsCacheVars /\ [DialsNext]_dialsVars
  BY DEF DialingNext, dialingVars
<1> QED
  BY <1>1, <1>2, PTL DEF DialingSpec, EyeballsSpec, SearchSpec, DnsCacheSpec, DialsSpec

\* The types of all four parts.
THEOREM DialingTypes == DialingSpec => []DialingTypeOK
<1>1. DialsInv => DialsTypeOK
  BY DEF DialsInv
<1>2. DialsSpec => []DialsTypeOK
  BY <1>1, DialsInitInv, DialsNextInv, PTL DEF DialsSpec
<1>3. EyeballsTypeOK /\ SearchTypeOK /\ DnsCacheTypeOK /\ DialsTypeOK => DialingTypeOK
  BY DEF DialingTypeOK
<1> QED
  BY <1>2, <1>3, DialingParts, EveryAddressIsTried, SearchTypesHold, NewestIsServed, PTL

\* Composed, the parts keep what each of them promises: every address is tried,
\* the cache names the strategy that was found, the newest answer is served,
\* and nobody holds a connection that was not granted.
THEOREM DialingSafe ==
  DialingSpec => /\ [](AllTried /\ CacheNamesWinner /\ (user # "nothing" => Granted))
                 /\ ServedNewest
  BY DialingParts, EveryAddressIsTried, CacheIsTheWinner, NewestIsServed, OnlyGrantedIsHeld, PTL
=============================================================================
