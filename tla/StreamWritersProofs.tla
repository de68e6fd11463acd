------------------------ MODULE StreamWritersProofs ------------------------
(* Theorems about the writers of StreamWriters for every stream, plan,      *)
(* split length, size of a call and length of a record header.              *)
(* The types (TypeInv) say what each writer's counters may be while a call  *)
(* is under way.  Carried says what is conserved then: the stream as far as *)
(* the writer has taken it over is on the wire or in what it holds back, a  *)
(* hello in two records.  SplitsInv says that the iterator of split is one  *)
(* segment ahead of the wire, so that no write reaches beyond the next of   *)
(* the plan's points.  What recursive definitions compute (CleanSplits, the *)
(* bytes before a split) is proved by taking the least index at which it    *)
(* would be otherwise (LeastOf).                                            *)
EXTENDS StreamWrappers, SequenceTheorems, WellFoundedInduction, TLAPS

(* ------------------------------- sequences ------------------------------ *)
\* Whatever a stream or a record header may hold.
HeaderBytes == {<<"header", len, j>> : len \in Int, j \in Nat}
AnyByte == HeaderBytes \cup UNION {Range(s) : s \in Streams}

\* The first of a sequence: as many as there are, and the same ones.
LEMMA FirstOfProperties ==
  ASSUME NEW S, NEW s \in Seq(S), NEW k \in Nat
  PROVE  /\ FirstOf(s, k) \in Seq(S) /\ Len(FirstOf(s, k)) = Least(k, Len(s))
         /\ \A i \in 1 .. Least(k, Len(s)) : FirstOf(s, k)[i] = s[i]
<1> DEFINE m == Least(k, Len(s))
<1>1. Len(s) \in Nat /\ m \in Nat /\ m <= Len(s)
  BY DEF Least
<1> HIDE DEF m
<1>2. \A i \in 1 .. m : s[i] \in S
  BY <1>1
<1>3. /\ SubSeq(s, 1, m) \in Seq(S) /\ Len(SubSeq(s, 1, m)) = m
      /\ \A i \in 1 .. m : SubSeq(s, 1, m)[i] = s[i]
  BY <1>1, <1>2, SubSeqProperties
<1> QED
  BY <1>3 DEF m, FirstOf

\* The first k of a sequence that has as many.
LEMMA FirstOfShort ==
  ASSUME NEW S, NEW s \in Seq(S), NEW k \in Nat, k <= Len(s)
  PROVE  /\ FirstOf(s, k) \in Seq(S) /\ Len(FirstOf(s, k)) = k
         /\ \A i \in 1 .. k : FirstOf(s, k)[i] = s[i]
<1>1. Least(k, Len(s)) = k
  BY DEF Least
<1> QED
  BY <1>1, FirstOfProperties

\* What is left of a sequence.
LEMMA DropFirstProperties ==
  ASSUME NEW S, NEW s \in Seq(S), NEW k \in Nat
  PROVE  /\ DropFirst(s, k) \in Seq(S)
         /\ Len(DropFirst(s, k)) = IF k < Len(s) THEN Len(s) - k ELSE 0
         /\ \A i \in 1 .. Len(s) - k : DropFirst(s, k)[i] = s[k + i]
<1>1. Len(s) \in Nat /\ \A i \in 1 .. Len(s) : s[i] \in S
  OBVIOUS
<1> DEFINE l == Len(s)
<1> HIDE DEF l
<1>2. l \in Nat /\ k + 1 \in Int /\ \A i \in k + 1 .. l : s[i] \in S
  BY <1>1 DEF l
<1>3. /\ SubSeq(s, k + 1, l) \in Seq(S)
      /\ Len(SubSeq(s, k + 1, l)) = IF k + 1 <= l THEN l - (k + 1) + 1 ELSE 0
      /\ \A i \in 1 .. l - (k + 1) + 1 : SubSeq(s, k + 1, l)[i] = s[k + 1 + i - 1]
  BY <1>2, SubSeqProperties
<1>4. /\ k + 1 <= l <=> k < l
      /\ l - (k + 1) + 1 = l - k
      /\ \A i \in 1 .. l - k : k + 1 + i - 1 = k + i
  BY <1>2
<1> QED
  BY <1>3, <1>4 DEF l, DropFirst

\* Two sequences, one behind the other.
LEMMA JoinProperties ==
  ASSUME NEW S, NEW s \in Seq(S), NEW t \in Seq(S)
  PROVE  /\ s \o t \in Seq(S) /\ Len(s \o t) = Len(s) + Len(t)
         /\ Len(s) \in Nat /\ Len(t) \in Nat
         /\ \A i \in 1 .. Len(s) : (s \o t)[i] = s[i]
         /\ \A i \in 1 .. Len(t) : (s \o t)[Len(s) + i] = t[i]
<1>1. /\ s \o t \in Seq(S) /\ Len(s \o t) = Len(s) + Len(t)
      /\ \A i \in 1 .. Len(s) + Len(t) : (s \o t)[i] = IF i <= Len(s) THEN s[i] ELSE t[i - Len(s)]
  BY ConcatProperties
<1>2. Len(s) \in Nat /\ Len(t) \in Nat
  OBVIOUS
<1> DEFINE k == Len(s)
           l == Len(t)
           u == s \o t
<1> HIDE DEF k, l, u
<1>3. /\ k \in Nat /\ l \in Nat
      /\ \A i \in 1 .. k + l : u[i] = IF i <= k THEN s[i] ELSE t[i - k]
  BY <1>1, <1>2 DEF k, l, u
<1>4. \A i \in 1 .. k : u[i] = s[i]
  BY <1>3
<1>5. ASSUME NEW i \in 1 .. l PROVE u[k + i] = t[i]
  <2>1. k + i \in 1 .. k + l /\ ~(k + i <= k) /\ (k + i) - k = i
    BY <1>3
  <2> QED
    BY <1>3, <2>1
<1> QED
  BY <1>1, <1>2, <1>4, <1>5 DEF k, l, u

\* A record header is HeaderLen bytes that know its length.
LEMMA HeaderProperties ==
  ASSUME NEW len \in Int
  PROVE  /\ Header(len) \in Seq(AnyByte) /\ Len(Header(len)) = HeaderLen
         /\ \A i \in 1 .. HeaderLen : Header(len)[i] = <<"header", len, i>>
<1>1. HeaderLen \in Nat
  BY FragAssumption
<1>2. ASSUME NEW i \in 1 .. HeaderLen PROVE <<"header", len, i>> \in AnyByte
  <2>1. i \in Nat
    BY <1>1
  <2>2. <<"header", len, i>> \in HeaderBytes
    BY <2>1 DEF HeaderBytes
  <2> QED
    BY <2>2 DEF AnyByte
<1>3. Header(len) \in [1 .. HeaderLen -> AnyByte]
  BY <1>2 DEF Header
<1> HIDE DEF AnyByte
<1>4. Header(len) \in Seq(AnyByte) /\ Len(Header(len)) = HeaderLen
  BY <1>1, <1>3
<1> QED
  BY <1>4 DEF Header

\* A stream is a sequence of such bytes.
LEMMA StreamsTyped == ASSUME NEW s \in Streams PROVE s \in Seq(AnyByte)
<1>1. Range(s) \subseteq AnyByte
  BY DEF AnyByte
<1> QED
  BY <1>1, StreamAssumption, SeqMonotonic

(* ----------------------------- calls and wire --------------------------- *)
\* The call under way: what is left of it is what the stream has next.
CallOK ==
  /\ kind \in {"split", "hello", "reclen", "disorder"}
  /\ stream \in Streams /\ stream \in Seq(AnyByte)
  /\ mode \in {"idle", "write", "readFrom", "broken"} /\ eof \in {"eof", "error"}
  /\ told \in Nat /\ n \in Nat /\ p \in Seq(AnyByte)
  /\ told + n + Len(p) <= Len(stream) /\ n + Len(p) <= MaxCall
  /\ \A i \in 1 .. Len(p) : p[i] = stream[told + n + i]
  /\ mode \in {"idle", "broken"} => n = 0 /\ p = <<>>

WireOK == wire \in Seq(AnyByte) /\ cuts \subseteq 1 .. Len(wire)

\* The empty sequence, of whatever.
LEMMA Nothing == <<>> \in Seq(AnyByte) /\ Len(<<>>) = 0
  BY EmptySeq

\* A call begins.
LEMMA BeginKeeps ==
  ASSUME CallOK, BeginWrite \/ BeginReadFrom
  PROVE  CallOK' /\ n' = 0 /\ mode' \in {"write", "readFrom"} /\ mode = "idle"
         /\ UNCHANGED <<kind, stream, told, wire, cuts>>
<1>1. PICK m \in 1 .. Least(MaxCall, Len(stream) - told) :
        p' = SubSeq(stream, told + 1, told + m)
  BY DEF BeginWrite, BeginReadFrom
<1>2. /\ n' = 0 /\ mode' \in {"write", "readFrom"} /\ mode = "idle" /\ told < Len(stream)
      /\ eof' \in {"eof", "error"} /\ UNCHANGED <<kind, stream, told, wire, cuts>>
  BY DEF BeginWrite, BeginReadFrom, CallOK
<1> DEFINE L == Len(stream)
<1>3. L \in Nat /\ told \in Nat /\ MaxCall \in Nat /\ told < L
  BY <1>2, StreamAssumption DEF CallOK
<1>4. m \in Nat /\ told + m <= L /\ m <= MaxCall
  BY <1>3 DEF Least
<1>5. \A i \in told + 1 .. told + m : stream[i] \in AnyByte
  <2>1. \A i \in told + 1 .. told + m : i \in 1 .. L
    BY <1>3, <1>4
  <2> QED
    BY <2>1 DEF CallOK
<1> HIDE DEF L
<1>6. PICK from, to : from = told + 1 /\ to = told + m
  OBVIOUS
<1>7. p' \in Seq(AnyByte) /\ Len(p') = m /\ \A i \in 1 .. m : p'[i] = stream[told + i]
  <2>1. from \in Int /\ to \in Int /\ \A i \in from .. to : stream[i] \in AnyByte
    BY <1>3, <1>4, <1>5, <1>6
  <2>2. /\ SubSeq(stream, from, to) \in Seq(AnyByte)
        /\ Len(SubSeq(stream, from, to)) = IF from <= to THEN to - from + 1 ELSE 0
        /\ \A i \in 1 .. to - from + 1 : SubSeq(stream, from, to)[i] = stream[from + i - 1]
    BY <2>1, SubSeqProperties
  <2>3. p' = SubSeq(stream, from, to)
    BY <1>1, <1>6
  <2>4. /\ from <= to /\ to - from + 1 = m /\ \A i \in 1 .. m : from + i - 1 = told + i
    BY <1>3, <1>4, <1>6
  <2> QED
    BY <2>2, <2>3, <2>4
<1>8. told' + n' + Len(p') <= L /\ n' + Len(p') <= MaxCall
  BY <1>2, <1>3, <1>4, <1>7
<1>9. \A i \in 1 .. m : told + 0 + i = told + i
  BY <1>3, <1>4
<1> QED
  BY <1>2, <1>7, <1>8, <1>9 DEF CallOK, L

\* A call returns: the caller goes on behind what it was told.
LEMMA ReturnsKeeps ==
  ASSUME CallOK, NEW c \in 0 .. n + Len(p), Returns(c)
  PROVE  CallOK' /\ told' = told + c /\ n' = 0 /\ p' = <<>> /\ mode' = "idle"
         /\ UNCHANGED <<kind, stream>>
<1>1. told' = told + c /\ n' = 0 /\ p' = <<>> /\ mode' = "idle" /\ eof' = "eof"
      /\ UNCHANGED <<kind, stream>>
  BY DEF Returns
<1> DEFINE l == Len(p)
           L == Len(stream)
<1>2. l \in Nat /\ L \in Nat /\ told \in Nat /\ n \in Nat /\ told + n + l <= L /\ MaxCall \in Nat
  BY StreamAssumption DEF CallOK
<1>3. c \in 0 .. n + l
  OBVIOUS
<1> HIDE DEF l, L
<1>4. told + c \in Nat /\ told + c <= L
  BY <1>2, <1>3
<1>5. told' \in Nat /\ n' \in Nat /\ told' + n' + 0 <= L /\ n' + 0 <= MaxCall
  BY <1>1, <1>2, <1>4
<1> QED
  BY <1>1, <1>5, Nothing DEF CallOK, L

\* A call goes on behind m more bytes.
LEMMA ContinuesKeeps ==
  ASSUME CallOK, NEW m \in 0 .. Len(p), Continues(m), mode \in {"write", "readFrom"}
  PROVE  CallOK' /\ n' = n + m /\ Len(p') = Len(p) - m
         /\ UNCHANGED <<kind, stream, told, mode>>
<1>1. n' = n + m /\ p' = DropFirst(p, m) /\ UNCHANGED <<kind, stream, told, mode, eof>>
  BY DEF Continues
<1> DEFINE l == Len(p)
           L == Len(stream)
<1>2. /\ l \in Nat /\ L \in Nat /\ told \in Nat /\ n \in Nat /\ told + n + l <= L
      /\ MaxCall \in Nat /\ n + l <= MaxCall /\ m \in 0 .. l
      /\ \A i \in 1 .. l : p[i] = stream[told + n + i]
  BY StreamAssumption DEF CallOK
<1>3. /\ p' \in Seq(AnyByte) /\ Len(p') = IF m < l THEN l - m ELSE 0
      /\ \A i \in 1 .. l - m : p'[i] = p[m + i]
  <2>1. p \in Seq(AnyByte) /\ m \in Nat
    BY <1>2 DEF CallOK
  <2>2. /\ DropFirst(p, m) \in Seq(AnyByte)
        /\ Len(DropFirst(p, m)) = IF m < Len(p) THEN Len(p) - m ELSE 0
        /\ \A i \in 1 .. Len(p) - m : DropFirst(p, m)[i] = p[m + i]
    BY <2>1, DropFirstProperties
  <2> QED
    BY <1>1, <2>2
<1> HIDE DEF l, L
<1>4. Len(p') = l - m
  BY <1>2, <1>3
<1>5. ASSUME NEW i \in 1 .. l - m PROVE p'[i] = stream[told' + n' + i]
  <2>1. m + i \in 1 .. l /\ told + n + (m + i) = told + (n + m) + i
    BY <1>2
  <2> QED
    BY <1>1, <1>2, <1>3, <2>1
<1>6. /\ told' \in Nat /\ n' \in Nat /\ told' + n' + (l - m) <= L
      /\ n' + (l - m) <= MaxCall
  BY <1>1, <1>2
<1> QED
  BY <1>1, <1>3, <1>4, <1>5, <1>6 DEF CallOK, l, L

\* A copy breaks.
LEMMA BreaksKeeps ==
  ASSUME CallOK, Breaks
  PROVE  CallOK' /\ mode' = "broken" /\ n' = 0 /\ p' = <<>> /\ UNCHANGED <<kind, stream, told>>
<1>1. mode' = "broken" /\ n' = 0 /\ p' = <<>> /\ UNCHANGED <<kind, stream, told, eof>>
  BY DEF Breaks
<1>2. Len(p) \in Nat /\ Len(stream) \in Nat /\ told \in Nat /\ n \in Nat /\ MaxCall \in Nat
      /\ told + n + Len(p) <= Len(stream)
  BY StreamAssumption DEF CallOK
<1>3. told + 0 + 0 <= Len(stream) /\ 0 + 0 <= MaxCall
  BY <1>2
<1> QED
  BY <1>1, <1>3, Nothing DEF CallOK

\* The base takes the first k bytes of data, behind what it has.
LEMMA AcceptsKeeps ==
  ASSUME WireOK, NEW data \in Seq(AnyByte), NEW k \in 0 .. Len(data), Accepts(data, k)
  PROVE  /\ WireOK' /\ Len(wire') = Len(wire) + k /\ Len(wire) \in Nat
         /\ \A i \in 1 .. Len(wire) : wire'[i] = wire[i]
         /\ \A i \in 1 .. k : wire'[Len(wire) + i] = data[i]
         /\ cuts \subseteq cuts' /\ (k # 0 => Len(wire') \in cuts')
<1> DEFINE part == SubSeq(data, 1, k)
<1>1. k \in Int /\ k >= 0 /\ \A i \in 1 .. k : data[i] \in AnyByte
  OBVIOUS
<1>2. /\ part \in Seq(AnyByte) /\ Len(part) = IF 1 <= k THEN k - 1 + 1 ELSE 0
      /\ \A i \in 1 .. k - 1 + 1 : part[i] = data[1 + i - 1]
  BY <1>1, SubSeqProperties
<1> HIDE DEF part
<1>3. Len(part) = k /\ \A i \in 1 .. k : part[i] = data[i]
  <2>1. k - 1 + 1 = k /\ (IF 1 <= k THEN k - 1 + 1 ELSE 0) = k /\ \A i \in 1 .. k : 1 + i - 1 = i
    BY <1>1
  <2> QED
    BY <1>2, <2>1
<1>4. wire' = wire \o part /\ cuts' = IF k = 0 THEN cuts ELSE cuts \cup {Len(wire) + k}
  BY DEF Accepts, part
<1>5. /\ wire' \in Seq(AnyByte) /\ Len(wire') = Len(wire) + Len(part) /\ Len(wire) \in Nat
      /\ \A i \in 1 .. Len(wire) : wire'[i] = wire[i]
      /\ \A i \in 1 .. Len(part) : wire'[Len(wire) + i] = part[i]
  <2>1. wire \in Seq(AnyByte) /\ part \in Seq(AnyByte)
    BY <1>2 DEF WireOK
  <2>2. /\ wire \o part \in Seq(AnyByte) /\ Len(wire \o part) = Len(wire) + Len(part)
        /\ Len(wire) \in Nat
        /\ \A i \in 1 .. Len(wire) : (wire \o part)[i] = wire[i]
        /\ \A i \in 1 .. Len(part) : (wire \o part)[Len(wire) + i] = part[i]
    BY <2>1, JoinProperties
  <2> QED
    BY <1>4, <2>2
<1>6. cuts' \subseteq 1 .. Len(wire')
  <2>1. k # 0 => Len(wire) + k \in 1 .. Len(wire) + k
    BY <1>1, <1>5
  <2>2. \A i \in 1 .. Len(wire) : i \in 1 .. Len(wire) + k
    BY <1>1, <1>5
  <2> QED
    BY <1>3, <1>4, <1>5, <2>1, <2>2 DEF WireOK
<1> QED
  BY <1>3, <1>4, <1>5, <1>6 DEF WireOK

(* -------------------------------- split --------------------------------- *)
Segment == [count : Nat \ {0}, bytes : Nat \ {0}]
Useful(s) == s.count > 0 /\ s.bytes > 0

\* Some number of a set of them is the least.
LEMMA LeastOf == ASSUME NEW T, T \subseteq Nat, T # {} PROVE \E m \in T : \A k \in T : m <= k
<1> DEFINE R == OpToRel(<, Nat)
<1>1. IsWellFoundedOn(R, Nat)
  BY NatLessThanWellFounded
<1>2. \A x, y \in Nat : y < x => <<y, x>> \in R
  BY DEF OpToRel
<1> HIDE DEF R
<1>3. PICK x \in T : \A y \in T : ~(<<y, x>> \in R)
  BY <1>1, WFMin
<1>4. \A y \in T : ~(y < x) /\ y \in Nat /\ x \in Nat
  BY <1>2, <1>3
<1>5. \A y \in T : x <= y
  BY <1>4
<1> QED
  BY <1>5

\* What CleanSplits keeps of splits from i on, given what it keeps of the rest.
KeepFrom(splits, i, rest) ==
  IF i > Len(splits) THEN <<>>
  ELSE IF splits[i].count > 0 /\ splits[i].bytes > 0 THEN <<splits[i]>> \o rest ELSE rest

Kept(splits) ==
  CHOOSE f : f = [i \in 1 .. Len(splits) + 1 |-> KeepFrom(splits, i, f[i + 1])]

\* A split that does something is put in front.
LEMMA KeepFromType ==
  ASSUME NEW splits \in Seq([count : Int, bytes : Int]), NEW i \in 1 .. Len(splits) + 1,
         NEW rest \in Seq(Segment)
  PROVE  KeepFrom(splits, i, rest) \in Seq(Segment)
<1>1. CASE i > Len(splits)
  BY <1>1, EmptySeq DEF KeepFrom
<1>2. CASE ~(i > Len(splits))
  <2>1. splits[i] \in [count : Int, bytes : Int]
    <3>1. Len(splits) \in Nat /\ i \in 1 .. Len(splits)
      BY <1>2
    <3> QED
      BY <3>1, ElementOfSeq
  <2>2. CASE splits[i].count > 0 /\ splits[i].bytes > 0
    <3>1. splits[i] \in Segment
      BY <2>1, <2>2 DEF Segment
    <3>2. <<splits[i]>> \in Seq(Segment)
      BY <3>1
    <3>3. <<splits[i]>> \o rest \in Seq(Segment)
      BY <3>2, ConcatProperties
    <3> QED
      BY <1>2, <2>2, <3>3 DEF KeepFrom
  <2>3. CASE ~(splits[i].count > 0 /\ splits[i].bytes > 0)
    BY <1>2, <2>3 DEF KeepFrom
  <2> QED
    BY <2>2, <2>3
<1> QED
  BY <1>1, <1>2

\* There is a function that keeps what CleanSplits should: from the last k
\* splits on there is one, whatever k is.
LEMMA KeptExists ==
  ASSUME NEW splits \in Seq([count : Int, bytes : Int])
  PROVE  /\ Kept(splits) = [i \in 1 .. Len(splits) + 1 |->
                              KeepFrom(splits, i, Kept(splits)[i + 1])]
         /\ Kept(splits) \in [1 .. Len(splits) + 1 -> Seq(Segment)]
<1> DEFINE L == Len(splits)
           Does(g, k) == \A i \in L + 1 - k .. L + 1 : g[i] = KeepFrom(splits, i, g[i + 1])
           Can(k) == \E g \in [L + 1 - k .. L + 1 -> Seq(Segment)] : Does(g, k)
           Cannot == {k \in 0 .. L : ~Can(k)}
<1>1. L \in Nat
  OBVIOUS
<1>2. Can(0)
  <2> DEFINE g == [i \in {L + 1} |-> <<>>]
  <2>1. L + 1 - 0 .. L + 1 = {L + 1}
    BY <1>1
  <2>2. g \in [L + 1 - 0 .. L + 1 -> Seq(Segment)]
    BY <2>1, EmptySeq
  <2>3. g[L + 1] = KeepFrom(splits, L + 1, g[L + 1 + 1])
    <3>1. L + 1 > L
      BY <1>1
    <3> QED
      BY <3>1 DEF KeepFrom
  <2>4. Does(g, 0)
    BY <2>1, <2>3
  <2> HIDE DEF g, Does
  <2> QED
    BY <2>2, <2>4
<1>3. ASSUME NEW k \in 0 .. L, k # 0, Can(k - 1) PROVE Can(k)
  <2>1. PICK g \in [L + 1 - (k - 1) .. L + 1 -> Seq(Segment)] : Does(g, k - 1)
    BY <1>3
  <2> DEFINE a == L + 1 - k
             G == [i \in a .. L + 1 |-> IF i = a THEN KeepFrom(splits, a, g[a + 1]) ELSE g[i]]
  <2>2. /\ a \in Nat /\ a \in 1 .. L /\ L + 1 - (k - 1) = a + 1
        /\ a + 1 \in a + 1 .. L + 1 /\ a \in a .. L + 1
    BY <1>1, <1>3
  <2> HIDE DEF a
  <2>3. g \in [a + 1 .. L + 1 -> Seq(Segment)]
    BY <2>1, <2>2
  <2>4. KeepFrom(splits, a, g[a + 1]) \in Seq(Segment)
    <3>1. g[a + 1] \in Seq(Segment)
      BY <2>2, <2>3
    <3>2. a \in 1 .. Len(splits) + 1
      BY <1>1, <2>2
    <3> QED
      BY <3>1, <3>2, KeepFromType
  <2>5. \A i \in a .. L + 1 : i # a => i \in a + 1 .. L + 1
    BY <1>1, <2>2
  <2>6. G \in [a .. L + 1 -> Seq(Segment)]
    BY <2>3, <2>4, <2>5
  <2>7. ASSUME NEW i \in a .. L + 1 PROVE G[i] = KeepFrom(splits, i, G[i + 1])
    <3>1. i + 1 # a /\ (i \in 1 .. L => i + 1 \in a .. L + 1)
      BY <1>1, <2>2
    <3>2. CASE i = a
      BY <2>2, <3>1, <3>2
    <3>3. CASE i # a
      <4>1. G[i] = g[i] /\ g[i] = KeepFrom(splits, i, g[i + 1])
        BY <2>1, <2>2, <2>5, <3>3
      <4>2. CASE i \in 1 .. L
        BY <3>1, <4>1, <4>2
      <4>3. CASE i \notin 1 .. L
        <5>1. i > Len(splits)
          BY <1>1, <2>2, <4>3
        <5> QED
          BY <4>1, <5>1 DEF KeepFrom
      <4> QED
        BY <4>2, <4>3
    <3> QED
      BY <3>2, <3>3
  <2> HIDE DEF G
  <2> QED
    BY <2>6, <2>7 DEF a
<1>4. Cannot = {}
  <2> SUFFICES ASSUME Cannot # {} PROVE FALSE
    OBVIOUS
  <2> HIDE DEF Can
  <2>1. Cannot \subseteq Nat
    BY <1>1
  <2> HIDE DEF Cannot
  <2>2. PICK k \in Cannot : \A j \in Cannot : k <= j
    BY <2>1, LeastOf
  <2> USE DEF Cannot
  <2>3. k \in 0 .. L /\ ~Can(k)
    BY <2>2
  <2>4. k # 0
    BY <1>2, <2>3
  <2>5. k - 1 \in 0 .. L /\ ~(k <= k - 1)
    BY <1>1, <2>3, <2>4
  <2>6. Can(k - 1)
    BY <2>2, <2>5
  <2> QED
    BY <1>3, <2>3, <2>4, <2>6
<1>5. PICK g \in [1 .. L + 1 -> Seq(Segment)] :
        \A i \in 1 .. L + 1 : g[i] = KeepFrom(splits, i, g[i + 1])
  <2>1. L \in 0 .. L /\ L + 1 - L = 1
    BY <1>1
  <2>2. Can(L)
    BY <1>4, <2>1
  <2> QED
    BY <2>1, <2>2
<1>6. g = [i \in 1 .. L + 1 |-> KeepFrom(splits, i, g[i + 1])]
  BY <1>5
<1>7. Kept(splits) = [i \in 1 .. L + 1 |-> KeepFrom(splits, i, Kept(splits)[i + 1])]
  BY <1>6 DEF Kept
<1>8. \A i \in 1 .. L + 1 : Kept(splits)[i] = KeepFrom(splits, i, Kept(splits)[i + 1])
  BY <1>7
<1>9. \A i \in 1 .. L + 1 : Kept(splits)[i] \in Seq(Segment)
  <2> DEFINE Untyped == {k \in 0 .. L : Kept(splits)[L + 1 - k] \notin Seq(Segment)}
  <2>1. ASSUME Untyped # {} PROVE FALSE
    <3>1. Untyped \subseteq Nat
      BY <1>1
    <3> HIDE DEF Untyped
    <3>2. PICK k \in Untyped : \A j \in Untyped : k <= j
      BY <2>1, <3>1, LeastOf
    <3> USE DEF Untyped
    <3>3. k \in 0 .. L /\ Kept(splits)[L + 1 - k] \notin Seq(Segment) /\ L + 1 - k \in 1 .. L + 1
      BY <1>1, <3>2
    <3>4. CASE k = 0
      <4>1. L + 1 - k > L
        BY <1>1, <3>4
      <4>2. Kept(splits)[L + 1 - k] = <<>>
        BY <1>8, <3>3, <4>1 DEF KeepFrom
      <4> QED
        BY <3>3, <4>2, EmptySeq
    <3>5. CASE k # 0
      <4>1. k - 1 \in 0 .. L /\ ~(k <= k - 1) /\ L + 1 - (k - 1) = (L + 1 - k) + 1
        BY <1>1, <3>3, <3>5
      <4>2. Kept(splits)[(L + 1 - k) + 1] \in Seq(Segment)
        BY <3>2, <4>1
      <4>3. KeepFrom(splits, L + 1 - k, Kept(splits)[(L + 1 - k) + 1]) \in Seq(Segment)
        BY <3>3, <4>2, KeepFromType
      <4> QED
        BY <1>8, <3>3, <4>3
    <3> QED
      BY <3>4, <3>5
  <2>2. ASSUME NEW i \in 1 .. L + 1 PROVE Kept(splits)[i] \in Seq(Segment)
    <3>1. L + 1 - i \in 0 .. L /\ L + 1 - (L + 1 - i) = i
      BY <1>1
    <3> QED
      BY <2>1, <3>1
  <2> QED
    BY <2>2
<1> QED
  BY <1>7, <1>9

\* CleanSplits is what it keeps from the first split on.
LEMMA CleanIsKept ==
  ASSUME NEW splits \in Seq([count : Int, bytes : Int])
  PROVE  CleanSplits(splits) = Kept(splits)[1] /\ CleanSplits(splits) \in Seq(Segment)
<1>1. CleanSplits(splits) = Kept(splits)[1]
  BY DEF CleanSplits, Kept, KeepFrom
<1>2. 1 \in 1 .. Len(splits) + 1
  OBVIOUS
<1> QED
  BY <1>1, <1>2, KeptExists

(* --------------------------------- types -------------------------------- *)
SplitOK ==
  /\ plan \in Seq([count : Int, bytes : Int])
  /\ cleanSplits \in Seq(Segment) /\ nextSplitBytes \in Nat

\* A hello is collected by calls that have written nothing of their data yet.
HelloOK ==
  /\ splitLen \in Int /\ phase \in {"collecting", "flushing", "done"}
  /\ readBroke \in BOOLEAN /\ helloBuf \in Seq(AnyByte) /\ record \in Seq(AnyByte)
  /\ kind = "hello" /\ phase = "collecting" =>
       n = 0 /\ Len(helloBuf) < HelloTarget(helloBuf)

Gathering == ~recDone /\ tlsHdr = 0

\* Until its header is complete the record is not begun; then there are two
\* records of a header and some data each, and the first is not written yet.
RecOK ==
  /\ hdr \in Seq(AnyByte) /\ Len(hdr) <= HeaderLen /\ tlsHdr \in 0 .. MaxRecord
  /\ recDone \in BOOLEAN /\ r1Size \in Nat /\ r2Size \in Nat
  /\ r1Written \in 0 .. 2 * HeaderLen + MaxRecord
  /\ kind = "reclen" /\ Gathering => n = 0 /\ r1Written = 0 /\ Len(hdr) < HeaderLen
  /\ ~recDone /\ tlsHdr # 0 =>
       /\ r1Size \in HeaderLen + 1 .. HeaderLen + MaxRecord
       /\ r2Size \in HeaderLen + 1 .. HeaderLen + MaxRecord
       /\ Len(hdr) = HeaderLen /\ r1Written < r1Size

\* The hop limit is lowered for one write, and stays so only if it could not be
\* put back; in a Write nothing is written before the write it is lowered for.
DisorderOK ==
  /\ writesToDisorder \in Int /\ hopLimit \in {"default", "one"}
  /\ restoreFailed \in BOOLEAN /\ lowHopWrites \in 0 .. 2
  /\ restoreFailed => writesToDisorder < 0
  /\ restoreFailed \/ ( /\ hopLimit = "default"
                        /\ lowHopWrites <= IF writesToDisorder >= 0 THEN 0 ELSE 1 )
  /\ kind = "disorder" /\ mode = "write" /\ p # <<>> => n = 0

TypeInv == CallOK /\ WireOK /\ SplitOK /\ HelloOK /\ RecOK /\ DisorderOK

\* How a call goes on behind m more bytes of its data.
Moves(m) == Returns(n + m) \/ Continues(m) \/ Breaks

\* However it does, it has carried m bytes more, unless they are lost.
LEMMA MovesKeeps ==
  ASSUME CallOK, mode \in {"write", "readFrom"}, NEW m \in 0 .. Len(p), Moves(m)
  PROVE  /\ CallOK' /\ UNCHANGED <<kind, stream>>
         /\ mode' # "broken" => told' + n' = told + n + m
         /\ mode' = mode \/ (n' = 0 /\ p' = <<>>)
<1>1. told \in Nat /\ n \in Nat /\ Len(p) \in Nat
  BY DEF CallOK
<1>2. CASE Returns(n + m)
  <2>1. n + m \in 0 .. n + Len(p) /\ told + (n + m) + 0 = told + n + m
    BY <1>1
  <2>2. CallOK' /\ told' = told + (n + m) /\ n' = 0 /\ p' = <<>> /\ UNCHANGED <<kind, stream>>
    BY <1>2, <2>1, ReturnsKeeps
  <2> QED
    BY <2>1, <2>2
<1>3. CASE Continues(m)
  <2>1. CallOK' /\ n' = n + m /\ UNCHANGED <<kind, stream, told, mode>>
    BY <1>3, ContinuesKeeps
  <2> QED
    BY <1>1, <2>1
<1>4. CASE Breaks
  <2>1. CallOK' /\ mode' = "broken" /\ n' = 0 /\ p' = <<>> /\ UNCHANGED <<kind, stream>>
    BY <1>4, BreaksKeeps
  <2> QED
    BY <2>1
<1> QED
  BY <1>2, <1>3, <1>4 DEF Moves

\* Nothing reaches the base.
LEMMA WireStays == ASSUME WireOK, UNCHANGED <<wire, cuts>> PROVE WireOK'
  BY DEF WireOK

\* What is known of a writer that is not the connection's own stays so.
LEMMA OthersStay ==
  ASSUME TypeInv, CallOK', UNCHANGED kind
  PROVE  /\ UNCHANGED splitVars => SplitOK'
         /\ UNCHANGED fragVars /\ (n' = n \/ n' = 0 \/ kind \notin {"hello", "reclen"})
              => HelloOK' /\ RecOK'
         /\ UNCHANGED <<splitLen, helloVars>> /\ kind # "hello" => HelloOK'
         /\ UNCHANGED recVars /\ kind # "reclen" => RecOK'
         /\ UNCHANGED disorderVars /\ (kind # "disorder" \/ n' = 0) => DisorderOK'
<1>1. UNCHANGED splitVars => SplitOK'
  BY DEF TypeInv, SplitOK, splitVars
<1>2. ASSUME UNCHANGED <<splitLen, helloVars>>, n' = n \/ n' = 0 \/ kind # "hello"
      PROVE HelloOK'
  BY <1>2 DEF TypeInv, HelloOK, helloVars, HelloTarget, Validate, PayloadLen
<1>3. ASSUME UNCHANGED recVars, n' = n \/ n' = 0 \/ kind # "reclen"
      PROVE RecOK'
  BY <1>3 DEF TypeInv, RecOK, recVars, Gathering
<1>4. ASSUME UNCHANGED disorderVars, kind # "disorder" \/ n' = 0 PROVE DisorderOK'
  BY <1>4 DEF TypeInv, DisorderOK, disorderVars
<1>5. UNCHANGED fragVars => UNCHANGED <<splitLen, helloVars>> /\ UNCHANGED recVars
  BY DEF fragVars
<1> QED
  BY <1>1, <1>2, <1>3, <1>4, <1>5

(* The iterator gives lengths. *)
\* What AfterSegment leaves are segments, and the length is one's or none.
LEMMA SegmentsStay ==
  ASSUME NEW s \in Seq(Segment)
  PROVE  AfterSegment(s) \in Seq(Segment) /\ NextSegmentLength(s) \in Nat
<1>1. CASE s = <<>>
  BY <1>1, EmptySeq DEF AfterSegment, NextSegmentLength
<1>2. CASE s # <<>>
  <2>1. Head(s) \in Segment /\ Tail(s) \in Seq(Segment)
    BY <1>2, HeadTailProperties
  <2>2. NextSegmentLength(s) \in Nat
    BY <1>2, <2>1 DEF NextSegmentLength, Segment
  <2>3. CASE Head(s).count = 1
    BY <1>2, <2>1, <2>2, <2>3 DEF AfterSegment
  <2>4. CASE Head(s).count # 1
    <3> DEFINE h == [Head(s) EXCEPT !.count = @ - 1]
    <3>1. h \in Segment
      BY <2>1, <2>4 DEF Segment
    <3>2. <<h>> \in Seq(Segment)
      BY <3>1
    <3> HIDE DEF h
    <3>3. <<h>> \o Tail(s) \in Seq(Segment)
      BY <2>1, <3>2, ConcatProperties
    <3> QED
      BY <1>2, <2>2, <2>4, <3>3 DEF AfterSegment, h
  <2> QED
    BY <2>3, <2>4
<1> QED
  BY <1>1, <1>2

\* A writer begins at the first split.
LEMMA SplitBegins == ASSUME NewSplitWriter PROVE SplitOK
<1>1. plan \in Seq([count : Int, bytes : Int])
  BY SplitAssumption DEF NewSplitWriter
<1>2. CleanSplits(plan) \in Seq(Segment)
  BY <1>1, CleanIsKept
<1>3. nextSplitBytes = NextSegmentLength(CleanSplits(plan))
      /\ cleanSplits = AfterSegment(CleanSplits(plan))
  BY DEF NewSplitWriter
<1> QED
  BY <1>1, <1>2, <1>3, SegmentsStay DEF SplitOK

\* Bytes that leave count to the next split.
LEMMA AdvanceKeeps == ASSUME SplitOK, NEW k \in Nat, Advance(k) PROVE SplitOK'
<1>1. CASE nextSplitBytes # 0 /\ k >= nextSplitBytes
  BY <1>1, SegmentsStay DEF SplitOK, Advance
<1>2. CASE ~(nextSplitBytes # 0 /\ k >= nextSplitBytes)
  BY <1>2 DEF SplitOK, Advance
<1> QED
  BY <1>1, <1>2

(* A step of the split writer: some of its data leaves, never across a split. *)
Crosses(k) == nextSplitBytes # 0 /\ k > nextSplitBytes

\* Each step of it sends some of its data, if any, and counts it.
LEMMA SplitStep ==
  ASSUME TypeInv, SplitNext
  PROVE  /\ kind = "split" /\ mode \in {"write", "readFrom"}
         /\ \/ UNCHANGED <<wire, cuts, splitVars>> /\ Moves(0)
            \/ \E k \in 0 .. Len(p) : Accepts(p, k) /\ Advance(k) /\ Moves(k) /\ ~Crosses(k)
<1>1. Len(p) \in Nat /\ nextSplitBytes \in Nat /\ p \in Seq(AnyByte) /\ n \in Nat
  BY DEF TypeInv, CallOK, SplitOK
<1>2. ASSUME NEW data \in Seq(AnyByte), NEW k \in 0 .. Len(data), Accepts(data, k),
             Len(data) <= Len(p), \A i \in 1 .. Len(data) : data[i] = p[i]
      PROVE  k \in 0 .. Len(p) /\ Accepts(p, k)
  <2>1. k \in 0 .. Len(p) /\ Len(data) \in Nat
    BY <1>1, <1>2
  <2>2. \A i \in 1 .. k : data[i] = p[i]
    BY <1>1, <1>2, <2>1
  <2>3. SubSeq(data, 1, k) = SubSeq(p, 1, k)
    BY <2>2
  <2> QED
    BY <1>2, <2>1, <2>3 DEF Accepts
<1>3. ASSUME NEW k \in Nat
      PROVE  LET f == FirstOf(p, k)
             IN /\ f \in Seq(AnyByte) /\ Len(f) = Least(k, Len(p)) /\ Len(f) <= Len(p)
                /\ \A i \in 1 .. Len(f) : f[i] = p[i]
  <2>1. Least(k, Len(p)) <= Len(p)
    BY <1>1 DEF Least
  <2> QED
    BY <1>1, <2>1, FirstOfProperties
<1>4. CASE WriteSegment
  <2> DEFINE d == FirstOf(p, nextSplitBytes)
  <2>1. PICK k \in 0 .. Len(d) :
          /\ Accepts(d, k) /\ Advance(k)
          /\ IF k < Len(d) THEN Returns(n + k) ELSE Continues(k)
    BY <1>4 DEF WriteSegment
  <2>2. /\ d \in Seq(AnyByte) /\ Len(d) = Least(nextSplitBytes, Len(p)) /\ Len(d) <= Len(p)
        /\ \A i \in 1 .. Len(d) : d[i] = p[i]
    BY <1>1, <1>3
  <2> HIDE DEF d
  <2>3. k \in 0 .. Len(p) /\ Accepts(p, k)
    BY <1>2, <2>1, <2>2
  <2>4. ~Crosses(k)
    BY <1>1, <2>1, <2>2 DEF Crosses, Least
  <2>5. kind = "split" /\ mode = "write"
    BY <1>4 DEF WriteSegment
  <2> QED
    BY <2>1, <2>3, <2>4, <2>5 DEF Moves
<1>5. CASE WriteRest
  <2>1. PICK k \in 0 .. Len(p) : Accepts(p, k) /\ Advance(k) /\ Returns(n + k)
    BY <1>5 DEF WriteRest
  <2>2. ~Crosses(k)
    BY <1>1, <1>5, <2>1 DEF Crosses, WriteRest, SplitDue
  <2>3. kind = "split" /\ mode = "write"
    BY <1>5 DEF WriteRest
  <2> QED
    BY <2>1, <2>2, <2>3 DEF Moves
<1>6. CASE ReadFromChunk
  <2> DEFINE seen == IF nextSplitBytes > 0 THEN FirstOf(p, nextSplitBytes) ELSE p
  <2>1. PICK size \in 1 .. Len(seen) : \E k \in 0 .. size :
          /\ Accepts(FirstOf(seen, size), k) /\ Advance(k)
          /\ IF k < size THEN Breaks ELSE Continues(k)
    BY <1>6 DEF ReadFromChunk
  <2>2. PICK k \in 0 .. size :
          /\ Accepts(FirstOf(seen, size), k) /\ Advance(k)
          /\ IF k < size THEN Breaks ELSE Continues(k)
    BY <2>1
  <2>3. /\ seen \in Seq(AnyByte) /\ Len(seen) <= Len(p) /\ \A i \in 1 .. Len(seen) : seen[i] = p[i]
        /\ nextSplitBytes > 0 => Len(seen) <= nextSplitBytes
    <3>1. CASE nextSplitBytes > 0
      <4>1. Least(nextSplitBytes, Len(p)) <= nextSplitBytes
        BY <1>1 DEF Least
      <4> QED
        BY <1>1, <1>3, <3>1, <4>1
    <3>2. CASE ~(nextSplitBytes > 0)
      BY <1>1, <3>2
    <3> QED
      BY <3>1, <3>2
  <2> HIDE DEF seen
  <2>4. size \in Nat /\ Len(seen) \in Nat /\ size <= Len(seen)
    BY <2>1, <2>3
  <2>5. /\ FirstOf(seen, size) \in Seq(AnyByte) /\ Len(FirstOf(seen, size)) = Least(size, Len(seen))
        /\ \A i \in 1 .. Least(size, Len(seen)) : FirstOf(seen, size)[i] = seen[i]
    BY <2>3, <2>4, FirstOfProperties
  <2>6. Least(size, Len(seen)) = size /\ size <= Len(p) /\ \A i \in 1 .. size : i \in 1 .. Len(seen)
    BY <1>1, <2>3, <2>4 DEF Least
  <2>7. /\ Len(FirstOf(seen, size)) = size /\ k \in 0 .. Len(FirstOf(seen, size))
        /\ \A i \in 1 .. size : FirstOf(seen, size)[i] = p[i]
    BY <2>3, <2>5, <2>6
  <2>8. k \in 0 .. Len(p) /\ Accepts(p, k)
    BY <1>2, <2>2, <2>5, <2>6, <2>7
  <2>9. ~Crosses(k)
    BY <1>1, <2>2, <2>3, <2>4 DEF Crosses
  <2>10. kind = "split" /\ mode = "readFrom"
    BY <1>6 DEF ReadFromChunk
  <2> QED
    BY <2>2, <2>8, <2>9, <2>10 DEF Moves
<1>7. CASE ReadFromEnds
  <2>1. n = n + 0
    BY <1>1
  <2> QED
    BY <1>7, <2>1 DEF ReadFromEnds, Moves
<1> QED
  BY <1>4, <1>5, <1>6, <1>7 DEF SplitNext

\* The split writer keeps the types.
LEMMA SplitKeeps ==
  ASSUME TypeInv, SplitNext, UNCHANGED <<fragVars, disorderVars>>
  PROVE  TypeInv'
<1>1. kind = "split" /\ mode \in {"write", "readFrom"}
  BY SplitStep
<1>2. CallOK /\ WireOK /\ SplitOK /\ Len(p) \in Nat /\ p \in Seq(AnyByte)
  BY DEF TypeInv, CallOK
<1>3. CallOK' /\ WireOK' /\ SplitOK' /\ UNCHANGED kind
  <2>1. CASE UNCHANGED <<wire, cuts, splitVars>> /\ Moves(0)
    <3>1. 0 \in 0 .. Len(p)
      BY <1>2
    <3>2. CallOK' /\ UNCHANGED kind
      BY <1>1, <1>2, <2>1, <3>1, MovesKeeps
    <3>3. WireOK'
      BY <1>2, <2>1, WireStays
    <3>4. SplitOK'
      BY <2>1, <3>2, OthersStay
    <3> QED
      BY <3>2, <3>3, <3>4
  <2>2. ASSUME NEW k \in 0 .. Len(p), Accepts(p, k), Advance(k), Moves(k)
        PROVE  CallOK' /\ WireOK' /\ SplitOK' /\ UNCHANGED kind
    <3>1. CallOK' /\ UNCHANGED kind
      BY <1>1, <1>2, <2>2, MovesKeeps
    <3>2. WireOK'
      BY <1>2, <2>2, AcceptsKeeps
    <3>3. SplitOK'
      BY <1>2, <2>2, AdvanceKeeps
    <3> QED
      BY <3>1, <3>2, <3>3
  <2> QED
    BY <2>1, <2>2, SplitStep
<1>4. HelloOK' /\ RecOK' /\ DisorderOK'
  BY <1>1, <1>3, OthersStay
<1> QED
  BY <1>3, <1>4 DEF TypeInv

\* A write of the first lim of some bytes is a write of these bytes.
LEMMA PrefixAccepted ==
  ASSUME NEW x \in Seq(AnyByte), NEW lim \in Nat, NEW k \in 0 .. Len(FirstOf(x, lim)),
         Accepts(FirstOf(x, lim), k)
  PROVE  k \in 0 .. Len(x) /\ k <= lim /\ Accepts(x, k)
<1>1. /\ Len(FirstOf(x, lim)) = Least(lim, Len(x))
      /\ \A i \in 1 .. Least(lim, Len(x)) : FirstOf(x, lim)[i] = x[i]
  BY FirstOfProperties
<1>0. Len(x) \in Nat
  OBVIOUS
<1>2. k \in 0 .. Len(x) /\ k <= lim /\ k <= Least(lim, Len(x)) /\ Least(lim, Len(x)) \in Nat
  BY <1>0, <1>1 DEF Least
<1>3. \A i \in 1 .. k : FirstOf(x, lim)[i] = x[i]
  BY <1>1, <1>2
<1>4. SubSeq(FirstOf(x, lim), 1, k) = SubSeq(x, 1, k)
  BY <1>3
<1> QED
  BY <1>2, <1>4 DEF Accepts

\* A step that sends some bytes and goes on behind some of its data.
LEMMA SendsKeeps ==
  ASSUME CallOK, WireOK, mode \in {"write", "readFrom"}, NEW data \in Seq(AnyByte),
         NEW k \in 0 .. Len(data), NEW m \in 0 .. Len(p), Accepts(data, k), Moves(m)
  PROVE  CallOK' /\ WireOK' /\ UNCHANGED kind /\ (mode' = mode \/ (n' = 0 /\ p' = <<>>))
<1>1. CallOK' /\ UNCHANGED kind /\ (mode' = mode \/ (n' = 0 /\ p' = <<>>))
  BY MovesKeeps
<1>2. WireOK'
  BY AcceptsKeeps
<1> QED
  BY <1>1, <1>2

(* --------------------------- clientHelloFragWriter ----------------------- *)
\* What the buffer waits for: a header, or what that header says.
LEMMA TargetProperties ==
  ASSUME NEW b \in Seq(AnyByte)
  PROVE  /\ HelloTarget(b) \in Nat /\ HelloTarget(b) >= HeaderLen
         /\ Len(b) >= HeaderLen /\ Validate(b) =>
              PayloadLen(b) \in 1 .. MaxRecord /\ HelloTarget(b) = HeaderLen + PayloadLen(b)
<1>1. HeaderLen \in Nat \ {0} /\ MaxRecord \in Nat
  BY FragAssumption
<1>2. Validate(b) => PayloadLen(b) \in 1 .. MaxRecord
  BY DEF Validate
<1> DEFINE c == PayloadLen(b)
<1> HIDE DEF c
<1>3. CASE Len(b) >= HeaderLen /\ Validate(b)
  <2>1. c \in 1 .. MaxRecord /\ HelloTarget(b) = HeaderLen + c
    BY <1>2, <1>3 DEF c, HelloTarget
  <2>2. HeaderLen + c \in Nat /\ HeaderLen + c >= HeaderLen
    BY <1>1, <2>1
  <2> QED
    BY <2>1, <2>2 DEF c
<1>4. CASE ~(Len(b) >= HeaderLen /\ Validate(b))
  BY <1>1, <1>4 DEF HelloTarget
<1> QED
  BY <1>3, <1>4

\* What a hello is made into are bytes.
LEMMA SplitRecordType ==
  ASSUME NEW b \in Seq(AnyByte), splitLen \in Int
  PROVE  SplitRecord(b) \in Seq(AnyByte)
<1> DEFINE content == DropFirst(b, HeaderLen)
           headLen == Frag(Len(content))
<1>1. content \in Seq(AnyByte)
  BY DropFirstProperties, FragAssumption
<1> HIDE DEF content
<1>2. headLen \in Int /\ Len(content) \in Nat
  BY <1>1 DEF Frag
<1>3. CASE ~Splits(Len(content))
  BY <1>3 DEF SplitRecord, content
<1>4. CASE Splits(Len(content))
  <2>1. headLen \in Nat
    BY <1>2, <1>4 DEF Splits
  <2> HIDE DEF headLen
  <2>2. Header(headLen) \in Seq(AnyByte) /\ Header(Len(content) - headLen) \in Seq(AnyByte)
    <3>1. Len(content) - headLen \in Int
      BY <1>2
    <3> QED
      BY <1>2, <3>1, HeaderProperties
  <2>3. FirstOf(content, headLen) \in Seq(AnyByte) /\ DropFirst(content, headLen) \in Seq(AnyByte)
    BY <1>1, <2>1, FirstOfProperties, DropFirstProperties
  <2>4. Header(headLen) \o FirstOf(content, headLen) \o Header(Len(content) - headLen)
          \o DropFirst(content, headLen) \in Seq(AnyByte)
    BY <2>2, <2>3, ConcatProperties
  <2> QED
    BY <1>4, <2>4 DEF SplitRecord, content, headLen
<1> QED
  BY <1>3, <1>4

\* What a call adds to the hello: as much of its data as the hello misses.
LEMMA CollectStep ==
  ASSUME TypeInv, CollectHello
  PROVE  LET whole == helloBuf \o p
             target == HelloTarget(whole)
             buf == FirstOf(whole, target)
             m == Len(buf) - Len(helloBuf)
         IN /\ kind = "hello" /\ mode \in {"write", "readFrom"} /\ phase = "collecting" /\ n = 0
            /\ whole \in Seq(AnyByte) /\ Len(whole) = Len(helloBuf) + Len(p)
            /\ Len(helloBuf) \in Nat /\ target \in Nat /\ Len(helloBuf) < target
            /\ buf \in Seq(AnyByte) /\ Len(buf) = Least(target, Len(whole))
            /\ m \in 0 .. Len(p) /\ Moves(m)
            /\ UNCHANGED <<wire, cuts, splitLen, recVars>>
            /\ \/ /\ Len(whole) < target
                  /\ helloBuf' = buf /\ Returns(m) /\ UNCHANGED <<phase, record, readBroke>>
               \/ /\ phase' = "flushing" /\ helloBuf' = <<>> /\ Continues(m)
                  /\ \/ /\ Len(whole) >= target /\ readBroke' = FALSE
                        /\ record' = IF Validate(buf) THEN SplitRecord(buf) ELSE buf
                     \/ Len(whole) < target /\ readBroke' = TRUE /\ record' = buf
<1> DEFINE whole == helloBuf \o p
           target == HelloTarget(whole)
           buf == FirstOf(whole, target)
           m == Len(buf) - Len(helloBuf)
           broke == Len(whole) < target /\ mode = "readFrom" /\ eof = "error"
           lb == Len(helloBuf)
           lp == Len(p)
           lw == Len(whole)
           lf == Len(buf)
<1>1. /\ kind = "hello" /\ mode \in {"write", "readFrom"} /\ phase = "collecting"
      /\ UNCHANGED <<wire, cuts, splitLen, recVars>>
      /\ IF Len(whole) < target /\ ~broke
         THEN /\ helloBuf' = buf /\ Returns(m) /\ UNCHANGED <<phase, record, readBroke>>
         ELSE /\ record' = IF Len(whole) >= target /\ Validate(buf)
                           THEN SplitRecord(buf) ELSE buf
              /\ helloBuf' = <<>> /\ phase' = "flushing" /\ readBroke' = broke
              /\ Continues(m)
  BY DEF CollectHello
<1>2. /\ n = 0 /\ lb < HelloTarget(helloBuf) /\ helloBuf \in Seq(AnyByte) /\ p \in Seq(AnyByte)
      /\ HeaderLen \in Nat \ {0}
  BY <1>1, FragAssumption DEF TypeInv, HelloOK, CallOK
<1>3. /\ whole \in Seq(AnyByte) /\ lw = lb + lp /\ lb \in Nat /\ lp \in Nat
      /\ \A i \in 1 .. lb : whole[i] = helloBuf[i]
  BY <1>2, JoinProperties
<1> HIDE DEF whole, lb, lp, lw
<1>4. target \in Nat /\ target >= HeaderLen
  BY <1>3, TargetProperties
<1>5. lb < target
  <2>1. CASE lb < HeaderLen
    BY <1>2, <1>3, <1>4, <2>1
  <2>2. CASE ~(lb < HeaderLen)
    <3>1. lw >= HeaderLen /\ lb >= HeaderLen /\ lb # 0
      BY <1>2, <1>3, <2>2
    <3>2. Head(whole) = Head(helloBuf)
      <4>1. 1 \in 1 .. lb
        BY <1>3, <3>1
      <4>2. whole[1] = helloBuf[1]
        BY <1>3, <4>1
      <4> QED
        BY <4>2
    <3>3. target = HelloTarget(helloBuf)
      BY <3>1, <3>2 DEF HelloTarget, Validate, PayloadLen, lb, lw
    <3> QED
      BY <1>2, <3>3 DEF lb
  <2> QED
    BY <2>1, <2>2
<1> HIDE DEF target
<1>6. buf \in Seq(AnyByte) /\ lf = Least(target, lw)
  BY <1>3, <1>4, FirstOfProperties DEF lw
<1> HIDE DEF buf, lf
<1>7. m \in 0 .. lp /\ n + m = m
  <2>1. m = lf - lb
    BY DEF lf, lb
  <2> HIDE DEF m
  <2> QED
    BY <1>2, <1>3, <1>4, <1>5, <1>6, <2>1 DEF Least
<1> HIDE DEF m
<1>8. Moves(m)
  BY <1>1, <1>7 DEF Moves
<1>9. lw \in Nat /\ (lw >= target <=> ~(lw < target))
  BY <1>3, <1>4
<1>10. \/ /\ Len(whole) < target
          /\ helloBuf' = buf /\ Returns(m) /\ UNCHANGED <<phase, record, readBroke>>
       \/ /\ phase' = "flushing" /\ helloBuf' = <<>> /\ Continues(m)
          /\ \/ /\ Len(whole) >= target /\ readBroke' = FALSE
                /\ record' = IF Validate(buf) THEN SplitRecord(buf) ELSE buf
             \/ Len(whole) < target /\ readBroke' = TRUE /\ record' = buf
  BY <1>1, <1>9 DEF lw
<1> QED
  BY <1>1, <1>2, <1>3, <1>4, <1>5, <1>6, <1>7, <1>8, <1>10 DEF whole, target, buf, m, lb, lp, lw, lf

\* Collecting the hello keeps the types.
LEMMA CollectKeeps ==
  ASSUME TypeInv, CollectHello, UNCHANGED <<splitVars, disorderVars>>
  PROVE  TypeInv'
<1> DEFINE whole == helloBuf \o p
           target == HelloTarget(whole)
           buf == FirstOf(whole, target)
           m == Len(buf) - Len(helloBuf)
<1>1. /\ kind = "hello" /\ mode \in {"write", "readFrom"}
      /\ whole \in Seq(AnyByte) /\ target \in Nat
      /\ buf \in Seq(AnyByte) /\ Len(buf) = Least(target, Len(whole))
      /\ m \in 0 .. Len(p) /\ Moves(m)
      /\ UNCHANGED <<wire, cuts, splitLen, recVars>>
      /\ \/ /\ Len(whole) < target
            /\ helloBuf' = buf /\ Returns(m) /\ UNCHANGED <<phase, record, readBroke>>
         \/ /\ phase' = "flushing" /\ helloBuf' = <<>> /\ Continues(m)
            /\ \/ /\ Len(whole) >= target /\ readBroke' = FALSE
                  /\ record' = IF Validate(buf) THEN SplitRecord(buf) ELSE buf
               \/ Len(whole) < target /\ readBroke' = TRUE /\ record' = buf
  BY CollectStep
<1>2. Len(whole) < target => buf = whole
  <2> SUFFICES ASSUME Len(whole) < target PROVE buf = whole
    OBVIOUS
  <2> HIDE DEF whole, target
  <2>1. Len(whole) \in Nat /\ Least(target, Len(whole)) = Len(whole)
    BY <1>1 DEF Least
  <2>2. buf = SubSeq(whole, 1, Len(whole))
    BY <2>1 DEF FirstOf
  <2> QED
    BY <1>1, <2>2, SubSeqFull
<1> HIDE DEF whole, target, buf, m
<1>3. CallOK' /\ UNCHANGED kind
  BY <1>1, MovesKeeps DEF TypeInv
<1>4. WireOK'
  BY <1>1, WireStays DEF TypeInv
<1>5. SplitOK' /\ RecOK' /\ DisorderOK'
  BY <1>1, <1>3, OthersStay
<1>6. HelloOK'
  <2>1. splitLen \in Int /\ readBroke \in BOOLEAN /\ record \in Seq(AnyByte) /\ phase = "collecting"
    BY CollectStep DEF TypeInv, HelloOK
  <2>2. CASE /\ Len(whole) < target
             /\ helloBuf' = buf /\ Returns(m) /\ UNCHANGED <<phase, record, readBroke>>
    <3>1. n' = 0
      BY <2>2 DEF Returns
    <3>2. HelloTarget(helloBuf') = target /\ Len(helloBuf') < target /\ helloBuf' \in Seq(AnyByte)
      BY <1>1, <1>2, <2>2 DEF target
    <3>3. HelloTarget(helloBuf)' = HelloTarget(helloBuf')
      BY DEF HelloTarget, Validate, PayloadLen
    <3> QED
      BY <1>1, <2>1, <2>2, <3>1, <3>2, <3>3 DEF HelloOK
  <2>3. CASE /\ phase' = "flushing" /\ helloBuf' = <<>> /\ readBroke' \in BOOLEAN
             /\ record' = buf \/ record' = SplitRecord(buf)
    <3>1. record' \in Seq(AnyByte)
      BY <1>1, <2>1, <2>3, SplitRecordType
    <3> QED
      BY <1>1, <2>1, <2>3, <3>1, Nothing DEF HelloOK
  <2> QED
    BY <1>1, <2>2, <2>3
<1> QED
  BY <1>3, <1>4, <1>5, <1>6 DEF TypeInv

\* After the hello each step sends what is held back of it, or some of the data.
LEMMA FlushStep ==
  ASSUME TypeInv, FlushRecord
  PROVE  /\ kind = "hello" /\ mode \in {"write", "readFrom"} /\ phase = "flushing" /\ Moves(0)
         /\ UNCHANGED <<helloBuf, readBroke, splitLen, recVars>>
         /\ \E k \in 0 .. Len(record) :
              /\ Accepts(record, k) /\ record' = DropFirst(record, k)
              /\ phase' = IF k < Len(record) THEN "flushing" ELSE "done"
<1>1. n + 0 = n
  BY DEF TypeInv, CallOK
<1>2. /\ kind = "hello" /\ mode \in {"write", "readFrom"} /\ phase = "flushing"
      /\ UNCHANGED <<helloBuf, readBroke, splitLen, recVars>>
  BY DEF FlushRecord
<1>3. PICK k \in 0 .. Len(record) :
        /\ Accepts(record, k) /\ record' = DropFirst(record, k)
        /\ IF k < Len(record) THEN UNCHANGED phase /\ Returns(n)
           ELSE phase' = "done" /\ Continues(0)
  BY DEF FlushRecord
<1>4. Moves(0)
  BY <1>1, <1>3 DEF Moves
<1> QED
  BY <1>2, <1>3, <1>4

\* Flushing keeps the types.
LEMMA FlushKeeps ==
  ASSUME TypeInv, FlushRecord, UNCHANGED <<splitVars, disorderVars>>
  PROVE  TypeInv'
<1>1. /\ kind = "hello" /\ mode \in {"write", "readFrom"} /\ Moves(0)
      /\ UNCHANGED <<helloBuf, readBroke, splitLen, recVars>>
  BY FlushStep
<1>2. PICK k \in 0 .. Len(record) :
        /\ Accepts(record, k) /\ record' = DropFirst(record, k)
        /\ phase' = IF k < Len(record) THEN "flushing" ELSE "done"
  BY FlushStep
<1>3. record \in Seq(AnyByte) /\ 0 \in 0 .. Len(p) /\ k \in Nat
  BY DEF TypeInv, HelloOK, CallOK
<1>4. CallOK' /\ WireOK' /\ UNCHANGED kind
  BY <1>1, <1>2, <1>3, SendsKeeps DEF TypeInv
<1>5. SplitOK' /\ RecOK' /\ DisorderOK'
  BY <1>1, <1>4, OthersStay
<1>6. record' \in Seq(AnyByte)
  BY <1>2, <1>3, DropFirstProperties
<1>7. HelloOK'
  BY <1>1, <1>2, <1>6 DEF TypeInv, HelloOK
<1> QED
  BY <1>4, <1>5, <1>7 DEF TypeInv

\* Behind the hello the data goes straight to the base.
LEMMA AfterHelloStep ==
  ASSUME TypeInv, WriteAfterHello \/ CopyAfterHello
  PROVE  /\ kind = "hello" /\ mode \in {"write", "readFrom"} /\ phase = "done"
         /\ UNCHANGED fragVars
         /\ \/ UNCHANGED <<wire, cuts>> /\ Moves(0)
            \/ \E k \in 0 .. Len(p) : Accepts(p, k) /\ (Moves(k) \/ Breaks)
<1>1. Len(p) \in Nat /\ n \in Nat /\ n + 0 = n
  BY DEF TypeInv, CallOK
<1>2. CASE WriteAfterHello
  BY <1>2 DEF WriteAfterHello, Moves
<1>3. CASE CopyAfterHello
  <2>1. /\ kind = "hello" /\ mode = "readFrom" /\ phase = "done" /\ UNCHANGED fragVars
    BY <1>3 DEF CopyAfterHello
  <2>2. CASE p = <<>>
    BY <1>1, <1>3, <2>1, <2>2 DEF CopyAfterHello, Moves
  <2>3. CASE p # <<>>
    <3>1. PICK size \in 1 .. Len(p) : \E k \in 0 .. size :
            Accepts(p, k) /\ IF k < size THEN Breaks ELSE Continues(size)
      BY <1>3, <2>3 DEF CopyAfterHello
    <3>2. PICK k \in 0 .. size : Accepts(p, k) /\ IF k < size THEN Breaks ELSE Continues(size)
      BY <3>1
    <3>3. k \in 0 .. Len(p) /\ (~(k < size) => k = size)
      BY <1>1, <3>1, <3>2
    <3> QED
      BY <2>1, <3>2, <3>3 DEF Moves
  <2> QED
    BY <2>2, <2>3
<1> QED
  BY <1>2, <1>3

\* It keeps the types.
LEMMA AfterHelloKeeps ==
  ASSUME TypeInv, WriteAfterHello \/ CopyAfterHello, UNCHANGED <<splitVars, disorderVars>>
  PROVE  TypeInv'
<1>1. kind = "hello" /\ mode \in {"write", "readFrom"} /\ phase = "done" /\ UNCHANGED fragVars
  BY AfterHelloStep
<1>2. p \in Seq(AnyByte) /\ 0 \in 0 .. Len(p)
  BY DEF TypeInv, CallOK
<1>3. CallOK' /\ WireOK' /\ UNCHANGED kind
  <2>1. CASE UNCHANGED <<wire, cuts>> /\ Moves(0)
    BY <1>1, <1>2, <2>1, MovesKeeps, WireStays DEF TypeInv
  <2>2. ASSUME NEW k \in 0 .. Len(p), Accepts(p, k), Moves(k) \/ Breaks
        PROVE  CallOK' /\ WireOK' /\ UNCHANGED kind
    <3>1. Moves(k)
      BY <2>2 DEF Moves
    <3> QED
      BY <1>1, <1>2, <2>2, <3>1, SendsKeeps DEF TypeInv
  <2> QED
    BY <2>1, <2>2, AfterHelloStep
<1>4. SplitOK' /\ RecOK' /\ DisorderOK'
  <2>1. UNCHANGED recVars
    BY <1>1 DEF fragVars
  <2> QED
    BY <1>1, <1>3, <2>1, OthersStay
<1>5. HelloOK'
  BY <1>1 DEF TypeInv, HelloOK, fragVars, helloVars
<1> QED
  BY <1>3, <1>4, <1>5 DEF TypeInv

(* ---------------------------- recordLenFragWriter ------------------------ *)
\* The data that k bytes of a header and data behind it hold.
DataOf(head, k) == IF k <= Len(head) THEN 0 ELSE k - Len(head)

\* The header is collected from calls that have written nothing else yet.
LEMMA HeaderStep ==
  ASSUME TypeInv, CollectHeader
  PROVE  LET whole == FirstOf(hdr \o p, HeaderLen)
             m == Len(whole) - Len(hdr)
             len == PayloadLen(whole)
         IN /\ kind = "reclen" /\ mode \in {"write", "readFrom"} /\ Gathering
            /\ n = 0 /\ r1Written = 0 /\ Len(hdr) < HeaderLen
            /\ whole \in Seq(AnyByte) /\ m \in 0 .. Len(p) /\ Moves(m)
            /\ Len(whole) = Least(HeaderLen, Len(hdr) + Len(p))
            /\ UNCHANGED <<r1Written, wire, cuts, splitLen, helloVars>>
            /\ \/ /\ Len(whole) < HeaderLen /\ hdr' = whole /\ Returns(m)
                  /\ UNCHANGED <<tlsHdr, r1Size, r2Size, recDone>>
               \/ /\ Len(whole) = HeaderLen /\ Validate(whole) /\ Splits(len) /\ Continues(m)
                  /\ r1Size' = Frag(len) + HeaderLen /\ r2Size' = len - Frag(len) + HeaderLen
                  /\ hdr' = Header(Frag(len)) /\ tlsHdr' = Frag(len) /\ UNCHANGED recDone
               \/ /\ Len(whole) = HeaderLen /\ ~(Validate(whole) /\ Splits(len)) /\ Continues(m)
                  /\ hdr' = whole /\ recDone' = TRUE /\ UNCHANGED <<tlsHdr, r1Size, r2Size>>
<1> DEFINE whole == FirstOf(hdr \o p, HeaderLen)
           m == Len(whole) - Len(hdr)
           len == PayloadLen(whole)
           lw == Len(whole)
           lh == Len(hdr)
           lp == Len(p)
<1>1. /\ kind = "reclen" /\ mode \in {"write", "readFrom"} /\ Gathering
      /\ UNCHANGED <<r1Written, wire, cuts, splitLen, helloVars>>
      /\ IF lw < HeaderLen
         THEN /\ hdr' = whole /\ Returns(m)
              /\ UNCHANGED <<tlsHdr, r1Size, r2Size, recDone>>
         ELSE /\ Continues(m)
              /\ IF Validate(whole) /\ Splits(len)
                 THEN /\ r1Size' = Frag(len) + HeaderLen
                      /\ r2Size' = len - Frag(len) + HeaderLen
                      /\ hdr' = Header(Frag(len)) /\ tlsHdr' = Frag(len)
                      /\ UNCHANGED recDone
                 ELSE /\ hdr' = whole /\ recDone' = TRUE
                      /\ UNCHANGED <<tlsHdr, r1Size, r2Size>>
  BY DEF CollectHeader, Gathering
<1>2. /\ n = 0 /\ r1Written = 0 /\ lh < HeaderLen /\ hdr \in Seq(AnyByte) /\ p \in Seq(AnyByte)
      /\ HeaderLen \in Nat \ {0} /\ lh \in Nat /\ lp \in Nat
  BY <1>1, FragAssumption DEF TypeInv, RecOK, CallOK
<1>3. hdr \o p \in Seq(AnyByte) /\ Len(hdr \o p) = lh + lp
  BY <1>2, JoinProperties
<1>4. whole \in Seq(AnyByte) /\ lw = Least(HeaderLen, lh + lp)
  BY <1>2, <1>3, FirstOfProperties
<1> HIDE DEF whole, lw, lh, lp, len
<1>5. m \in 0 .. lp /\ n + m = m /\ (~(lw < HeaderLen) => lw = HeaderLen)
  <2>1. m = lw - lh
    BY DEF lw, lh
  <2> HIDE DEF m
  <2> QED
    BY <1>2, <1>4, <2>1 DEF Least
<1> HIDE DEF m
<1>6. Moves(m)
  BY <1>1, <1>5 DEF Moves
<1>7. \/ /\ lw < HeaderLen /\ hdr' = whole /\ Returns(m)
         /\ UNCHANGED <<tlsHdr, r1Size, r2Size, recDone>>
      \/ /\ lw = HeaderLen /\ Validate(whole) /\ Splits(len) /\ Continues(m)
         /\ r1Size' = Frag(len) + HeaderLen /\ r2Size' = len - Frag(len) + HeaderLen
         /\ hdr' = Header(Frag(len)) /\ tlsHdr' = Frag(len) /\ UNCHANGED recDone
      \/ /\ lw = HeaderLen /\ ~(Validate(whole) /\ Splits(len)) /\ Continues(m)
         /\ hdr' = whole /\ recDone' = TRUE /\ UNCHANGED <<tlsHdr, r1Size, r2Size>>
  BY <1>1, <1>5
<1> QED
  BY <1>1, <1>2, <1>4, <1>5, <1>6, <1>7 DEF whole, m, lw, lh, lp, len

\* A header that is split leaves two lengths of at least one byte.
LEMMA PiecesOf ==
  ASSUME NEW h \in Seq(AnyByte), Validate(h), Splits(PayloadLen(h)), splitLen \in Int
  PROVE  LET len == PayloadLen(h)
         IN /\ len \in 1 .. MaxRecord /\ Frag(len) \in 1 .. len - 1
            /\ len - Frag(len) \in 1 .. len - 1
            /\ Frag(len) + HeaderLen \in HeaderLen + 1 .. HeaderLen + MaxRecord
            /\ len - Frag(len) + HeaderLen \in HeaderLen + 1 .. HeaderLen + MaxRecord
<1> DEFINE len == PayloadLen(h)
           f == Frag(len)
<1>1. len \in 1 .. MaxRecord /\ f \in 1 .. len - 1 /\ HeaderLen \in Nat /\ MaxRecord \in Nat
  BY FragAssumption DEF Validate, Splits
<1> HIDE DEF len, f
<1>2. /\ len - f \in 1 .. len - 1 /\ f + HeaderLen \in HeaderLen + 1 .. HeaderLen + MaxRecord
      /\ len - f + HeaderLen \in HeaderLen + 1 .. HeaderLen + MaxRecord
  BY <1>1
<1> QED
  BY <1>1, <1>2 DEF len, f

\* Collecting the header keeps the types.
LEMMA HeaderKeeps ==
  ASSUME TypeInv, CollectHeader, UNCHANGED <<splitVars, disorderVars>>
  PROVE  TypeInv'
<1> DEFINE whole == FirstOf(hdr \o p, HeaderLen)
           m == Len(whole) - Len(hdr)
           len == PayloadLen(whole)
<1>1. /\ kind = "reclen" /\ mode \in {"write", "readFrom"} /\ Gathering
      /\ n = 0 /\ r1Written = 0 /\ whole \in Seq(AnyByte) /\ m \in 0 .. Len(p) /\ Moves(m)
      /\ UNCHANGED <<r1Written, wire, cuts, splitLen, helloVars>>
      /\ \/ /\ Len(whole) < HeaderLen /\ hdr' = whole /\ Returns(m)
            /\ UNCHANGED <<tlsHdr, r1Size, r2Size, recDone>>
         \/ /\ Len(whole) = HeaderLen /\ Validate(whole) /\ Splits(len) /\ Continues(m)
            /\ r1Size' = Frag(len) + HeaderLen /\ r2Size' = len - Frag(len) + HeaderLen
            /\ hdr' = Header(Frag(len)) /\ tlsHdr' = Frag(len) /\ UNCHANGED recDone
         \/ /\ Len(whole) = HeaderLen /\ ~(Validate(whole) /\ Splits(len)) /\ Continues(m)
            /\ hdr' = whole /\ recDone' = TRUE /\ UNCHANGED <<tlsHdr, r1Size, r2Size>>
  BY HeaderStep
<1> HIDE DEF whole, m
<1>2. CallOK' /\ UNCHANGED kind
  BY <1>1, MovesKeeps DEF TypeInv
<1>3. WireOK'
  BY <1>1, WireStays DEF TypeInv
<1>4. SplitOK' /\ HelloOK' /\ DisorderOK'
  BY <1>1, <1>2, OthersStay
<1>5. RecOK /\ HeaderLen \in Nat /\ MaxRecord \in Nat /\ splitLen \in Int
  BY FragAssumption DEF TypeInv, HelloOK
<1>6. RecOK'
  <2>1. CASE /\ Len(whole) < HeaderLen /\ hdr' = whole /\ Returns(m)
             /\ UNCHANGED <<tlsHdr, r1Size, r2Size, recDone>>
    <3>1. n' = 0 /\ Len(whole) <= HeaderLen
      BY <1>1, <1>5, <2>1 DEF Returns
    <3> QED
      BY <1>1, <1>5, <2>1, <3>1 DEF RecOK, Gathering
  <2>2. CASE /\ Len(whole) = HeaderLen /\ Validate(whole) /\ Splits(len)
             /\ r1Size' = Frag(len) + HeaderLen /\ r2Size' = len - Frag(len) + HeaderLen
             /\ hdr' = Header(Frag(len)) /\ tlsHdr' = Frag(len) /\ UNCHANGED recDone
    <3>1. /\ len \in 1 .. MaxRecord /\ Frag(len) \in 1 .. len - 1
          /\ Frag(len) + HeaderLen \in HeaderLen + 1 .. HeaderLen + MaxRecord
          /\ len - Frag(len) + HeaderLen \in HeaderLen + 1 .. HeaderLen + MaxRecord
      BY <1>1, <1>5, <2>2, PiecesOf
    <3> DEFINE f == Frag(len)
    <3> HIDE DEF len, f
    <3>2. f \in Int /\ f \in 0 .. MaxRecord /\ f # 0
      BY <1>5, <3>1 DEF f
    <3>3. Header(f) \in Seq(AnyByte) /\ Len(Header(f)) = HeaderLen
      BY <3>2, HeaderProperties
    <3>4. tlsHdr' = f /\ hdr' = Header(f)
      BY <2>2 DEF f
    <3>5. /\ r1Size' \in HeaderLen + 1 .. HeaderLen + MaxRecord
          /\ r2Size' \in HeaderLen + 1 .. HeaderLen + MaxRecord
          /\ r1Written' = 0
      BY <1>1, <2>2, <3>1
    <3>6. r1Size' \in Nat /\ r2Size' \in Nat /\ r1Written' < r1Size'
          /\ r1Written' \in 0 .. 2 * HeaderLen + MaxRecord
      BY <1>5, <3>5
    <3> QED
      BY <1>1, <1>5, <2>2, <3>2, <3>3, <3>4, <3>5, <3>6 DEF RecOK, Gathering
  <2>3. CASE /\ Len(whole) = HeaderLen /\ hdr' = whole /\ recDone' = TRUE
             /\ UNCHANGED <<tlsHdr, r1Size, r2Size>>
    BY <1>1, <1>5, <2>3 DEF RecOK, Gathering
  <2> QED
    BY <1>1, <2>1, <2>2, <2>3
<1> QED
  BY <1>2, <1>3, <1>4, <1>6 DEF TypeInv

\* The bytes of a header and data that a step takes: those of the header, then
\* as many of the data.
LEMMA DataOfProperties ==
  ASSUME NEW h \in Seq(AnyByte), NEW q \in Seq(AnyByte), NEW k \in 0 .. Len(h) + Len(q)
  PROVE  DataOf(h, k) \in 0 .. Len(q) /\ h \o q \in Seq(AnyByte) /\ Len(h \o q) = Len(h) + Len(q)
<1>1. Len(h) \in Nat /\ Len(q) \in Nat
  OBVIOUS
<1>2. DataOf(h, k) \in 0 .. Len(q)
  BY <1>1 DEF DataOf
<1> QED
  BY <1>2, JoinProperties

FirstHead == DropFirst(hdr, r1Written)

\* A step of the first record sends some of what is left of its header and of
\* the data up to the limit, and counts it.
LEMMA FirstRecordStep ==
  ASSUME TypeInv, WriteFirstRecord \/ CopyFirstRecord
  PROVE  /\ kind = "reclen" /\ mode \in {"write", "readFrom"} /\ FirstRecordDue
         /\ FirstHead \in Seq(AnyByte)
         /\ UNCHANGED <<r1Size, r2Size, splitLen, helloVars>> /\ AfterFirstRecord
         /\ \/ /\ UNCHANGED <<wire, cuts, r1Written>> /\ Moves(0)
               /\ mode = "readFrom" /\ FirstHead = <<>>
            \/ \E size \in 0 .. Len(FirstHead) + Len(p) : \E k \in 0 .. size :
                 /\ Accepts(FirstHead \o p, k) /\ r1Written' = r1Written + size
                 /\ size <= IF mode = "write" THEN FirstRecordLimit ELSE r1Size - r1Written
                 /\ Moves(DataOf(FirstHead, size)) /\ (k = size \/ mode' = "broken")
                 /\ mode = "write" => Cut(FirstHead, size)
                 /\ Returns(n + DataOf(FirstHead, size)) => mode = "write"
<1> DEFINE head == FirstHead
<1>1. /\ kind = "reclen" /\ mode \in {"write", "readFrom"} /\ FirstRecordDue
      /\ UNCHANGED <<r1Size, r2Size, splitLen, helloVars>> /\ AfterFirstRecord
  BY DEF WriteFirstRecord, CopyFirstRecord
<1>2. /\ n \in Nat /\ p \in Seq(AnyByte) /\ hdr \in Seq(AnyByte) /\ r1Written \in Nat
      /\ r1Size \in Nat /\ r1Written < r1Size /\ HeaderLen \in Nat /\ n + 0 = n
  BY <1>1, FragAssumption DEF TypeInv, CallOK, RecOK, FirstRecordDue
<1>3. head \in Seq(AnyByte)
  BY <1>2, DropFirstProperties DEF FirstHead
<1> HIDE DEF head
<1>4. head \o p \in Seq(AnyByte) /\ Len(head \o p) = Len(head) + Len(p)
  BY <1>2, <1>3, JoinProperties
<1>5. CASE WriteFirstRecord
  <2> DEFINE both == FirstOf(head \o p, FirstRecordLimit)
  <2>1. PICK k \in 0 .. Len(both) :
          /\ Cut(head, k) /\ Accepts(both, k) /\ r1Written' = r1Written + k
          /\ IF r1Written' < r1Size \/ k < Len(both)
             THEN Returns(n + DataOf(head, k)) ELSE Continues(DataOf(head, k))
    BY <1>5 DEF WriteFirstRecord, head, FirstHead, DataOf
  <2>2. FirstRecordLimit \in Nat
    BY <1>2 DEF FirstRecordLimit
  <2>3. k \in 0 .. Len(head \o p) /\ k <= FirstRecordLimit /\ Accepts(head \o p, k)
    BY <1>4, <2>1, <2>2, PrefixAccepted
  <2>4. mode = "write"
    BY <1>5 DEF WriteFirstRecord
  <2> HIDE DEF both
  <2>5. k \in 0 .. Len(head) + Len(p) /\ k \in 0 .. k /\ Moves(DataOf(head, k))
    BY <1>4, <2>1, <2>3 DEF Moves
  <2> QED
    BY <1>1, <1>3, <2>1, <2>3, <2>4, <2>5 DEF head
<1>6. CASE CopyFirstRecord
  <2> DEFINE both == FirstOf(head \o p, r1Size - r1Written)
  <2>1. /\ mode = "readFrom"
        /\ IF both = <<>>
           THEN Returns(n) /\ UNCHANGED <<wire, cuts, r1Written>>
           ELSE \E size \in 1 .. Len(both) : \E k \in 0 .. size :
                  /\ Accepts(both, k) /\ r1Written' = r1Written + size
                  /\ IF k < size THEN Breaks ELSE Continues(DataOf(head, size))
    BY <1>6 DEF CopyFirstRecord, head, FirstHead, DataOf
  <2>2. r1Size - r1Written \in Nat /\ r1Size - r1Written # 0
    BY <1>2
  <2>3. both \in Seq(AnyByte) /\ Len(both) = Least(r1Size - r1Written, Len(head) + Len(p))
    BY <1>4, <2>2, FirstOfProperties
  <2>4. Len(head) \in Nat /\ Len(p) \in Nat
    BY <1>2, <1>3
  <2>5. CASE both = <<>>
    <3>1. Len(both) = 0
      BY <2>3, <2>5, EmptySeq
    <3>2. Len(head) = 0
      BY <2>2, <2>3, <2>4, <3>1 DEF Least
    <3>3. head = <<>>
      BY <1>3, <3>2, EmptySeq
    <3>4. Moves(0)
      BY <1>2, <2>1, <2>5 DEF Moves
    <3> QED
      BY <1>1, <1>3, <2>1, <2>5, <3>3, <3>4 DEF head
  <2>6. CASE both # <<>>
    <3>1. PICK size \in 1 .. Len(both) : \E k \in 0 .. size :
            /\ Accepts(both, k) /\ r1Written' = r1Written + size
            /\ IF k < size THEN Breaks ELSE Continues(DataOf(head, size))
      BY <2>1, <2>6
    <3>2. PICK k \in 0 .. size :
            /\ Accepts(both, k) /\ r1Written' = r1Written + size
            /\ IF k < size THEN Breaks ELSE Continues(DataOf(head, size))
      BY <3>1
    <3>3. size \in 0 .. Len(head) + Len(p) /\ size <= r1Size - r1Written /\ k \in 0 .. Len(both)
          /\ (~(k < size) => k = size)
      BY <2>2, <2>3, <2>4, <3>1, <3>2 DEF Least
    <3>4. Accepts(head \o p, k)
      BY <1>4, <2>2, <3>2, <3>3, PrefixAccepted
    <3>5. mode' = "readFrom" \/ mode' = "broken"
      BY <2>1, <3>2 DEF Continues, Breaks
    <3>6. ~Returns(n + DataOf(head, size))
      BY <3>5 DEF Returns
    <3>7. Moves(DataOf(head, size)) /\ (k = size \/ mode' = "broken")
      BY <3>2, <3>3 DEF Moves, Breaks
    <3> HIDE DEF both
    <3> QED
      BY <1>1, <1>3, <2>1, <3>2, <3>3, <3>4, <3>6, <3>7 DEF head
  <2> QED
    BY <2>5, <2>6
<1> QED
  BY <1>5, <1>6

\* The first record keeps the types.
LEMMA FirstRecordKeeps ==
  ASSUME TypeInv, WriteFirstRecord \/ CopyFirstRecord, UNCHANGED <<splitVars, disorderVars>>
  PROVE  TypeInv'
<1>1. /\ kind = "reclen" /\ mode \in {"write", "readFrom"} /\ FirstRecordDue
      /\ FirstHead \in Seq(AnyByte)
      /\ UNCHANGED <<r1Size, r2Size, splitLen, helloVars>> /\ AfterFirstRecord
  BY FirstRecordStep
<1>2. /\ p \in Seq(AnyByte) /\ Len(p) \in Nat /\ Len(FirstHead) \in Nat /\ HeaderLen \in Nat \ {0}
      /\ MaxRecord \in Nat /\ r1Written \in Nat /\ r1Size \in HeaderLen + 1 .. HeaderLen + MaxRecord
      /\ r2Size \in HeaderLen + 1 .. HeaderLen + MaxRecord /\ r1Written < r1Size
      /\ r1Written \in 0 .. 2 * HeaderLen + MaxRecord
  BY <1>1, FragAssumption DEF TypeInv, CallOK, RecOK, FirstRecordDue
<1>3. CallOK' /\ WireOK' /\ UNCHANGED kind /\ r1Written' \in 0 .. 2 * HeaderLen + MaxRecord
  <2>1. CASE UNCHANGED <<wire, cuts, r1Written>> /\ Moves(0)
    <3>1. 0 \in 0 .. Len(p)
      BY <1>2
    <3> QED
      BY <1>1, <1>2, <2>1, <3>1, MovesKeeps, WireStays DEF TypeInv
  <2>2. ASSUME NEW size \in 0 .. Len(FirstHead) + Len(p), NEW k \in 0 .. size,
               Accepts(FirstHead \o p, k), r1Written' = r1Written + size,
               size <= IF mode = "write" THEN FirstRecordLimit ELSE r1Size - r1Written,
               Moves(DataOf(FirstHead, size))
        PROVE  CallOK' /\ WireOK' /\ UNCHANGED kind /\ r1Written' \in 0 .. 2 * HeaderLen + MaxRecord
    <3>1. /\ DataOf(FirstHead, size) \in 0 .. Len(p) /\ FirstHead \o p \in Seq(AnyByte)
          /\ Len(FirstHead \o p) = Len(FirstHead) + Len(p)
      BY <1>1, <1>2, <2>2, DataOfProperties
    <3>2. k \in 0 .. Len(FirstHead \o p)
      BY <1>2, <2>2, <3>1
    <3>3. CallOK' /\ WireOK' /\ UNCHANGED kind
      BY <1>1, <2>2, <3>1, <3>2, SendsKeeps DEF TypeInv
    <3>4. r1Written + size \in 0 .. 2 * HeaderLen + MaxRecord
      BY <1>2, <2>2 DEF FirstRecordLimit
    <3> QED
      BY <2>2, <3>3, <3>4
  <2> QED
    BY <2>1, <2>2, FirstRecordStep
<1>4. SplitOK' /\ HelloOK' /\ DisorderOK'
  BY <1>1, <1>3, OthersStay
<1>5. RecOK'
  <2>1. RecOK /\ ~recDone /\ tlsHdr # 0
    BY <1>1 DEF TypeInv, FirstRecordDue
  <2>2. CASE r1Written' < r1Size
    BY <1>1, <1>2, <1>3, <2>1, <2>2 DEF RecOK, AfterFirstRecord, Gathering
  <2>3. CASE ~(r1Written' < r1Size)
    <3> DEFINE rest == r2Size - HeaderLen
    <3>1. hdr' = Header(rest) /\ tlsHdr' = rest /\ recDone' = TRUE
      BY <1>1, <2>3 DEF AfterFirstRecord
    <3>2. rest \in 0 .. MaxRecord /\ rest \in Int
      BY <1>2
    <3> HIDE DEF rest
    <3>3. hdr' \in Seq(AnyByte) /\ Len(hdr') = HeaderLen
      BY <3>1, <3>2, HeaderProperties
    <3> QED
      BY <1>1, <1>2, <1>3, <2>1, <3>1, <3>2, <3>3 DEF RecOK, Gathering
  <2> QED
    BY <2>2, <2>3
<1> QED
  BY <1>3, <1>4, <1>5 DEF TypeInv

RestStepOf(size, k) ==
  /\ Accepts(hdr \o p, k) /\ hdr' = DropFirst(hdr, size)
  /\ Moves(DataOf(hdr, size)) /\ (k = size \/ mode' = "broken")

\* Behind the first record a step sends some of the header that is left and of
\* the data.
LEMMA RestStep ==
  ASSUME TypeInv, WriteHeaderAndData \/ WriteAfterRecords \/ CopyRest
  PROVE  /\ kind = "reclen" /\ mode \in {"write", "readFrom"} /\ recDone /\ hdr \in Seq(AnyByte)
         /\ UNCHANGED <<tlsHdr, r1Size, r1Written, r2Size, recDone, splitLen, helloVars>>
         /\ \/ UNCHANGED <<wire, cuts, hdr>> /\ Moves(0)
            \/ \E size \in 0 .. Len(hdr) + Len(p) : \E k \in 0 .. size : RestStepOf(size, k)
<1>1. /\ n \in Nat /\ p \in Seq(AnyByte) /\ hdr \in Seq(AnyByte) /\ n + 0 = n /\ MTU \in Nat
      /\ Len(hdr) \in Nat /\ Len(p) \in Nat
  BY FragAssumption DEF TypeInv, CallOK, RecOK
<1>2. hdr \o p \in Seq(AnyByte) /\ Len(hdr \o p) = Len(hdr) + Len(p)
  BY <1>1, JoinProperties
<1>3. CASE WriteHeaderAndData
  <2> DEFINE both == FirstOf(hdr \o p, MTU)
  <2>1. PICK k \in 0 .. Len(both) :
          /\ Accepts(both, k) /\ hdr' = DropFirst(hdr, k)
          /\ IF k < Len(both) \/ DataOf(hdr, k) = Len(p)
             THEN Returns(n + DataOf(hdr, k)) ELSE Continues(DataOf(hdr, k))
    BY <1>3 DEF WriteHeaderAndData, DataOf
  <2>2. k \in 0 .. Len(hdr \o p) /\ Accepts(hdr \o p, k)
    BY <1>1, <1>2, <2>1, PrefixAccepted
  <2> HIDE DEF both
  <2>3. k \in 0 .. Len(hdr) + Len(p) /\ k \in 0 .. k /\ RestStepOf(k, k)
    BY <1>2, <2>1, <2>2 DEF Moves, RestStepOf
  <2>4. /\ kind = "reclen" /\ mode = "write" /\ recDone
        /\ UNCHANGED <<tlsHdr, r1Size, r1Written, r2Size, recDone, splitLen, helloVars>>
    BY <1>3 DEF WriteHeaderAndData
  <2> QED
    BY <1>1, <2>3, <2>4
<1>4. CASE WriteAfterRecords
  <2>1. /\ kind = "reclen" /\ mode = "write" /\ recDone /\ hdr = <<>> /\ UNCHANGED fragVars
    BY <1>4 DEF WriteAfterRecords
  <2>2. PICK k \in 0 .. Len(p) : Accepts(p, k) /\ Returns(n + k)
    BY <1>4 DEF WriteAfterRecords
  <2>3. Len(hdr) = 0 /\ hdr \o p = p
    <3>1. <<>> \o p = p
      BY <1>1, ConcatEmptySeq
    <3> QED
      BY <2>1, <3>1
  <2>4. k \in 0 .. Len(hdr) + Len(p) /\ k \in 0 .. k /\ DataOf(hdr, k) = k /\ k \in Nat
    BY <1>1, <2>2, <2>3 DEF DataOf
  <2>5. hdr' = DropFirst(hdr, k)
    <3>1. DropFirst(hdr, k) \in Seq(AnyByte) /\ Len(DropFirst(hdr, k)) = 0
      BY <1>1, <2>3, <2>4, DropFirstProperties
    <3>2. DropFirst(hdr, k) = <<>>
      BY <3>1, EmptySeq
    <3> QED
      BY <2>1, <3>2 DEF fragVars, recVars
  <2>6. RestStepOf(k, k)
    BY <2>2, <2>3, <2>4, <2>5 DEF RestStepOf, Moves
  <2> QED
    BY <1>1, <2>1, <2>4, <2>6 DEF fragVars, recVars
<1>5. CASE CopyRest
  <2> DEFINE both == hdr \o p
  <2>1. /\ kind = "reclen" /\ mode = "readFrom" /\ recDone
        /\ UNCHANGED <<tlsHdr, r1Size, r1Written, r2Size, recDone, splitLen, helloVars>>
        /\ IF both = <<>>
           THEN Returns(n) /\ UNCHANGED <<wire, cuts, hdr>>
           ELSE \E size \in 1 .. Len(both) : \E k \in 0 .. size :
                  /\ Accepts(both, k) /\ hdr' = DropFirst(hdr, size)
                  /\ IF k < size THEN Breaks ELSE Continues(DataOf(hdr, size))
    BY <1>5 DEF CopyRest, DataOf
  <2>2. CASE both = <<>>
    BY <1>1, <2>1, <2>2 DEF Moves
  <2>3. CASE both # <<>>
    <3>1. PICK size \in 1 .. Len(both) : \E k \in 0 .. size :
            /\ Accepts(both, k) /\ hdr' = DropFirst(hdr, size)
            /\ IF k < size THEN Breaks ELSE Continues(DataOf(hdr, size))
      BY <2>1, <2>3
    <3>2. PICK k \in 0 .. size :
            /\ Accepts(both, k) /\ hdr' = DropFirst(hdr, size)
            /\ IF k < size THEN Breaks ELSE Continues(DataOf(hdr, size))
      BY <3>1
    <3>3. size \in 0 .. Len(hdr) + Len(p) /\ (~(k < size) => k = size)
      BY <1>1, <1>2, <3>1, <3>2
    <3>4. RestStepOf(size, k)
      BY <3>2, <3>3 DEF Moves, Breaks, RestStepOf
    <3> QED
      BY <1>1, <2>1, <3>3, <3>4
  <2> QED
    BY <2>2, <2>3
<1> QED
  BY <1>3, <1>4, <1>5

\* It keeps the types.
LEMMA RestKeeps ==
  ASSUME TypeInv, WriteHeaderAndData \/ WriteAfterRecords \/ CopyRest,
         UNCHANGED <<splitVars, disorderVars>>
  PROVE  TypeInv'
<1>1. /\ kind = "reclen" /\ mode \in {"write", "readFrom"} /\ recDone /\ hdr \in Seq(AnyByte)
      /\ UNCHANGED <<tlsHdr, r1Size, r1Written, r2Size, recDone, splitLen, helloVars>>
  BY RestStep
<1>2. p \in Seq(AnyByte) /\ Len(p) \in Nat /\ Len(hdr) \in Nat /\ Len(hdr) <= HeaderLen /\ RecOK
      /\ HeaderLen \in Nat
  BY FragAssumption DEF TypeInv, CallOK, RecOK
<1>3. CallOK' /\ WireOK' /\ UNCHANGED kind /\ hdr' \in Seq(AnyByte) /\ Len(hdr') <= HeaderLen
  <2>1. CASE UNCHANGED <<wire, cuts, hdr>> /\ Moves(0)
    <3>1. 0 \in 0 .. Len(p)
      BY <1>2
    <3> QED
      BY <1>1, <1>2, <2>1, <3>1, MovesKeeps, WireStays DEF TypeInv
  <2>2. ASSUME NEW size \in 0 .. Len(hdr) + Len(p), NEW k \in 0 .. size, RestStepOf(size, k)
        PROVE  CallOK' /\ WireOK' /\ UNCHANGED kind /\ hdr' \in Seq(AnyByte)
               /\ Len(hdr') <= HeaderLen
    <3>1. Accepts(hdr \o p, k) /\ hdr' = DropFirst(hdr, size) /\ Moves(DataOf(hdr, size))
      BY <2>2 DEF RestStepOf
    <3>2. /\ DataOf(hdr, size) \in 0 .. Len(p) /\ hdr \o p \in Seq(AnyByte)
          /\ Len(hdr \o p) = Len(hdr) + Len(p) /\ size \in Nat
      BY <1>1, <1>2, <2>2, DataOfProperties
    <3>3. k \in 0 .. Len(hdr \o p)
      BY <1>2, <2>2, <3>2
    <3>4. CallOK' /\ WireOK' /\ UNCHANGED kind
      BY <1>1, <3>1, <3>2, <3>3, SendsKeeps DEF TypeInv
    <3>5. hdr' \in Seq(AnyByte) /\ Len(hdr') = IF size < Len(hdr) THEN Len(hdr) - size ELSE 0
      BY <1>1, <3>1, <3>2, DropFirstProperties
    <3>6. Len(hdr') <= HeaderLen
      BY <1>2, <3>2, <3>5
    <3> QED
      BY <3>4, <3>5, <3>6
  <2> QED
    BY <2>1, <2>2, RestStep
<1>4. SplitOK' /\ HelloOK' /\ DisorderOK'
  BY <1>1, <1>3, OthersStay
<1>5. RecOK'
  BY <1>1, <1>2, <1>3 DEF RecOK, Gathering
<1> QED
  BY <1>3, <1>4, <1>5 DEF TypeInv

(* -------------------------------- disorder ------------------------------- *)
\* A step of the disorder writer sends some of its data, or none.
LEMMA DisorderStep ==
  ASSUME TypeInv, DisorderNext
  PROVE  /\ kind = "disorder" /\ mode \in {"write", "readFrom"}
         /\ \/ /\ UNCHANGED <<wire, cuts, disorderVars>> /\ Moves(0) /\ p' = <<>>
               /\ ~DisorderWrite
            \/ \E k \in 0 .. Len(p) :
                 /\ Accepts(p, k) /\ Moves(k) /\ DisorderWrite
                 /\ mode = "write" => p' = <<>>
<1>1. n \in Nat /\ p \in Seq(AnyByte) /\ Len(p) \in Nat /\ n + 0 = n
  BY DEF TypeInv, CallOK
<1>2. kind = "disorder" /\ mode \in {"write", "readFrom"}
  BY DEF DisorderNext, HopLimitFails, DisorderWrite, DisorderEnds
<1>3. ASSUME DisorderWrite
      PROVE  \E k \in 0 .. Len(p) : Accepts(p, k) /\ Moves(k) /\ (mode = "write" => p' = <<>>)
  <2>1. PICK size \in (IF mode = "write" THEN {Len(p)} ELSE 1 .. Len(p)) : \E k \in 0 .. size :
          /\ Accepts(p, k)
          /\ IF k = size THEN Continues(k)
             ELSE IF mode = "write" THEN Returns(n + k) ELSE Breaks
    BY <1>3 DEF DisorderWrite
  <2>2. PICK k \in 0 .. size :
          /\ Accepts(p, k)
          /\ IF k = size THEN Continues(k)
             ELSE IF mode = "write" THEN Returns(n + k) ELSE Breaks
    BY <2>1
  <2>3. size \in 0 .. Len(p) /\ k \in 0 .. Len(p) /\ (mode = "write" => size = Len(p)) /\ k \in Nat
    BY <1>1, <2>1, <2>2
  <2>4. Moves(k)
    BY <2>2 DEF Moves
  <2>5. ASSUME mode = "write" PROVE p' = <<>>
    <3>1. CASE k = size
      <4>1. p' = DropFirst(p, k)
        BY <2>2, <3>1 DEF Continues
      <4>2. DropFirst(p, k) \in Seq(AnyByte) /\ Len(DropFirst(p, k)) = 0
        BY <1>1, <2>3, <2>5, <3>1, DropFirstProperties
      <4> QED
        BY <4>1, <4>2, EmptySeq
    <3>2. CASE k # size
      BY <2>2, <2>5, <3>2 DEF Returns
    <3> QED
      BY <3>1, <3>2
  <2> QED
    BY <2>2, <2>3, <2>4, <2>5
<1>4. CASE HopLimitFails /\ ~DisorderWrite
  <2>1. p # <<>> /\ UNCHANGED <<wire, cuts, disorderVars>>
    BY <1>4 DEF HopLimitFails
  <2>2. (Returns(0) /\ mode = "write") \/ Breaks
    BY <1>2, <1>4 DEF HopLimitFails
  <2>3. Moves(0)
    <3>1. CASE Returns(0) /\ mode = "write"
      <4>1. n = 0
        BY <1>2, <2>1, <3>1 DEF TypeInv, DisorderOK
      <4> QED
        BY <1>1, <3>1, <4>1 DEF Moves
    <3> QED
      BY <2>2, <3>1 DEF Moves
  <2>4. p' = <<>>
    BY <2>2 DEF Returns, Breaks
  <2> QED
    BY <1>2, <1>4, <2>1, <2>3, <2>4
<1>5. CASE DisorderEnds /\ ~DisorderWrite
  BY <1>1, <1>2, <1>5 DEF DisorderEnds, Moves, Returns
<1> QED
  BY <1>2, <1>3, <1>4, <1>5 DEF DisorderNext

\* The disorder writer keeps the types, and lowers the hop limit once.
LEMMA DisorderKeeps ==
  ASSUME TypeInv, DisorderNext, UNCHANGED <<splitVars, fragVars>>
  PROVE  TypeInv'
<1>1. kind = "disorder" /\ mode \in {"write", "readFrom"}
  BY DisorderStep
<1>2. p \in Seq(AnyByte) /\ 0 \in 0 .. Len(p) /\ DisorderOK
  BY DEF TypeInv, CallOK
<1>3. CallOK' /\ WireOK' /\ UNCHANGED kind /\ DisorderOK'
  <2>1. CASE UNCHANGED <<wire, cuts, disorderVars>> /\ Moves(0) /\ p' = <<>>
    <3>1. CallOK' /\ WireOK' /\ UNCHANGED kind
      BY <1>1, <1>2, <2>1, MovesKeeps, WireStays DEF TypeInv
    <3> QED
      BY <1>2, <2>1, <3>1 DEF DisorderOK, disorderVars
  <2>2. ASSUME NEW k \in 0 .. Len(p), Accepts(p, k), Moves(k), DisorderWrite,
               mode = "write" => p' = <<>>
        PROVE  CallOK' /\ WireOK' /\ UNCHANGED kind /\ DisorderOK'
    <3>1. CallOK' /\ WireOK' /\ UNCHANGED kind /\ (mode' = mode \/ (n' = 0 /\ p' = <<>>))
      BY <1>1, <1>2, <2>2, SendsKeeps DEF TypeInv
    <3>2. /\ writesToDisorder' = IF writesToDisorder > -1 THEN writesToDisorder - 1
                                                         ELSE writesToDisorder
          /\ lowHopWrites' = IF writesToDisorder = 0 \/ hopLimit = "one"
                             THEN Least(lowHopWrites + 1, 2) ELSE lowHopWrites
          /\ IF writesToDisorder # 0 THEN UNCHANGED <<hopLimit, restoreFailed>>
             ELSE /\ restoreFailed' \in BOOLEAN
                  /\ hopLimit' = IF restoreFailed' THEN "one" ELSE hopLimit
      BY <2>2 DEF DisorderWrite
    <3>3. writesToDisorder \in Int /\ lowHopWrites \in 0 .. 2 /\ hopLimit \in {"default", "one"}
      BY <1>2 DEF DisorderOK
    <3>4. writesToDisorder' \in Int /\ lowHopWrites' \in 0 .. 2 /\ hopLimit' \in {"default", "one"}
          /\ restoreFailed' \in BOOLEAN
      BY <1>2, <3>2, <3>3 DEF DisorderOK, Least
    <3>5. CASE writesToDisorder = 0
      <4>1. ~restoreFailed /\ hopLimit = "default" /\ lowHopWrites <= 0
        BY <1>2, <3>5 DEF DisorderOK
      <4>2. writesToDisorder' = -1 /\ lowHopWrites' <= 1
        BY <3>2, <3>3, <3>5, <4>1 DEF Least
      <4>3. restoreFailed' \/ hopLimit' = "default"
        BY <3>2, <3>5, <4>1
      <4>4. kind' = "disorder" /\ mode' = "write" /\ p' # <<>> => n' = 0
        BY <2>2, <3>1
      <4>5. ~(writesToDisorder' >= 0) /\ writesToDisorder' < 0
        BY <4>2
      <4> QED
        BY <3>1, <3>4, <4>2, <4>3, <4>4, <4>5 DEF DisorderOK
    <3>6. CASE writesToDisorder # 0
      <4>1. UNCHANGED <<hopLimit, restoreFailed>>
        BY <3>2, <3>6
      <4>2. /\ writesToDisorder >= 0 => writesToDisorder' >= 0
            /\ writesToDisorder < 0 => writesToDisorder' < 0
        BY <3>2, <3>3, <3>6
      <4>3. kind' = "disorder" /\ mode' = "write" /\ p' # <<>> => n' = 0
        BY <2>2, <3>1
      <4>4. restoreFailed \/ (hopLimit = "default" /\ lowHopWrites' = lowHopWrites)
        BY <1>2, <3>2, <3>6 DEF DisorderOK
      <4>5. restoreFailed' => writesToDisorder' < 0
        BY <1>2, <4>1, <4>2 DEF DisorderOK
      <4>6. restoreFailed' \/ ( /\ hopLimit' = "default"
                                /\ lowHopWrites' <= IF writesToDisorder' >= 0 THEN 0 ELSE 1 )
        <5>1. CASE restoreFailed
          BY <4>1, <5>1
        <5>2. CASE ~restoreFailed /\ writesToDisorder >= 0
          <6>1. lowHopWrites <= 0 /\ hopLimit = "default"
            BY <1>2, <5>2 DEF DisorderOK
          <6> QED
            BY <3>3, <4>1, <4>2, <4>4, <5>2, <6>1
        <5>3. CASE ~restoreFailed /\ ~(writesToDisorder >= 0)
          <6>1. lowHopWrites <= 1 /\ hopLimit = "default"
            BY <1>2, <5>3 DEF DisorderOK
          <6>2. ~(writesToDisorder' >= 0)
            BY <3>3, <3>4, <4>2, <5>3
          <6> QED
            BY <4>1, <4>4, <5>3, <6>1, <6>2
        <5> QED
          BY <5>1, <5>2, <5>3
      <4> QED
        BY <3>1, <3>4, <4>3, <4>5, <4>6 DEF DisorderOK
    <3> QED
      BY <3>1, <3>5, <3>6
  <2> QED
    BY <2>1, <2>2, DisorderStep
<1>4. SplitOK' /\ HelloOK' /\ RecOK'
  BY <1>1, <1>3, OthersStay
<1> QED
  BY <1>3, <1>4 DEF TypeInv

(* ------------------------------ the type invariant ----------------------- *)
\* A connection begins with nothing said and nothing sent.
LEMMA WritersBegin == ASSUME WritersInit PROVE TypeInv
<1>1. /\ kind \in {"split", "hello", "reclen", "disorder"} /\ stream \in Streams
      /\ told = 0 /\ mode = "idle" /\ n = 0 /\ p = <<>> /\ eof = "eof" /\ wire = <<>> /\ cuts = {}
      /\ NewSplitWriter /\ FragInit /\ DisorderInit
  BY DEF WritersInit, StreamInit
<1>2. /\ stream \in Seq(AnyByte) /\ Len(stream) \in Nat /\ MaxCall \in Nat
      /\ HeaderLen \in Nat \ {0} /\ MaxRecord \in Nat
  <2>1. stream \in Seq(AnyByte)
    BY <1>1, StreamsTyped
  <2> QED
    BY <2>1, StreamAssumption, FragAssumption
<1>3. CallOK
  <2>1. 0 + 0 + 0 <= Len(stream) /\ 0 + 0 <= MaxCall
    BY <1>2
  <2> QED
    BY <1>1, <1>2, <2>1, Nothing DEF CallOK
<1>4. WireOK
  BY <1>1, Nothing DEF WireOK
<1>5. SplitOK
  BY <1>1, SplitBegins
<1>6. HelloOK
  <2>1. splitLen \in Int /\ phase = "collecting" /\ helloBuf = <<>> /\ record = <<>>
        /\ readBroke = FALSE
    BY <1>1, FragAssumption DEF FragInit
  <2>2. HelloTarget(<<>>) >= HeaderLen /\ HelloTarget(<<>>) \in Nat
    BY Nothing, TargetProperties
  <2>3. 0 < HelloTarget(<<>>)
    BY <1>2, <2>2
  <2> QED
    BY <1>1, <2>1, <2>3, Nothing DEF HelloOK
<1>7. RecOK
  <2>1. /\ hdr = <<>> /\ tlsHdr = 0 /\ r1Size = 0 /\ r1Written = 0 /\ r2Size = 0 /\ recDone = FALSE
    BY <1>1 DEF FragInit
  <2>2. 0 \in 0 .. MaxRecord /\ 0 \in 0 .. 2 * HeaderLen + MaxRecord /\ 0 < HeaderLen
    BY <1>2
  <2>3. ~(~recDone /\ tlsHdr # 0) /\ recDone \in BOOLEAN
    BY <2>1
  <2>4. hdr \in Seq(AnyByte) /\ Len(hdr) = 0
    BY <2>1, Nothing
  <2>5. Len(hdr) <= HeaderLen /\ Len(hdr) < HeaderLen
    BY <1>2, <2>4
  <2> QED
    BY <1>1, <2>1, <2>2, <2>3, <2>4, <2>5 DEF RecOK
<1>8. DisorderOK
  <2>1. writesToDisorder \in Int
    BY <1>1, DisorderAssumption DEF DisorderInit
  <2>2. hopLimit = "default" /\ lowHopWrites = 0 /\ ~restoreFailed /\ restoreFailed \in BOOLEAN
    BY <1>1 DEF DisorderInit
  <2>3. lowHopWrites \in 0 .. 2 /\ lowHopWrites <= IF writesToDisorder >= 0 THEN 0 ELSE 1
    BY <2>1, <2>2
  <2> QED
    BY <1>1, <2>1, <2>2, <2>3 DEF DisorderOK
<1> QED
  BY <1>3, <1>4, <1>5, <1>6, <1>7, <1>8 DEF TypeInv

\* Every step of every writer keeps the types.
LEMMA WritersStep == ASSUME TypeInv, [WritersNext]_writerVars PROVE TypeInv'
<1>1. CASE (BeginWrite \/ BeginReadFrom) /\ UNCHANGED <<splitVars, fragVars, disorderVars>>
  <2>1. CallOK' /\ n' = 0 /\ UNCHANGED <<kind, wire, cuts>>
    BY <1>1, BeginKeeps DEF TypeInv
  <2>2. WireOK'
    BY <2>1, WireStays DEF TypeInv
  <2>3. SplitOK' /\ HelloOK' /\ RecOK' /\ DisorderOK'
    BY <1>1, <2>1, OthersStay
  <2> QED
    BY <2>1, <2>2, <2>3 DEF TypeInv
<1>2. CASE SplitNext /\ UNCHANGED <<fragVars, disorderVars>>
  BY <1>2, SplitKeeps
<1>3. CASE FragNext /\ UNCHANGED <<splitVars, disorderVars>>
  BY <1>3, CollectKeeps, FlushKeeps, AfterHelloKeeps, HeaderKeeps, FirstRecordKeeps, RestKeeps
     DEF FragNext
<1>4. CASE DisorderNext /\ UNCHANGED <<splitVars, fragVars>>
  BY <1>4, DisorderKeeps
<1>5. CASE UNCHANGED writerVars
  <2>1. UNCHANGED <<streamVars, splitVars, fragVars, disorderVars>>
    BY <1>5 DEF writerVars
  <2>2. CallOK' /\ WireOK' /\ UNCHANGED <<kind, n, mode, p>>
    BY <2>1 DEF TypeInv, CallOK, WireOK, streamVars
  <2>3. SplitOK' /\ HelloOK' /\ RecOK'
    BY <2>1, <2>2, OthersStay
  <2>4. DisorderOK'
    BY <2>1, <2>2 DEF TypeInv, DisorderOK, disorderVars
  <2> QED
    BY <2>2, <2>3, <2>4 DEF TypeInv
<1> QED
  BY <1>1, <1>2, <1>3, <1>4, <1>5 DEF WritersNext

\* It is what the type invariant of the run asks.
LEMMA TypesFollow == ASSUME TypeInv PROVE WritersTypeOK
<1>1. /\ told \in Nat /\ n \in Nat /\ Len(p) \in Nat /\ told + n + Len(p) <= Len(stream)
      /\ n + Len(p) <= MaxCall /\ MaxCall \in Nat /\ Len(stream) \in Nat
  BY StreamAssumption DEF TypeInv, CallOK
<1>2. told \in 0 .. Len(stream) /\ n \in 0 .. MaxCall /\ Len(p) <= MaxCall
      /\ n + told <= Len(stream)
  BY <1>1
<1> QED
  BY <1>2 DEF TypeInv, CallOK, WireOK, SplitOK, HelloOK, RecOK, DisorderOK, WritersTypeOK

\* The types of the connection and of the writers' state, whatever the caller
\* hands over and whatever part of it a write of the base takes before it
\* fails: a call never counts more than it was given, and the header kept by
\* record_len_writer.go never grows past a header.
THEOREM WritersTypes == WritersSpec => []WritersTypeOK
<1>1. WritersInit => TypeInv
  BY WritersBegin
<1>2. TypeInv /\ [WritersNext]_writerVars => TypeInv'
  BY WritersStep
<1>3. TypeInv => WritersTypeOK
  BY TypesFollow
<1> QED
  BY <1>1, <1>2, <1>3, PTL DEF WritersSpec

(* ------------------------ what is carried: sequences --------------------- *)
\* A sequence is its first elements and the rest.
LEMMA FirstAndRest ==
  ASSUME NEW S, NEW s \in Seq(S), NEW k \in Nat
  PROVE  FirstOf(s, k) \o DropFirst(s, k) = s
<1>1. /\ FirstOf(s, k) \in Seq(S) /\ Len(FirstOf(s, k)) = Least(k, Len(s))
      /\ \A i \in 1 .. Least(k, Len(s)) : FirstOf(s, k)[i] = s[i]
  BY FirstOfProperties
<1>2. /\ DropFirst(s, k) \in Seq(S) /\ Len(DropFirst(s, k)) = IF k < Len(s) THEN Len(s) - k ELSE 0
      /\ \A i \in 1 .. Len(s) - k : DropFirst(s, k)[i] = s[k + i]
  BY DropFirstProperties
<1> DEFINE f == FirstOf(s, k)
           d == DropFirst(s, k)
           l == Least(k, Len(s))
<1> HIDE DEF f, d
<1>3. /\ f \o d \in Seq(S) /\ Len(f \o d) = Len(f) + Len(d)
      /\ \A i \in 1 .. Len(f) : (f \o d)[i] = f[i]
      /\ \A i \in 1 .. Len(d) : (f \o d)[Len(f) + i] = d[i]
  <2>1. f \in Seq(S) /\ d \in Seq(S)
    BY <1>1, <1>2 DEF f, d
  <2> QED
    BY <2>1, JoinProperties
<1>4. Len(s) \in Nat /\ l = IF k < Len(s) THEN k ELSE Len(s)
  <2>1. Len(s) \in Nat
    OBVIOUS
  <2> QED
    BY <2>1 DEF Least
<1>5. Len(f) = l /\ Len(d) = Len(s) - l /\ Len(f \o d) = Len(s) /\ l \in Nat
  BY <1>1, <1>2, <1>3, <1>4 DEF f, d
<1>6. ASSUME NEW i \in 1 .. Len(s) PROVE (f \o d)[i] = s[i]
  <2>1. CASE i <= l
    <3>1. i \in 1 .. l
      BY <1>4, <1>5, <2>1
    <3> QED
      BY <1>1, <1>3, <1>5, <3>1 DEF f
  <2>2. CASE ~(i <= l)
    <3>1. l = k /\ i - k \in 1 .. Len(s) - k /\ i - k \in 1 .. Len(d) /\ k + (i - k) = i
      BY <1>4, <1>5, <2>2
    <3> QED
      <4>1. d[i - k] = s[k + (i - k)] /\ (f \o d)[Len(f) + (i - k)] = d[i - k]
        BY <1>2, <1>3, <3>1 DEF d
      <4>2. Len(f) + (i - k) = i
        BY <1>5, <3>1
      <4> QED
        BY <3>1, <4>1, <4>2
  <2> QED
    BY <2>1, <2>2
<1>7. f \o d = s
  BY <1>3, <1>5, <1>6, SeqEqual
<1> QED
  BY <1>7 DEF f, d

\* All of a sequence, and none of it.
LEMMA FirstOfEdges ==
  ASSUME NEW S, NEW s \in Seq(S)
  PROVE  /\ FirstOf(s, 0) = <<>> /\ DropFirst(s, 0) = s
         /\ \A k \in Nat : k >= Len(s) => FirstOf(s, k) = s /\ DropFirst(s, k) = <<>>
<1>1. Len(s) \in Nat /\ 0 \in Nat
  OBVIOUS
<1>2. FirstOf(s, 0) = <<>>
  <2>1. FirstOf(s, 0) \in Seq(S) /\ Len(FirstOf(s, 0)) = 0
    BY <1>1, FirstOfProperties DEF Least
  <2> QED
    BY <2>1, EmptySeq
<1>3. DropFirst(s, 0) = s
  <2>1. DropFirst(s, 0) \in Seq(S) /\ <<>> \o DropFirst(s, 0) = s
    BY <1>1, <1>2, FirstAndRest, DropFirstProperties
  <2>2. <<>> \o DropFirst(s, 0) = DropFirst(s, 0)
    BY <2>1, ConcatEmptySeq
  <2> QED
    BY <2>1, <2>2
<1>4. ASSUME NEW k \in Nat, k >= Len(s)
      PROVE  FirstOf(s, k) = s /\ DropFirst(s, k) = <<>>
  <2>1. DropFirst(s, k) \in Seq(S) /\ Len(DropFirst(s, k)) = 0
    BY <1>1, <1>4, DropFirstProperties
  <2>2. DropFirst(s, k) = <<>>
    BY <2>1, EmptySeq
  <2>3. Least(k, Len(s)) = Len(s)
    BY <1>1, <1>4 DEF Least
  <2>4. FirstOf(s, k) = s
    BY <2>3, SubSeqFull DEF FirstOf
  <2> QED
    BY <2>2, <2>4
<1> QED
  BY <1>2, <1>3, <1>4

\* The first of two sequences in a row, taken from both ...
LEMMA FirstOfJoin ==
  ASSUME NEW S, NEW s \in Seq(S), NEW t \in Seq(S), NEW k \in Nat
  PROVE  FirstOf(s \o t, k) = IF k <= Len(s) THEN FirstOf(s, k) ELSE s \o FirstOf(t, k - Len(s))
<1> DEFINE u == s \o t
           a == Len(s)
           b == Len(t)
           x == FirstOf(u, k)
<1>1. /\ u \in Seq(S) /\ Len(u) = a + b /\ a \in Nat /\ b \in Nat
      /\ \A i \in 1 .. a : u[i] = s[i]
      /\ \A i \in 1 .. b : u[a + i] = t[i]
  BY JoinProperties
<1> HIDE DEF u, a, b
<1>2. /\ x \in Seq(S) /\ Len(x) = Least(k, a + b)
      /\ \A i \in 1 .. Least(k, a + b) : x[i] = u[i]
  <2>1. u \in Seq(S) /\ Len(u) = a + b
    BY <1>1
  <2>2. /\ x \in Seq(S) /\ Len(x) = Least(k, Len(u))
        /\ \A i \in 1 .. Least(k, Len(u)) : x[i] = u[i]
    BY <2>1, FirstOfProperties
  <2> QED
    BY <2>1, <2>2
<1> HIDE DEF x
<1>3. CASE k <= a
  <2> DEFINE y == FirstOf(s, k)
  <2>1. y \in Seq(S) /\ Len(y) = Least(k, a) /\ \A i \in 1 .. Least(k, a) : y[i] = s[i]
    BY FirstOfProperties DEF a
  <2> HIDE DEF y
  <2>2. Least(k, a) = k /\ Least(k, a + b) = k /\ \A i \in 1 .. k : i \in 1 .. a
    BY <1>1, <1>3 DEF Least
  <2>3. Len(x) = k /\ Len(y) = k /\ \A i \in 1 .. k : x[i] = y[i]
    BY <1>1, <1>2, <2>1, <2>2
  <2>4. x = y
    BY <1>2, <2>1, <2>3, SeqEqual
  <2> QED
    BY <1>3, <2>4 DEF x, y, u, a
<1>4. CASE ~(k <= a)
  <2> DEFINE c == k - a
             y == FirstOf(t, c)
             z == s \o y
  <2>1. c \in Nat
    BY <1>1, <1>4
  <2>2. y \in Seq(S) /\ Len(y) = Least(c, b) /\ \A i \in 1 .. Least(c, b) : y[i] = t[i]
    BY <2>1, FirstOfProperties DEF b
  <2> HIDE DEF y
  <2>3. /\ z \in Seq(S) /\ Len(z) = a + Len(y)
        /\ \A i \in 1 .. a : z[i] = s[i]
        /\ \A i \in 1 .. Len(y) : z[a + i] = y[i]
    <3>1. y \in Seq(S)
      BY <2>2
    <3> QED
      BY <3>1, JoinProperties DEF a
  <2> HIDE DEF z
  <2>4. Least(k, a + b) = a + Least(c, b) /\ Least(c, b) \in Nat /\ Least(c, b) <= b
    BY <1>1, <1>4, <2>1 DEF Least
  <2>5. ASSUME NEW i \in 1 .. Len(x) PROVE x[i] = z[i]
    <3>1. CASE i <= a
      <4>1. i \in 1 .. a /\ i \in 1 .. Least(k, a + b)
        BY <1>1, <1>2, <3>1
      <4> QED
        BY <1>1, <1>2, <2>3, <4>1
    <3>2. CASE ~(i <= a)
      <4> DEFINE j == i - a
      <4>1. /\ j \in 1 .. Least(c, b) /\ j \in 1 .. b /\ j \in 1 .. Len(y) /\ i = a + j
            /\ i \in 1 .. Least(k, a + b)
        BY <1>1, <1>2, <2>2, <2>4, <3>2
      <4> HIDE DEF j
      <4> QED
        BY <1>1, <1>2, <2>2, <2>3, <4>1
    <3> QED
      BY <3>1, <3>2
  <2>6. Len(x) = Len(z)
    BY <1>2, <2>2, <2>3, <2>4
  <2>7. x = z
    BY <1>2, <2>3, <2>5, <2>6, SeqEqual
  <2> QED
    BY <1>4, <2>7 DEF x, z, y, u, a
<1> QED
  BY <1>3, <1>4

\* ... and what is left of the two.
LEMMA DropFirstJoin ==
  ASSUME NEW S, NEW s \in Seq(S), NEW t \in Seq(S), NEW k \in Nat, k <= Len(s)
  PROVE  DropFirst(s \o t, k) = DropFirst(s, k) \o t
<1> DEFINE u == s \o t
           a == Len(s)
           b == Len(t)
           x == DropFirst(u, k)
           y == DropFirst(s, k)
           z == y \o t
<1>1. /\ u \in Seq(S) /\ Len(u) = a + b /\ a \in Nat /\ b \in Nat /\ k <= a
      /\ \A i \in 1 .. a : u[i] = s[i]
      /\ \A i \in 1 .. b : u[a + i] = t[i]
  BY JoinProperties
<1> HIDE DEF u
<1>0. u \in Seq(S)
  BY <1>1
<1>2. /\ x \in Seq(S) /\ Len(x) = IF k < Len(u) THEN Len(u) - k ELSE 0
      /\ \A i \in 1 .. Len(u) - k : x[i] = u[k + i]
  BY <1>0, DropFirstProperties
<1>3. /\ y \in Seq(S) /\ Len(y) = IF k < a THEN a - k ELSE 0
      /\ \A i \in 1 .. a - k : y[i] = s[k + i]
  BY DropFirstProperties
<1> HIDE DEF x, y
<1>4. /\ z \in Seq(S) /\ Len(z) = Len(y) + b
      /\ \A i \in 1 .. Len(y) : z[i] = y[i]
      /\ \A i \in 1 .. b : z[Len(y) + i] = t[i]
  <2>1. y \in Seq(S)
    BY <1>3
  <2> QED
    BY <2>1, JoinProperties
<1> HIDE DEF z, a, b
<1>5. Len(x) = a + b - k /\ Len(y) = a - k /\ Len(z) = a + b - k
  BY <1>1, <1>2, <1>3, <1>4
<1>6. ASSUME NEW i \in 1 .. Len(x) PROVE x[i] = z[i]
  <2>1. i \in 1 .. Len(u) - k
    BY <1>1, <1>5
  <2>2. CASE i <= a - k
    <3>1. i \in 1 .. a - k /\ k + i \in 1 .. a /\ i \in 1 .. Len(y)
      BY <1>1, <1>5, <2>2
    <3> QED
      BY <1>1, <1>2, <1>3, <1>4, <2>1, <3>1
  <2>3. CASE ~(i <= a - k)
    <3> DEFINE j == i - (a - k)
    <3>1. j \in 1 .. b /\ k + i = a + j /\ i = Len(y) + j
      <4>1. a \in Nat /\ b \in Nat /\ Len(x) = a + b - k /\ Len(y) = a - k
        BY <1>1, <1>5
      <4>2. i \in Nat /\ 1 <= i /\ i <= a + b - k
        BY <4>1
      <4> QED
        BY <2>3, <4>1, <4>2
    <3> HIDE DEF j
    <3> QED
      BY <1>1, <1>2, <1>4, <2>1, <3>1
  <2> QED
    BY <2>2, <2>3
<1>7. x = z
  BY <1>2, <1>4, <1>5, <1>6, SeqEqual
<1> QED
  BY <1>7 DEF x, z, y, u

\* Dropped twice.
LEMMA DropTwice ==
  ASSUME NEW S, NEW s \in Seq(S), NEW k \in Nat, NEW m \in Nat
  PROVE  DropFirst(DropFirst(s, k), m) = DropFirst(s, k + m)
<1> DEFINE a == Len(s)
           y == DropFirst(s, k)
           x == DropFirst(y, m)
           z == DropFirst(s, k + m)
<1>1. a \in Nat /\ k + m \in Nat
  OBVIOUS
<1>2. /\ y \in Seq(S) /\ Len(y) = IF k < a THEN a - k ELSE 0
      /\ \A i \in 1 .. a - k : y[i] = s[k + i]
  BY DropFirstProperties
<1> HIDE DEF y
<1>3. /\ x \in Seq(S) /\ Len(x) = IF m < Len(y) THEN Len(y) - m ELSE 0
      /\ \A i \in 1 .. Len(y) - m : x[i] = y[m + i]
  BY <1>2, DropFirstProperties
<1>4. PICK q : q = k + m
  OBVIOUS
<1>5. /\ z \in Seq(S) /\ Len(z) = IF q < a THEN a - q ELSE 0
      /\ \A i \in 1 .. a - q : z[i] = s[q + i]
  BY <1>1, <1>4, DropFirstProperties
<1> HIDE DEF x, z, a
<1>6. Len(x) = Len(z)
  BY <1>1, <1>2, <1>3, <1>4, <1>5
<1>7. ASSUME NEW i \in 1 .. Len(x) PROVE x[i] = z[i]
  <2>1. /\ i \in 1 .. Len(y) - m /\ m + i \in 1 .. a - k /\ i \in 1 .. a - q
        /\ k + (m + i) = q + i
    BY <1>1, <1>2, <1>3, <1>4, <1>5, <1>6
  <2> QED
    BY <1>2, <1>3, <1>5, <2>1
<1>8. x = z
  BY <1>3, <1>5, <1>6, <1>7, SeqEqual
<1> QED
  BY <1>8 DEF x, z, y

\* What is taken of a header and of data behind it, and what is then left of
\* the header, is the header and the data that was taken.
LEMMA TakenFrom ==
  ASSUME NEW S, NEW h \in Seq(S), NEW q \in Seq(S), NEW k \in Nat
  PROVE  FirstOf(h \o q, k) \o DropFirst(h, k) = h \o FirstOf(q, DataOf(h, k))
<1>1. Len(h) \in Nat /\ 0 \in Nat
  OBVIOUS
<1>2. CASE k <= Len(h)
  <2>1. FirstOf(h \o q, k) = FirstOf(h, k) /\ DataOf(h, k) = 0
    BY <1>2, FirstOfJoin DEF DataOf
  <2>2. FirstOf(q, 0) = <<>> /\ FirstOf(h, k) \o DropFirst(h, k) = h
    BY FirstOfEdges, FirstAndRest
  <2>3. h \o <<>> = h
    BY ConcatEmptySeq
  <2> QED
    BY <2>1, <2>2, <2>3
<1>3. CASE ~(k <= Len(h))
  <2>1. k - Len(h) \in Nat /\ k >= Len(h)
    BY <1>1, <1>3
  <2>2. FirstOf(h \o q, k) = h \o FirstOf(q, k - Len(h)) /\ DataOf(h, k) = k - Len(h)
    BY <1>3, FirstOfJoin DEF DataOf
  <2>3. DropFirst(h, k) = <<>>
    BY <2>1, FirstOfEdges
  <2>4. FirstOf(q, k - Len(h)) \in Seq(S)
    BY <2>1, FirstOfProperties
  <2>5. h \o FirstOf(q, k - Len(h)) \in Seq(S)
    BY <2>4, ConcatProperties
  <2>6. (h \o FirstOf(q, k - Len(h))) \o <<>> = h \o FirstOf(q, k - Len(h))
    BY <2>5, ConcatEmptySeq
  <2> QED
    BY <2>2, <2>3, <2>6
<1> QED
  BY <1>2, <1>3

\* What a target takes of a buffer and of data behind it.
LEMMA FilledUp ==
  ASSUME NEW S, NEW h \in Seq(S), NEW q \in Seq(S), NEW t \in Nat, t > Len(h)
  PROVE  FirstOf(h \o q, t) = h \o FirstOf(q, Len(FirstOf(h \o q, t)) - Len(h))
<1>1. Len(h) \in Nat /\ Len(q) \in Nat
  OBVIOUS
<1> DEFINE c == t - Len(h)
           f == FirstOf(q, c)
<1>2. c \in Nat /\ ~(t <= Len(h))
  BY <1>1
<1>3. FirstOf(h \o q, t) = h \o f
  BY <1>2, FirstOfJoin
<1> HIDE DEF c
<1>4. f \in Seq(S) /\ Len(f) = Least(c, Len(q))
  BY <1>2, FirstOfProperties
<1> HIDE DEF f
<1>5. Len(h \o f) = Len(h) + Len(f) /\ Len(f) \in Nat
  <2>1. f \in Seq(S)
    BY <1>4
  <2>2. Len(h \o f) = Len(h) + Len(f)
    BY <2>1, ConcatProperties
  <2> QED
    BY <2>1, <2>2
<1>6. Len(FirstOf(h \o q, t)) - Len(h) = Len(f)
  BY <1>1, <1>3, <1>5
<1>7. Least(Least(c, Len(q)), Len(q)) = Least(c, Len(q))
  BY <1>1, <1>2 DEF Least
<1>8. FirstOf(q, Len(f)) = f
  BY <1>4, <1>7 DEF f, FirstOf
<1> QED
  BY <1>3, <1>6, <1>8

\* What the stream has up to a place, and what the call takes behind it.
LEMMA NextOfStream ==
  ASSUME CallOK, NEW k \in 0 .. Len(p)
  PROVE  LET a == told + n
         IN /\ FirstOf(stream, a + k) = FirstOf(stream, a) \o FirstOf(p, k)
            /\ FirstOf(stream, a) \in Seq(AnyByte) /\ Len(FirstOf(stream, a)) = a
            /\ FirstOf(p, k) \in Seq(AnyByte) /\ Len(FirstOf(p, k)) = k
            /\ Len(FirstOf(stream, a + k)) = a + k
<1> DEFINE a == told + n
           L == Len(stream)
           l == Len(p)
<1>1. /\ a \in Nat /\ l \in Nat /\ L \in Nat /\ a + l <= L /\ k \in Nat /\ k <= l
      /\ stream \in Seq(AnyByte) /\ p \in Seq(AnyByte)
      /\ \A i \in 1 .. l : p[i] = stream[a + i]
  BY DEF CallOK
<1> HIDE DEF a, L, l
<1>2. PICK b : b = a + k
  OBVIOUS
<1>3. b \in Nat /\ b <= L /\ a <= L /\ k <= l
  BY <1>1, <1>2
<1>4. Least(a, L) = a /\ Least(b, L) = b /\ Least(k, l) = k
  BY <1>1, <1>3 DEF Least
<1> DEFINE x == FirstOf(stream, a)
           y == FirstOf(stream, b)
           z == FirstOf(p, k)
<1>5. /\ x \in Seq(AnyByte) /\ Len(x) = a /\ \A i \in 1 .. a : x[i] = stream[i]
      /\ y \in Seq(AnyByte) /\ Len(y) = b /\ \A i \in 1 .. b : y[i] = stream[i]
      /\ z \in Seq(AnyByte) /\ Len(z) = k /\ \A i \in 1 .. k : z[i] = p[i]
  <2>1. Len(stream) = L /\ Len(p) = l
    BY DEF L, l
  <2>2. x \in Seq(AnyByte) /\ Len(x) = a /\ \A i \in 1 .. a : x[i] = stream[i]
    BY <1>1, <1>3, <2>1, FirstOfShort
  <2>3. y \in Seq(AnyByte) /\ Len(y) = b /\ \A i \in 1 .. b : y[i] = stream[i]
    BY <1>1, <1>3, <2>1, FirstOfShort
  <2>4. z \in Seq(AnyByte) /\ Len(z) = k /\ \A i \in 1 .. k : z[i] = p[i]
    BY <1>1, <1>3, <2>1, FirstOfShort
  <2> QED
    BY <2>2, <2>3, <2>4
<1> HIDE DEF x, y, z
<1>6. /\ x \o z \in Seq(AnyByte) /\ Len(x \o z) = a + k
      /\ \A i \in 1 .. a : (x \o z)[i] = x[i]
      /\ \A i \in 1 .. k : (x \o z)[a + i] = z[i]
  <2>1. x \in Seq(AnyByte) /\ z \in Seq(AnyByte)
    BY <1>5
  <2>2. Len(x) = a /\ Len(z) = k
    BY <1>5
  <2>3. /\ x \o z \in Seq(AnyByte) /\ Len(x \o z) = Len(x) + Len(z)
        /\ \A i \in 1 .. Len(x) : (x \o z)[i] = x[i]
        /\ \A i \in 1 .. Len(z) : (x \o z)[Len(x) + i] = z[i]
    BY <2>1, JoinProperties
  <2> QED
    BY <2>2, <2>3
<1>7. ASSUME NEW i \in 1 .. b PROVE y[i] = (x \o z)[i]
  <2>1. CASE i <= a
    <3>1. i \in 1 .. a
      BY <1>1, <1>3, <2>1
    <3> QED
      BY <1>5, <1>6, <3>1
  <2>2. CASE ~(i <= a)
    <3> DEFINE j == i - a
    <3>1. j \in 1 .. k /\ j \in 1 .. l /\ i = a + j
      BY <1>1, <1>2, <1>3, <2>2
    <3> HIDE DEF j
    <3>2. y[i] = stream[a + j] /\ p[j] = stream[a + j]
      BY <1>1, <1>5, <3>1
    <3>3. z[j] = p[j] /\ (x \o z)[a + j] = z[j]
      BY <1>5, <1>6, <3>1
    <3> QED
      BY <3>1, <3>2, <3>3
  <2> QED
    BY <2>1, <2>2
<1>8. Len(y) = Len(x \o z)
  BY <1>2, <1>5, <1>6
<1>9. y = x \o z
  BY <1>5, <1>6, <1>7, <1>8, SeqEqual
<1> QED
  BY <1>2, <1>5, <1>9 DEF x, y, z, a

\* A write of the base adds the first bytes of what it is given.
LEMMA AcceptsFirst ==
  ASSUME NEW data \in Seq(AnyByte), NEW k \in 0 .. Len(data), Accepts(data, k)
  PROVE  wire' = wire \o FirstOf(data, k)
<1>1. Len(data) \in Nat
  OBVIOUS
<1>2. Least(k, Len(data)) = k
  BY <1>1 DEF Least
<1> QED
  BY <1>2 DEF Accepts, FirstOf

(* ------------------------ what is carried: the records ------------------- *)
\* The stream begins with a hello that is cut in two.
CutInTwo == Validate(stream) /\ Splits(PayloadLen(stream))
HelloLen == PayloadLen(stream)
FirstLen == Frag(HelloLen)

\* The beginnings of the stream.
LEMMA BeginningsAreHellos ==
  ASSUME CallOK, NEW a \in Nat, a >= 1, a <= Len(stream)
  PROVE  LET s == FirstOf(stream, a)
         IN /\ s \in Seq(AnyByte) /\ Len(s) = a
            /\ PayloadLen(s) = HelloLen /\ (Validate(s) <=> Validate(stream))
            /\ Head(s) = Head(stream)
<1> DEFINE s == FirstOf(stream, a)
<1>1. stream \in Seq(AnyByte) /\ Len(stream) \in Nat
  BY DEF CallOK
<1>2. Least(a, Len(stream)) = a
  BY <1>1 DEF Least
<1>3. s \in Seq(AnyByte) /\ Len(s) = a /\ \A i \in 1 .. a : s[i] = stream[i]
  BY <1>1, <1>2, FirstOfProperties
<1> HIDE DEF s
<1>4. s[1] = stream[1]
  <2>1. 1 \in 1 .. a
    OBVIOUS
  <2> QED
    BY <1>3, <2>1
<1>5. Head(s) = s[1] /\ Head(stream) = stream[1]
  OBVIOUS
<1>6. PayloadLen(s) = HelloLen /\ (Validate(s) <=> Validate(stream)) /\ Head(s) = Head(stream)
  BY <1>4, <1>5 DEF PayloadLen, Validate, HelloLen
<1> QED
  BY <1>3, <1>6 DEF s

\* The two pieces of a hello that is cut.
LEMMA CutLengths ==
  ASSUME CutInTwo, splitLen \in Int
  PROVE  /\ HelloLen \in 1 .. MaxRecord /\ FirstLen \in 1 .. HelloLen - 1
         /\ FirstLen \in Nat \ {0} /\ HelloLen - FirstLen \in Nat \ {0}
         /\ HeaderLen \in Nat \ {0}
<1>1. HelloLen \in 1 .. MaxRecord /\ FirstLen \in 1 .. HelloLen - 1 /\ HeaderLen \in Nat \ {0}
      /\ MaxRecord \in Nat
  BY FragAssumption DEF CutInTwo, Validate, Splits, HelloLen, FirstLen
<1>2. FirstLen \in Nat \ {0} /\ HelloLen - FirstLen \in Nat \ {0}
  BY <1>1
<1> QED
  BY <1>1, <1>2

\* What is not cut stays as it is.
LEMMA UncutRecords ==
  ASSUME CallOK, NEW a \in Nat, a <= Len(stream), a < HeaderLen \/ ~CutInTwo
  PROVE  InRecords(FirstOf(stream, a)) = FirstOf(stream, a)
<1> DEFINE s == FirstOf(stream, a)
<1>1. stream \in Seq(AnyByte) /\ Len(stream) \in Nat /\ HeaderLen \in Nat \ {0}
  BY FragAssumption DEF CallOK
<1>2. CASE a < HeaderLen
  <2>1. Least(a, Len(stream)) = a
    BY <1>1 DEF Least
  <2>2. Len(s) = a
    BY <1>1, <2>1, FirstOfProperties
  <2> HIDE DEF s
  <2> QED
    BY <1>2, <2>2 DEF InRecords, s
<1>3. CASE ~(a < HeaderLen)
  <2>1. a >= 1
    BY <1>1, <1>3
  <2>2. PayloadLen(s) = HelloLen /\ (Validate(s) <=> Validate(stream))
    BY <2>1, BeginningsAreHellos
  <2> HIDE DEF s
  <2>3. ~Validate(s) \/ ~Splits(PayloadLen(s))
    BY <1>3, <2>2 DEF CutInTwo, HelloLen
  <2> QED
    BY <2>3 DEF InRecords, s
<1> QED
  BY <1>2, <1>3

\* A hello that is cut, up to the end of its first piece and behind it.
LEMMA CutRecords ==
  ASSUME CallOK, CutInTwo, splitLen \in Int, NEW a \in Nat, a <= Len(stream), a >= HeaderLen
  PROVE  LET s == FirstOf(stream, a)
             content == DropFirst(s, HeaderLen)
         IN /\ s \in Seq(AnyByte) /\ content \in Seq(AnyByte) /\ Len(content) = a - HeaderLen
            /\ a < HeaderLen + FirstLen => InRecords(s) = Header(FirstLen) \o content
            /\ a = HeaderLen + FirstLen =>
                 InRecords(s) = (Header(FirstLen) \o content) \o Header(HelloLen - FirstLen)
            /\ a >= HeaderLen + FirstLen =>
                 InRecords(s) = Header(FirstLen) \o FirstOf(content, FirstLen)
                                  \o (Header(HelloLen - FirstLen) \o DropFirst(content, FirstLen))
<1> DEFINE s == FirstOf(stream, a)
           content == DropFirst(s, HeaderLen)
           c == Len(content)
           f == FirstLen
           H == HeaderLen
<1>1. f \in Nat \ {0} /\ H \in Nat \ {0} /\ HelloLen - f \in Nat
  BY CutLengths
<1>2. a >= 1
  BY <1>1
<1>3. /\ s \in Seq(AnyByte) /\ Len(s) = a
      /\ PayloadLen(s) = HelloLen /\ Validate(s) /\ Splits(PayloadLen(s))
  BY <1>2, BeginningsAreHellos DEF CutInTwo, HelloLen
<1> HIDE DEF s
<1>4. content \in Seq(AnyByte) /\ c = a - H
  <2>1. H \in Nat
    BY <1>1
  <2>2. content \in Seq(AnyByte) /\ c = IF H < Len(s) THEN Len(s) - H ELSE 0
    BY <1>3, <2>1, DropFirstProperties
  <2> HIDE DEF content, c
  <2> QED
    BY <1>1, <1>3, <2>2
<1>5. ~(Len(s) < H)
  BY <1>1, <1>3
<1>6. InRecords(s) = Header(f) \o FirstOf(content, f)
                       \o (IF c < f THEN <<>> ELSE Header(HelloLen - f) \o DropFirst(content, f))
  BY <1>3, <1>5 DEF InRecords, FirstLen
<1> HIDE DEF content, c
<1>7. Header(f) \in Seq(AnyByte) /\ Header(HelloLen - f) \in Seq(AnyByte)
  <2>1. f \in Int /\ HelloLen - f \in Int
    BY <1>1
  <2> QED
    BY <2>1, HeaderProperties
<1>8. f \in Nat /\ c \in Nat /\ c = Len(content)
  BY <1>1, <1>4 DEF c
<1> HIDE DEF f
<1>9. CASE a < H + f
  <2>1. c < f /\ f >= Len(content)
    BY <1>1, <1>4, <1>8, <1>9
  <2>2. FirstOf(content, f) = content
    BY <1>4, <1>8, <2>1, FirstOfEdges
  <2>3. Header(f) \o content \in Seq(AnyByte)
    BY <1>4, <1>7, ConcatProperties
  <2>4. (Header(f) \o content) \o <<>> = Header(f) \o content
    BY <2>3, ConcatEmptySeq
  <2>5. InRecords(s) = Header(f) \o content
    BY <1>6, <2>1, <2>2, <2>4
  <2> QED
    BY <1>1, <1>3, <1>4, <1>8, <1>9, <2>5 DEF s, content, c, f
<1>10. CASE ~(a < H + f)
  <2>1. ~(c < f) /\ (a = H + f => f >= Len(content))
    BY <1>1, <1>4, <1>8, <1>10
  <2>2. InRecords(s) = Header(f) \o FirstOf(content, f) \o (Header(HelloLen - f) \o DropFirst(content, f))
    BY <1>6, <2>1
  <2>3. ASSUME a = H + f
        PROVE  InRecords(s) = (Header(f) \o content) \o Header(HelloLen - f)
    <3>1. FirstOf(content, f) = content /\ DropFirst(content, f) = <<>>
      BY <1>4, <1>8, <2>1, <2>3, FirstOfEdges
    <3>2. Header(HelloLen - f) \o <<>> = Header(HelloLen - f)
      BY <1>7, ConcatEmptySeq
    <3> QED
      BY <2>2, <3>1, <3>2
  <2> QED
    BY <1>1, <1>3, <1>4, <1>8, <1>10, <2>2, <2>3 DEF s, content, c, f
<1> QED
  BY <1>9, <1>10

\* Three sequences of bytes in a row, joined from either end.
LEMMA JoinThree ==
  ASSUME NEW s \in Seq(AnyByte), NEW t \in Seq(AnyByte), NEW u \in Seq(AnyByte)
  PROVE  (s \o t) \o u = s \o (t \o u)
  OBVIOUS

\* Whatever follows the first piece follows it as it is.
LEMMA RecordsGoOn ==
  ASSUME CallOK, splitLen \in Int, NEW k \in 0 .. Len(p), told + n >= HeaderLen,
         CutInTwo => told + n >= HeaderLen + FirstLen
  PROVE  InRecords(FirstOf(stream, told + n + k)) = InRecords(FirstOf(stream, told + n)) \o FirstOf(p, k)
<1> DEFINE a == told + n
           b == a + k
           s == FirstOf(stream, a)
           u == FirstOf(stream, b)
           t == FirstOf(p, k)
<1>1. /\ u = s \o t /\ s \in Seq(AnyByte) /\ Len(s) = a /\ t \in Seq(AnyByte)
  BY NextOfStream
<1>2. a \in Nat /\ b \in Nat /\ a <= b /\ b <= Len(stream) /\ a <= Len(stream)
      /\ Len(stream) \in Nat
      /\ HeaderLen \in Nat \ {0}
  BY FragAssumption DEF CallOK
<1>3. a >= HeaderLen /\ b >= HeaderLen /\ (CutInTwo => a >= HeaderLen + FirstLen)
      /\ (CutInTwo => FirstLen \in Nat)
  BY <1>2, CutLengths
<1>4. CASE ~CutInTwo
  <2> HIDE DEF a, b
  <2>1. InRecords(s) = s /\ InRecords(u) = u
    BY <1>2, <1>4, UncutRecords
  <2> HIDE DEF s, u, t
  <2>2. InRecords(u) = InRecords(s) \o t
    BY <1>1, <2>1
  <2> QED
    BY <2>2 DEF a, b, s, u, t
<1>5. CASE CutInTwo
  <2> DEFINE x == DropFirst(s, HeaderLen)
             y == DropFirst(u, HeaderLen)
             f == FirstLen
             A == Header(f)
             B == Header(HelloLen - f)
  <2>1. b >= HeaderLen + f /\ a >= HeaderLen + f /\ f \in Nat
    BY <1>2, <1>3, <1>5
  <2> HIDE DEF a, b
  <2>2. /\ x \in Seq(AnyByte) /\ Len(x) = a - HeaderLen
        /\ InRecords(s) = A \o FirstOf(x, f) \o (B \o DropFirst(x, f))
    BY <1>2, <1>3, <1>5, <2>1, CutRecords
  <2>3. InRecords(u) = A \o FirstOf(y, f) \o (B \o DropFirst(y, f))
    BY <1>2, <1>3, <1>5, <2>1, CutRecords
  <2> HIDE DEF s, u, t, x, y, f
  <2>4. y = x \o t
    <3>1. HeaderLen \in Nat /\ HeaderLen <= Len(s)
      BY <1>1, <1>2, <1>3
    <3>2. DropFirst(s \o t, HeaderLen) = DropFirst(s, HeaderLen) \o t
      BY <1>1, <3>1, DropFirstJoin
    <3> QED
      BY <1>1, <3>2 DEF x, y
  <2>5. f <= Len(x)
    BY <1>2, <2>1, <2>2
  <2>6. FirstOf(y, f) = FirstOf(x, f) /\ DropFirst(y, f) = DropFirst(x, f) \o t
    BY <1>1, <2>1, <2>2, <2>4, <2>5, FirstOfJoin, DropFirstJoin
  <2>7. FirstOf(x, f) \in Seq(AnyByte) /\ DropFirst(x, f) \in Seq(AnyByte)
    BY <2>1, <2>2, FirstOfProperties, DropFirstProperties
  <2>8. A \in Seq(AnyByte) /\ B \in Seq(AnyByte)
    <3>1. f \in Int /\ HelloLen - f \in Int
      BY <1>5, <2>1, CutLengths DEF f
    <3> QED
      BY <3>1, HeaderProperties
  <2> HIDE DEF A, B
  <2> DEFINE F == FirstOf(x, f)
             D == DropFirst(x, f)
  <2>9. F \in Seq(AnyByte) /\ D \in Seq(AnyByte)
    BY <2>7
  <2> HIDE DEF F, D
  <2>10. A \o F \in Seq(AnyByte) /\ B \o D \in Seq(AnyByte)
    BY <2>8, <2>9, ConcatProperties
  <2>11. B \o (D \o t) = (B \o D) \o t
    <3>1. t \in Seq(AnyByte)
      BY <1>1
    <3> QED
      BY <2>8, <2>9, <3>1, JoinThree
  <2>12. (A \o F) \o ((B \o D) \o t) = ((A \o F) \o (B \o D)) \o t
    <3>1. t \in Seq(AnyByte)
      BY <1>1
    <3> QED
      BY <2>10, <3>1, JoinThree
  <2>13. InRecords(u) = InRecords(s) \o t
    BY <2>2, <2>3, <2>6, <2>11, <2>12 DEF F, D
  <2> QED
    BY <2>13 DEF a, b, s, u, t
<1> QED
  BY <1>4, <1>5

(* -------------------------- what is carried: steps ----------------------- *)
\* What the writer has taken over of the stream.
Taken == FirstOf(stream, told + n)

\* A writer that changes no byte has sent it.
PlainCarries == kind \in {"split", "disorder"} => wire = Taken

\* The hello is collected; then what was sent and what is held back of it is
\* the whole of it in two records, or as it was if the source broke, and all
\* that came behind it.
HelloCarries ==
  kind = "hello" =>
    /\ phase = "collecting" => wire = <<>> /\ ~readBroke /\ helloBuf = Taken
    /\ phase # "collecting" =>
         /\ wire \o record = IF readBroke THEN Taken ELSE InRecords(Taken)
         /\ readBroke \/ ( /\ told + n >= HeaderLen
                           /\ Validate(stream) => told + n >= HeaderLen + HelloLen )
    /\ phase = "done" => record = <<>>

\* The header is gathered; then the first record is its own header and as much
\* data as was counted, the header given whole by a Write; then both records,
\* and all that came behind them.
RecCarries ==
  kind = "reclen" =>
    /\ Gathering => wire = <<>> /\ hdr = Taken
    /\ ~Gathering => told + n >= HeaderLen
    /\ ~recDone /\ tlsHdr # 0 =>
         /\ CutInTwo /\ hdr = Header(FirstLen)
         /\ r1Size = FirstLen + HeaderLen /\ r2Size = HelloLen - FirstLen + HeaderLen
         /\ told + n = HeaderLen + DataOf(hdr, r1Written)
         /\ wire \o FirstHead = Header(FirstLen) \o DropFirst(Taken, HeaderLen)
         /\ mode # "readFrom" => r1Written = 0 \/ r1Written >= HeaderLen
    /\ recDone =>
         /\ CutInTwo => told + n >= HeaderLen + FirstLen
         /\ wire \o hdr = InRecords(Taken)

\* Unless a copy lost what it had read, or a base write ended in a header.
Carried ==
  mode # "broken" /\ (kind = "reclen" => ~CutHeaders) =>
    PlainCarries /\ HelloCarries /\ RecCarries

\* Whichever writer it is, its own part is all that counts.
LEMMA CarriedFor ==
  ASSUME CallOK
  PROVE  /\ kind \in {"split", "disorder"} => (Carried <=> (mode # "broken" => wire = Taken))
         /\ kind = "hello" => (Carried <=> (mode # "broken" => HelloCarries))
         /\ kind = "reclen" => (Carried <=> (mode # "broken" /\ ~CutHeaders => RecCarries))
  BY DEF CallOK, Carried, PlainCarries, HelloCarries, RecCarries

\* Nothing is carried yet.
LEMMA CarriedAtFirst == ASSUME TypeInv, WritersInit PROVE Carried
<1>1. /\ told = 0 /\ n = 0 /\ wire = <<>> /\ stream \in Seq(AnyByte) /\ CallOK
      /\ phase = "collecting" /\ helloBuf = <<>> /\ record = <<>> /\ readBroke = FALSE
      /\ hdr = <<>> /\ tlsHdr = 0 /\ recDone = FALSE
  BY DEF WritersInit, StreamInit, FragInit, TypeInv, CallOK
<1>2. Taken = <<>>
  <2>1. told + n = 0
    BY <1>1
  <2>2. FirstOf(stream, 0) = <<>>
    BY <1>1, FirstOfEdges
  <2> QED
    BY <2>1, <2>2 DEF Taken
<1>3. PlainCarries /\ HelloCarries /\ RecCarries
  BY <1>1, <1>2 DEF PlainCarries, HelloCarries, RecCarries, Gathering
<1> QED
  BY <1>3 DEF Carried

\* A call that begins, and a step that changes nothing, carry nothing.
LEMMA CarriedAtRest ==
  ASSUME TypeInv, Carried, UNCHANGED <<kind, stream, told, wire, splitVars, fragVars>>,
         \/ UNCHANGED <<mode, n>>
         \/ mode = "idle" /\ mode' # "broken" /\ n' = 0
  PROVE  Carried'
<1>1. CallOK
  BY DEF TypeInv
<1>2. n' = n /\ (mode # "readFrom" \/ mode' = mode) /\ (mode' # "broken" => mode # "broken")
  BY <1>1 DEF CallOK
<1>3. /\ Taken' = Taken /\ UNCHANGED <<fragVars, helloVars, recVars, splitLen>>
  BY <1>2 DEF Taken, fragVars
<1>4. PlainCarries => PlainCarries'
  BY <1>3 DEF PlainCarries
<1>5. HelloCarries => HelloCarries'
  BY <1>2, <1>3 DEF HelloCarries, helloVars, HelloLen, InRecords, Splits, Frag
<1>6. mode' # "broken" /\ RecCarries => RecCarries'
  BY <1>2, <1>3 DEF RecCarries, recVars, Gathering, HelloLen, FirstLen, CutInTwo, InRecords, Splits,
                    Frag, FirstHead
<1> QED
  BY <1>2, <1>4, <1>5, <1>6 DEF Carried

\* A step that takes k bytes of the call's data: what is taken over then.
LEMMA TakenGrows ==
  ASSUME TypeInv, mode \in {"write", "readFrom"}, NEW k \in 0 .. Len(p), Moves(k), mode' # "broken"
  PROVE  /\ told' + n' = told + n + k /\ UNCHANGED <<kind, stream>> /\ CallOK'
         /\ Taken' = Taken \o FirstOf(p, k) /\ Taken' = FirstOf(stream, told + n + k)
         /\ Taken \in Seq(AnyByte) /\ Len(Taken) = told + n /\ FirstOf(p, k) \in Seq(AnyByte)
         /\ Len(FirstOf(p, k)) = k /\ Taken' \in Seq(AnyByte) /\ Len(Taken') = told + n + k
<1>1. CallOK
  BY DEF TypeInv
<1>2. told' + n' = told + n + k /\ UNCHANGED <<kind, stream>> /\ CallOK'
  BY <1>1, MovesKeeps
<1>3. /\ FirstOf(stream, told + n + k) = FirstOf(stream, told + n) \o FirstOf(p, k)
      /\ FirstOf(stream, told + n) \in Seq(AnyByte) /\ Len(FirstOf(stream, told + n)) = told + n
      /\ FirstOf(p, k) \in Seq(AnyByte) /\ Len(FirstOf(p, k)) = k
      /\ Len(FirstOf(stream, told + n + k)) = told + n + k
  BY <1>1, NextOfStream
<1>4. Taken' = FirstOf(stream, told + n + k)
  BY <1>2 DEF Taken
<1>5. Taken' \in Seq(AnyByte)
  BY <1>3, <1>4, ConcatProperties
<1> QED
  BY <1>2, <1>3, <1>4, <1>5 DEF Taken

\* And a step that takes none.
LEMMA TakenStays ==
  ASSUME TypeInv, mode \in {"write", "readFrom"}, Moves(0), mode' # "broken"
  PROVE  told' + n' = told + n /\ UNCHANGED <<kind, stream>> /\ Taken' = Taken /\ CallOK'
<1>1. 0 \in 0 .. Len(p) /\ told + n + 0 = told + n
  BY DEF TypeInv, CallOK
<1> QED
  BY <1>1, TakenGrows DEF Taken

\* A writer that sends its data as it is.
LEMMA PlainStep ==
  ASSUME TypeInv, Carried, kind \in {"split", "disorder"}, mode \in {"write", "readFrom"},
         \/ UNCHANGED <<wire, cuts>> /\ Moves(0)
         \/ \E k \in 0 .. Len(p) : Accepts(p, k) /\ Moves(k)
  PROVE  Carried'
<1>1. CallOK /\ p \in Seq(AnyByte) /\ Len(p) \in Nat /\ mode # "broken" /\ wire \in Seq(AnyByte)
  BY DEF TypeInv, CallOK, WireOK
<1>2. wire = Taken
  BY <1>1, CarriedFor
<1>3. ASSUME mode' # "broken" PROVE CallOK' /\ UNCHANGED kind /\ wire' = Taken'
  <2>1. CASE UNCHANGED <<wire, cuts>> /\ Moves(0)
    BY <1>2, <1>3, <2>1, TakenStays
  <2>2. ASSUME NEW k \in 0 .. Len(p), Accepts(p, k), Moves(k)
        PROVE  CallOK' /\ UNCHANGED kind /\ wire' = Taken'
    <3>1. Taken' = Taken \o FirstOf(p, k) /\ CallOK' /\ UNCHANGED kind
      BY <1>3, <2>2, TakenGrows
    <3>2. wire' = wire \o FirstOf(p, k)
      BY <1>1, <2>2, AcceptsFirst
    <3> QED
      BY <1>2, <3>1, <3>2
  <2> QED
    BY <2>1, <2>2
<1>4. ASSUME mode' # "broken" PROVE Carried'
  <2>1. PlainCarries' /\ HelloCarries' /\ RecCarries'
    BY <1>3, <1>4 DEF PlainCarries, HelloCarries, RecCarries
  <2> QED
    BY <2>1 DEF Carried
<1> QED
  BY <1>4 DEF Carried

(* ------------------------------- the hello ------------------------------- *)
\* A complete hello is split the way the records are laid out.
LEMMA SplitsAsLaidOut ==
  ASSUME NEW b \in Seq(AnyByte), Len(b) >= HeaderLen,
         Validate(b) => Len(b) = HeaderLen + PayloadLen(b),
         splitLen \in Int
  PROVE  (IF Validate(b) THEN SplitRecord(b) ELSE b) = InRecords(b)
<1> DEFINE len == PayloadLen(b)
           content == DropFirst(b, HeaderLen)
           c == Len(content)
<1>1. HeaderLen \in Nat \ {0} /\ Len(b) \in Nat /\ MaxRecord \in Nat
  BY FragAssumption
<1>2. ~(Len(b) < HeaderLen)
  BY <1>1
<1>3. CASE ~Validate(b)
  BY <1>3 DEF InRecords
<1>4. CASE Validate(b)
  <2>1. len \in 1 .. MaxRecord /\ Len(b) = HeaderLen + len
    BY <1>4 DEF Validate
  <2>2. HeaderLen \in Nat /\ HeaderLen < Len(b) /\ Len(b) - HeaderLen = len
    BY <1>1, <2>1
  <2>3. c = len /\ content \in Seq(AnyByte)
    BY <2>2, DropFirstProperties
  <2> HIDE DEF content, c
  <2>4. CASE ~Splits(len)
    BY <1>4, <2>3, <2>4 DEF InRecords, SplitRecord, content, c
  <2>5. CASE Splits(len)
    <3>1. Frag(len) \in 1 .. len - 1 /\ ~(c < Frag(len))
      BY <1>1, <2>1, <2>3, <2>5 DEF Splits
    <3> DEFINE A == Header(Frag(len)) \o FirstOf(content, Frag(len))
               B == Header(len - Frag(len))
               D == DropFirst(content, Frag(len))
    <3>2. SplitRecord(b) = (A \o B) \o D
      BY <2>3, <2>5 DEF SplitRecord, content, c
    <3>3. InRecords(b) = A \o (B \o D)
      BY <1>2, <1>4, <2>5, <3>1 DEF InRecords, content, c
    <3>4. A \in Seq(AnyByte) /\ B \in Seq(AnyByte) /\ D \in Seq(AnyByte)
      <4>1. Frag(len) \in Int /\ Frag(len) \in Nat /\ len - Frag(len) \in Int
        BY <1>1, <2>1, <3>1
      <4>2. Header(Frag(len)) \in Seq(AnyByte) /\ B \in Seq(AnyByte)
        BY <4>1, HeaderProperties
      <4>3. FirstOf(content, Frag(len)) \in Seq(AnyByte) /\ D \in Seq(AnyByte)
        BY <2>3, <4>1, FirstOfProperties, DropFirstProperties
      <4> HIDE DEF B, D
      <4> QED
        BY <4>2, <4>3, ConcatProperties
    <3> HIDE DEF A, B, D
    <3>5. (A \o B) \o D = A \o (B \o D)
      BY <3>4, JoinThree
    <3> QED
      BY <1>4, <3>2, <3>3, <3>5
  <2> QED
    BY <2>4, <2>5
<1> QED
  BY <1>3, <1>4

\* What one buffer waits for, a longer one with the same header waits for.
LEMMA SameTarget ==
  ASSUME NEW s \in Seq(AnyByte), NEW t, Len(s) >= HeaderLen, Len(t) >= HeaderLen, t[1] = s[1]
  PROVE  HelloTarget(t) = HelloTarget(s) /\ Validate(t) = Validate(s)
         /\ PayloadLen(t) = PayloadLen(s)
<1>1. Head(t) = t[1] /\ Head(s) = s[1]
  OBVIOUS
<1>2. PayloadLen(t) = PayloadLen(s)
  BY <1>1 DEF PayloadLen
<1>3. Validate(t) = Validate(s)
  BY <1>1, <1>2 DEF Validate
<1> QED
  BY <1>2, <1>3 DEF HelloTarget

\* The hello is collected from the stream.
LEMMA CollectCarries ==
  ASSUME TypeInv, Carried, CollectHello
  PROVE  Carried'
<1> DEFINE whole == helloBuf \o p
           target == HelloTarget(whole)
           buf == FirstOf(whole, target)
           m == Len(buf) - Len(helloBuf)
<1>1. /\ kind = "hello" /\ mode \in {"write", "readFrom"} /\ phase = "collecting" /\ n = 0
      /\ whole \in Seq(AnyByte) /\ Len(whole) = Len(helloBuf) + Len(p)
      /\ Len(helloBuf) \in Nat /\ target \in Nat /\ Len(helloBuf) < target
      /\ buf \in Seq(AnyByte) /\ Len(buf) = Least(target, Len(whole))
      /\ m \in 0 .. Len(p) /\ Moves(m)
      /\ UNCHANGED <<wire, cuts, splitLen, recVars>>
      /\ \/ /\ Len(whole) < target
            /\ helloBuf' = buf /\ Returns(m) /\ UNCHANGED <<phase, record, readBroke>>
         \/ /\ phase' = "flushing" /\ helloBuf' = <<>> /\ Continues(m)
            /\ \/ /\ Len(whole) >= target /\ readBroke' = FALSE
                  /\ record' = IF Validate(buf) THEN SplitRecord(buf) ELSE buf
               \/ Len(whole) < target /\ readBroke' = TRUE /\ record' = buf
  BY CollectStep
<1>2. /\ helloBuf \in Seq(AnyByte) /\ p \in Seq(AnyByte) /\ splitLen \in Int /\ mode # "broken"
      /\ CallOK /\ HeaderLen \in Nat \ {0}
  BY <1>1, FragAssumption DEF TypeInv, HelloOK, CallOK
<1>3. wire = <<>> /\ ~readBroke /\ helloBuf = Taken
  BY <1>1, <1>2, CarriedFor DEF HelloCarries
<1>4. buf = helloBuf \o FirstOf(p, m)
  <2>1. helloBuf \in Seq(AnyByte) /\ p \in Seq(AnyByte)
    BY <1>2
  <2>2. target \in Nat /\ target > Len(helloBuf)
    BY <1>1
  <2> HIDE DEF target
  <2> QED
    BY <2>1, <2>2, FilledUp
<1> HIDE DEF m
<1>5. mode' # "broken" /\ kind' = "hello"
  BY <1>1, <1>2 DEF Returns, Continues
<1>6. /\ buf = Taken' /\ told' + n' = told + n + m /\ UNCHANGED stream /\ CallOK'
      /\ Len(buf) = told' + n' /\ Taken' = FirstOf(stream', told' + n')
  BY <1>1, <1>3, <1>4, <1>5, TakenGrows DEF Taken
<1> HIDE DEF buf, target
<1>7. HelloCarries'
  <2>1. CASE /\ Len(whole) < target
             /\ helloBuf' = buf /\ Returns(m) /\ UNCHANGED <<phase, record, readBroke>>
    BY <1>1, <1>3, <1>6, <2>1 DEF HelloCarries
  <2>2. CASE phase' = "flushing" /\ readBroke' = TRUE /\ record' = buf
    <3>1. wire' \o record' = Taken'
      <4>1. <<>> \o buf = buf
        BY <1>1, ConcatEmptySeq
      <4> QED
        BY <1>1, <1>3, <1>6, <2>2, <4>1
    <3> QED
      BY <2>2, <3>1 DEF HelloCarries
  <2>3. CASE /\ phase' = "flushing" /\ Len(whole) >= target /\ readBroke' = FALSE
             /\ record' = IF Validate(buf) THEN SplitRecord(buf) ELSE buf
    <3>1. Len(buf) = target /\ target >= HeaderLen /\ Len(whole) \in Nat
      <4>1. Len(whole) \in Nat /\ target >= HeaderLen
        <5>1. PICK w \in Seq(AnyByte) : w = whole
          BY <1>1
        <5>2. Len(w) \in Nat /\ HelloTarget(w) >= HeaderLen
          BY TargetProperties
        <5> QED
          BY <5>1, <5>2 DEF target
      <4> QED
        BY <1>1, <2>3, <4>1 DEF Least
    <3>2. Len(whole) >= HeaderLen /\ Len(buf) >= HeaderLen
      BY <1>1, <1>2, <2>3, <3>1
    <3>3. buf[1] = whole[1]
      <4>1. PICK t \in Nat : t = target
        BY <1>1
      <4>2. \A i \in 1 .. Least(t, Len(whole)) : FirstOf(whole, t)[i] = whole[i]
        BY <1>1, <4>1, FirstOfProperties
      <4>3. 1 \in 1 .. Least(t, Len(whole))
        BY <1>1, <1>2, <3>1, <4>1
      <4> QED
        BY <4>1, <4>2, <4>3 DEF buf
    <3>4. HelloTarget(buf) = target /\ Validate(buf) = Validate(whole)
      BY <1>1, <3>2, <3>3, SameTarget DEF target
    <3>5. Validate(buf) => Len(buf) = HeaderLen + PayloadLen(buf)
      BY <1>1, <3>1, <3>2, <3>4, TargetProperties
    <3>6. record' = InRecords(buf)
      BY <1>1, <1>2, <2>3, <3>2, <3>5, SplitsAsLaidOut
    <3>7. <<>> \o record' = record'
      <4>1. record' \in Seq(AnyByte)
        BY <1>1, <1>2, <2>3, SplitRecordType
      <4> QED
        BY <4>1, ConcatEmptySeq
    <3>8. wire' \o record' = InRecords(Taken')
      BY <1>1, <1>3, <1>6, <3>6, <3>7
    <3>9. InRecords(Taken') = InRecords(Taken)'
      BY <1>1 DEF InRecords, Splits, Frag
    <3>10. told' + n' >= HeaderLen /\ (Validate(stream') => told' + n' >= HeaderLen + HelloLen')
      <4> DEFINE a == told' + n'
      <4>1. a \in Nat /\ a >= 1 /\ a <= Len(stream) /\ buf = FirstOf(stream, a) /\ Len(buf) = a
        <5>1. told' \in Nat /\ n' \in Nat /\ Len(p') \in Nat /\ told' + n' + Len(p') <= Len(stream')
              /\ Len(stream') \in Nat
          BY <1>6 DEF CallOK
        <5>2. a \in Nat /\ a <= Len(stream)
          <6>1. stream' = stream
            BY <1>6
          <6>2. \A x, y, l, L \in Nat : x + y + l <= L => x + y \in Nat /\ x + y <= L
            OBVIOUS
          <6>3. told' + n' \in Nat /\ told' + n' <= Len(stream')
            BY <5>1, <6>2
          <6> QED
            BY <6>1, <6>3
        <5>3. buf = FirstOf(stream, a) /\ Len(buf) = a
          BY <1>6
        <5> HIDE DEF a
        <5> QED
          BY <1>2, <3>2, <5>2, <5>3
      <4> HIDE DEF a
      <4>2. PayloadLen(buf) = HelloLen /\ (Validate(buf) <=> Validate(stream))
        BY <1>2, <4>1, BeginningsAreHellos
      <4>3. HelloLen' = HelloLen
        BY <1>6 DEF HelloLen
      <4>4. HeaderLen + HelloLen = HeaderLen + PayloadLen(buf)
        BY <4>2
      <4>5. a >= HeaderLen
        BY <3>2, <4>1
      <4>6. Validate(stream) => a >= HeaderLen + HelloLen
        <5> SUFFICES ASSUME Validate(stream) PROVE a >= HeaderLen + HelloLen
          OBVIOUS
        <5>1. a = HeaderLen + HelloLen
          BY <3>5, <4>1, <4>2, <4>4
        <5> QED
          BY <4>1, <5>1
      <4> QED
        BY <1>6, <4>3, <4>5, <4>6 DEF a
    <3> QED
      BY <2>3, <3>8, <3>9, <3>10 DEF HelloCarries
  <2> QED
    BY <1>1, <2>1, <2>2, <2>3
<1> QED
  BY <1>5, <1>6, <1>7 DEF Carried, PlainCarries, RecCarries

\* The hello is flushed, in as many writes as it takes.
LEMMA FlushCarries ==
  ASSUME TypeInv, Carried, FlushRecord
  PROVE  Carried'
<1>1. /\ kind = "hello" /\ mode \in {"write", "readFrom"} /\ phase = "flushing" /\ Moves(0)
      /\ UNCHANGED <<helloBuf, readBroke, splitLen, recVars>>
  BY FlushStep
<1>2. PICK k \in 0 .. Len(record) :
        /\ Accepts(record, k) /\ record' = DropFirst(record, k)
        /\ phase' = IF k < Len(record) THEN "flushing" ELSE "done"
  BY FlushStep
<1>3. /\ record \in Seq(AnyByte) /\ wire \in Seq(AnyByte) /\ k \in Nat /\ Len(record) \in Nat
      /\ CallOK
      /\ mode # "broken"
  BY <1>1 DEF TypeInv, HelloOK, WireOK
<1>4. HelloCarries
  BY <1>1, <1>3, CarriedFor
<1>5. ASSUME mode' # "broken" PROVE HelloCarries' /\ kind' = "hello"
  <2>1. told' + n' = told + n /\ UNCHANGED <<kind, stream>> /\ Taken' = Taken
    BY <1>1, <1>5, TakenStays
  <2>2. wire' \o record' = wire \o record
    <3>1. wire' = wire \o FirstOf(record, k)
      BY <1>2, <1>3, AcceptsFirst
    <3>2. FirstOf(record, k) \in Seq(AnyByte) /\ DropFirst(record, k) \in Seq(AnyByte)
      BY <1>3, FirstOfProperties, DropFirstProperties
    <3>3. (wire \o FirstOf(record, k)) \o DropFirst(record, k)
            = wire \o (FirstOf(record, k) \o DropFirst(record, k))
      BY <1>3, <3>2, JoinThree
    <3>4. FirstOf(record, k) \o DropFirst(record, k) = record
      BY <1>3, FirstAndRest
    <3> QED
      BY <1>2, <3>1, <3>3, <3>4
  <2>3. phase' = "done" => record' = <<>>
    <3> SUFFICES ASSUME phase' = "done" PROVE record' = <<>>
      OBVIOUS
    <3>1. k >= Len(record)
      BY <1>2, <1>3
    <3> QED
      BY <1>2, <1>3, <3>1, FirstOfEdges
  <2>4. /\ wire \o record = IF readBroke THEN Taken ELSE InRecords(Taken)
        /\ readBroke \/ ( /\ told + n >= HeaderLen
                          /\ Validate(stream) => told + n >= HeaderLen + HelloLen )
    BY <1>1, <1>4 DEF HelloCarries
  <2>5. InRecords(Taken)' = InRecords(Taken) /\ HelloLen' = HelloLen
        /\ Validate(stream)' = Validate(stream)
    BY <1>1, <2>1 DEF InRecords, Splits, Frag, HelloLen
  <2>6. phase' # "collecting"
    BY <1>2
  <2>7. /\ (wire \o record)' = IF readBroke' THEN Taken' ELSE InRecords(Taken)'
        /\ readBroke' \/ ( /\ told' + n' >= HeaderLen
                           /\ Validate(stream)' => told' + n' >= HeaderLen + HelloLen' )
    BY <1>1, <2>1, <2>2, <2>4, <2>5
  <2> QED
    BY <1>1, <2>1, <2>3, <2>6, <2>7 DEF HelloCarries
<1> QED
  BY <1>5 DEF Carried, PlainCarries, RecCarries

\* Behind the hello.
LEMMA AfterHelloCarries ==
  ASSUME TypeInv, Carried, WriteAfterHello \/ CopyAfterHello
  PROVE  Carried'
<1>1. /\ kind = "hello" /\ mode \in {"write", "readFrom"} /\ phase = "done" /\ UNCHANGED fragVars
  BY AfterHelloStep
<1>2. /\ p \in Seq(AnyByte) /\ wire \in Seq(AnyByte) /\ CallOK /\ mode # "broken"
      /\ splitLen \in Int
      /\ Len(p) \in Nat /\ told \in Nat /\ n \in Nat
  BY <1>1 DEF TypeInv, HelloOK, CallOK, WireOK
<1>3. /\ wire \o record = IF readBroke THEN Taken ELSE InRecords(Taken)
      /\ readBroke \/ ( /\ told + n >= HeaderLen
                        /\ Validate(stream) => told + n >= HeaderLen + HelloLen )
      /\ record = <<>>
  <2>1. HelloCarries
    BY <1>1, <1>2, CarriedFor
  <2> QED
    BY <1>1, <2>1 DEF HelloCarries
<1>4. wire \o <<>> = wire
  BY <1>2, ConcatEmptySeq
<1>5. UNCHANGED <<phase, helloBuf, record, readBroke, splitLen>>
  BY <1>1 DEF fragVars, helloVars
<1>6. ASSUME NEW k \in 0 .. Len(p), Moves(k), mode' # "broken",
             wire' = wire \o FirstOf(p, k)
      PROVE  HelloCarries' /\ kind' = "hello"
  <2>1. /\ told' + n' = told + n + k /\ UNCHANGED <<kind, stream>>
        /\ Taken' = Taken \o FirstOf(p, k) /\ Taken' = FirstOf(stream, told + n + k)
        /\ FirstOf(p, k) \in Seq(AnyByte)
    BY <1>1, <1>6, TakenGrows
  <2>2. wire' \o record' = wire \o FirstOf(p, k)
    <3>1. wire \o FirstOf(p, k) \in Seq(AnyByte)
      BY <1>2, <2>1, ConcatProperties
    <3>2. (wire \o FirstOf(p, k)) \o <<>> = wire \o FirstOf(p, k)
      BY <3>1, ConcatEmptySeq
    <3> QED
      BY <1>3, <1>5, <1>6, <3>2
  <2>3. HelloLen' = HelloLen /\ (Validate(stream)' <=> Validate(stream))
    BY <2>1 DEF HelloLen
  <2>4. CASE readBroke
    <3>1. (wire \o record)' = Taken'
      BY <1>3, <1>4, <2>1, <2>2, <2>4
    <3> QED
      BY <1>1, <1>3, <1>5, <2>1, <2>4, <3>1 DEF HelloCarries
  <2>5. CASE ~readBroke
    <3>1. told + n >= HeaderLen /\ (Validate(stream) => told + n >= HeaderLen + HelloLen)
      BY <1>3, <2>5
    <3>2. CutInTwo => told + n >= HeaderLen + FirstLen
      <4> SUFFICES ASSUME CutInTwo PROVE told + n >= HeaderLen + FirstLen
        OBVIOUS
      <4>1. /\ HelloLen \in 1 .. MaxRecord /\ FirstLen \in 1 .. HelloLen - 1 /\ HeaderLen \in Nat
            /\ told + n >= HeaderLen + HelloLen
        BY <1>2, <3>1, CutLengths DEF CutInTwo
      <4>2. HelloLen \in Int /\ FirstLen \in Int /\ FirstLen < HelloLen
        BY <4>1
      <4> QED
        BY <1>2, <4>1, <4>2
    <3>3. InRecords(FirstOf(stream, told + n + k)) = InRecords(FirstOf(stream, told + n)) \o FirstOf(p, k)
      BY <1>2, <3>1, <3>2, RecordsGoOn
    <3>4. (wire \o record)' = InRecords(Taken')
      BY <1>3, <1>4, <2>1, <2>2, <2>5, <3>3 DEF Taken
    <3>5. InRecords(Taken') = InRecords(Taken)'
      BY <1>5 DEF InRecords, Splits, Frag
    <3>6. told' + n' >= HeaderLen
      BY <1>2, <2>1, <3>1, FragAssumption
    <3>7. Validate(stream)' => told' + n' >= HeaderLen + HelloLen'
      <4> SUFFICES ASSUME Validate(stream) PROVE told + n + k >= HeaderLen + HelloLen
        BY <2>1, <2>3
      <4>1. HelloLen \in Int /\ HeaderLen \in Int
        BY FragAssumption DEF Validate, HelloLen
      <4> QED
        BY <1>2, <3>1, <4>1
    <3> QED
      BY <1>1, <1>3, <1>5, <2>1, <2>5, <3>4, <3>5, <3>6, <3>7 DEF HelloCarries
  <2> QED
    BY <2>4, <2>5
<1>7. ASSUME mode' # "broken" PROVE HelloCarries' /\ kind' = "hello"
  <2>1. CASE UNCHANGED <<wire, cuts>> /\ Moves(0)
    <3>1. 0 \in 0 .. Len(p) /\ FirstOf(p, 0) = <<>>
      BY <1>2, FirstOfEdges
    <3>2. wire' = wire \o FirstOf(p, 0)
      BY <1>4, <2>1, <3>1
    <3> QED
      BY <1>6, <1>7, <2>1, <3>1, <3>2
  <2>2. ASSUME NEW k \in 0 .. Len(p), Accepts(p, k), Moves(k) \/ Breaks
        PROVE  HelloCarries' /\ kind' = "hello"
    <3>1. Moves(k)
      BY <2>2 DEF Moves
    <3>2. wire' = wire \o FirstOf(p, k)
      BY <1>2, <2>2, AcceptsFirst
    <3> QED
      BY <1>6, <1>7, <3>1, <3>2
  <2> QED
    BY <2>1, <2>2, AfterHelloStep
<1> QED
  BY <1>7 DEF Carried, PlainCarries, RecCarries

(* ------------------------------- the records ----------------------------- *)
\* The header is gathered from the stream.
LEMMA HeaderCarries ==
  ASSUME TypeInv, Carried, CollectHeader
  PROVE  Carried'
<1> DEFINE whole == FirstOf(hdr \o p, HeaderLen)
           m == Len(whole) - Len(hdr)
           len == PayloadLen(whole)
<1>1. /\ kind = "reclen" /\ mode \in {"write", "readFrom"} /\ Gathering
      /\ n = 0 /\ r1Written = 0 /\ Len(hdr) < HeaderLen
      /\ whole \in Seq(AnyByte) /\ m \in 0 .. Len(p) /\ Moves(m)
      /\ Len(whole) = Least(HeaderLen, Len(hdr) + Len(p))
      /\ UNCHANGED <<r1Written, wire, cuts, splitLen, helloVars>>
      /\ \/ /\ Len(whole) < HeaderLen /\ hdr' = whole /\ Returns(m)
            /\ UNCHANGED <<tlsHdr, r1Size, r2Size, recDone>>
         \/ /\ Len(whole) = HeaderLen /\ Validate(whole) /\ Splits(len) /\ Continues(m)
            /\ r1Size' = Frag(len) + HeaderLen /\ r2Size' = len - Frag(len) + HeaderLen
            /\ hdr' = Header(Frag(len)) /\ tlsHdr' = Frag(len) /\ UNCHANGED recDone
         \/ /\ Len(whole) = HeaderLen /\ ~(Validate(whole) /\ Splits(len)) /\ Continues(m)
            /\ hdr' = whole /\ recDone' = TRUE /\ UNCHANGED <<tlsHdr, r1Size, r2Size>>
  BY HeaderStep
<1>2. /\ hdr \in Seq(AnyByte) /\ p \in Seq(AnyByte) /\ splitLen \in Int /\ mode # "broken"
      /\ CallOK /\ HeaderLen \in Nat \ {0}
  BY <1>1, FragAssumption DEF TypeInv, HelloOK, RecOK, CallOK
<1>3. mode' # "broken" /\ kind' = "reclen"
  BY <1>1, <1>2 DEF Returns, Continues
<1>4. ASSUME ~CutHeaders PROVE RecCarries'
  <2>1. wire = <<>> /\ hdr = Taken
    BY <1>1, <1>2, <1>4, CarriedFor DEF RecCarries
  <2>2. whole = hdr \o FirstOf(p, m)
    <3>1. HeaderLen \in Nat /\ HeaderLen > Len(hdr)
      BY <1>1, <1>2
    <3>2. hdr \in Seq(AnyByte) /\ p \in Seq(AnyByte)
      BY <1>2
    <3> QED
      BY <3>1, <3>2, FilledUp
  <2> HIDE DEF m
  <2>3. /\ whole = Taken' /\ told' + n' = told + n + m /\ UNCHANGED stream /\ CallOK'
        /\ Len(whole) = told' + n' /\ Taken' = FirstOf(stream', told' + n')
    BY <1>1, <1>3, <2>1, <2>2, TakenGrows DEF Taken
  <2> HIDE DEF whole, len
  <2>4. CASE /\ Len(whole) < HeaderLen /\ hdr' = whole /\ Returns(m)
             /\ UNCHANGED <<tlsHdr, r1Size, r2Size, recDone>>
    <3>1. Gathering' /\ ~recDone' /\ tlsHdr' = 0
      BY <1>1, <2>4 DEF Gathering
    <3> QED
      BY <1>1, <2>1, <2>3, <2>4, <3>1 DEF RecCarries
  <2>5. CASE Len(whole) = HeaderLen
    <3>1. HeaderLen <= Len(stream)
      <4>1. told + n + m <= Len(stream)
        <5>1. told \in Nat /\ n \in Nat /\ Len(p) \in Nat /\ told + n + Len(p) <= Len(stream)
              /\ Len(stream) \in Nat
          BY <1>2 DEF CallOK
        <5>2. m \in 0 .. Len(p)
          BY <1>1
        <5> QED
          BY <5>1, <5>2
      <4> QED
        BY <2>3, <2>5, <4>1
    <3>2. whole = FirstOf(stream, HeaderLen) /\ HeaderLen >= 1
      BY <1>2, <2>3, <2>5
    <3>3. PayloadLen(whole) = HelloLen /\ (Validate(whole) <=> Validate(stream))
      <4>1. HeaderLen \in Nat
        BY <1>2
      <4> QED
        BY <1>2, <3>1, <3>2, <4>1, BeginningsAreHellos
    <3>4. /\ (Validate(whole) /\ Splits(len)) <=> CutInTwo
          /\ len = HelloLen /\ Frag(len) = FirstLen
      BY <3>3 DEF len, CutInTwo, HelloLen, FirstLen
    <3>5. UNCHANGED <<CutInTwo, HelloLen, FirstLen>>
      BY <1>1, <2>3 DEF CutInTwo, HelloLen, FirstLen, Splits, Frag
    <3>6. DropFirst(whole, HeaderLen) = <<>>
      <4>1. HeaderLen \in Nat /\ HeaderLen >= Len(whole)
        BY <1>2, <2>5
      <4> QED
        BY <1>1, <4>1, FirstOfEdges
    <3>7. told' + n' >= HeaderLen
      BY <1>2, <2>3, <2>5
    <3>8. CASE /\ Validate(whole) /\ Splits(len)
               /\ r1Size' = Frag(len) + HeaderLen /\ r2Size' = len - Frag(len) + HeaderLen
               /\ hdr' = Header(Frag(len)) /\ tlsHdr' = Frag(len) /\ UNCHANGED recDone
      <4>1. CutInTwo /\ hdr' = Header(FirstLen) /\ r1Size' = FirstLen + HeaderLen
            /\ r2Size' = HelloLen - FirstLen + HeaderLen /\ tlsHdr' = FirstLen
        BY <3>4, <3>8
      <4>2. FirstLen \in Nat \ {0} /\ FirstLen \in Int
        BY <1>2, <4>1, CutLengths
      <4>3. ~Gathering' /\ ~recDone'
        BY <1>1, <3>8, <4>1, <4>2 DEF Gathering
      <4>4. hdr' \in Seq(AnyByte) /\ Len(hdr') = HeaderLen
        BY <4>1, <4>2, HeaderProperties
      <4>5. r1Written' = 0
        BY <1>1
      <4>6. DataOf(hdr', r1Written') = 0
        BY <1>2, <4>4, <4>5 DEF DataOf
      <4>7. told' + n' = HeaderLen + DataOf(hdr, r1Written)'
        BY <1>2, <2>3, <2>5, <4>6 DEF DataOf
      <4>8. DropFirst(hdr', 0) = hdr' /\ <<>> \o hdr' = hdr' /\ hdr' \o <<>> = hdr'
        BY <4>4, FirstOfEdges, ConcatEmptySeq
      <4>9. (wire \o FirstHead)' = Header(FirstLen) \o <<>>
        BY <1>1, <2>1, <4>1, <4>5, <4>8 DEF FirstHead
      <4>10. (wire \o FirstHead)' = (Header(FirstLen) \o DropFirst(Taken, HeaderLen))'
        BY <2>3, <3>5, <3>6, <4>9 DEF Header
      <4>11. (Header(FirstLen))' = Header(FirstLen)
        BY <3>5 DEF Header
      <4> QED
        BY <3>5, <3>7, <4>1, <4>3, <4>5, <4>7, <4>10, <4>11 DEF RecCarries
    <3>9. CASE ~(Validate(whole) /\ Splits(len)) /\ hdr' = whole /\ recDone' = TRUE
      <4>1. InRecords(whole) = whole
        <5>1. HeaderLen \in Nat
          BY <1>2
        <5> QED
          BY <1>2, <3>1, <3>2, <3>4, <3>9, <5>1, UncutRecords
      <4>2. InRecords(Taken)' = InRecords(Taken')
        BY <1>1 DEF InRecords, Splits, Frag
      <4>3. <<>> \o hdr' = hdr'
        BY <1>1, <3>9, ConcatEmptySeq
      <4>4. (wire \o hdr)' = InRecords(Taken)'
        BY <1>1, <2>1, <2>3, <3>9, <4>1, <4>2, <4>3
      <4> QED
        BY <3>4, <3>5, <3>7, <3>9, <4>4 DEF RecCarries, Gathering
    <3>10. ~(Len(whole) < HeaderLen)
      BY <1>2, <2>5
    <3> QED
      BY <1>1, <3>8, <3>9, <3>10
  <2> QED
    BY <1>1, <2>4, <2>5
<1> QED
  BY <1>3, <1>4 DEF Carried, PlainCarries, HelloCarries

\* The first record: what is sent of its header and of the data.
LEMMA FirstRecordCarries ==
  ASSUME TypeInv, Carried, WriteFirstRecord \/ CopyFirstRecord
  PROVE  Carried'
<1> DEFINE H == HeaderLen
           f == FirstLen
           h == FirstHead
<1>1. /\ kind = "reclen" /\ mode \in {"write", "readFrom"} /\ FirstRecordDue
      /\ h \in Seq(AnyByte)
      /\ UNCHANGED <<r1Size, r2Size, splitLen, helloVars>> /\ AfterFirstRecord
  BY FirstRecordStep
<1>2. /\ p \in Seq(AnyByte) /\ Len(p) \in Nat /\ wire \in Seq(AnyByte) /\ CallOK /\ mode # "broken"
      /\ splitLen \in Int /\ hdr \in Seq(AnyByte) /\ r1Written \in Nat /\ r1Size \in Nat
      /\ Len(hdr) = H /\ H \in Nat \ {0} /\ ~recDone /\ tlsHdr # 0 /\ r1Written < r1Size
      /\ told \in Nat /\ n \in Nat
  BY <1>1, FragAssumption DEF TypeInv, HelloOK, RecOK, CallOK, WireOK, FirstRecordDue
<1>3. Len(h) \in Nat /\ Len(h) = IF r1Written < H THEN H - r1Written ELSE 0
  <2> DEFINE d == DropFirst(hdr, r1Written)
  <2>1. d \in Seq(AnyByte) /\ Len(d) = IF r1Written < Len(hdr) THEN Len(hdr) - r1Written ELSE 0
    BY <1>2, DropFirstProperties
  <2>2. h = d
    BY DEF FirstHead
  <2> HIDE DEF d, h
  <2> QED
    BY <1>2, <2>1, <2>2
<1>0. kind' = "reclen"
  BY <1>1 DEF WriteFirstRecord, CopyFirstRecord, Returns, Continues, Breaks
<1>4. SUFFICES ASSUME mode' # "broken", ~CutHeaders PROVE RecCarries' /\ kind' = "reclen"
  BY <1>0 DEF Carried, PlainCarries, HelloCarries
<1>5. /\ CutInTwo /\ hdr = Header(f)
      /\ r1Size = f + H /\ r2Size = HelloLen - f + H
      /\ told + n = H + DataOf(hdr, r1Written) /\ told + n >= H
      /\ wire \o h = Header(f) \o DropFirst(Taken, H)
      /\ mode # "readFrom" => r1Written = 0 \/ r1Written >= H
  BY <1>1, <1>2, <1>4, CarriedFor DEF RecCarries, Gathering
<1>6. f \in Nat \ {0} /\ HelloLen - f \in Nat \ {0}
  BY <1>2, <1>5, CutLengths
<1>7. ASSUME UNCHANGED <<kind, stream>>, Taken' = FirstOf(stream, told' + n'),
             NEW size \in Nat, r1Written' = r1Written + size,
             told' + n' = told + n + DataOf(h, size), Taken' \in Seq(AnyByte),
             wire' \o DropFirst(h, size) = Header(f) \o DropFirst(Taken', H),
             size <= r1Size - r1Written, wire' \in Seq(AnyByte), told' + n' <= Len(stream),
             mode' # "readFrom" => r1Written' = 0 \/ r1Written' >= H
      PROVE  RecCarries' /\ kind' = "reclen"
  <2>1. DataOf(hdr, r1Written + size) = DataOf(hdr, r1Written) + DataOf(h, size)
    BY <1>2, <1>3, <1>7 DEF DataOf
  <2>2. told' + n' = H + DataOf(hdr, r1Written + size)
    <3>1. DataOf(hdr, r1Written) \in Int /\ DataOf(h, size) \in Int
      BY <1>2, <1>3, <1>7 DEF DataOf
    <3> QED
      BY <1>2, <1>5, <1>7, <2>1, <3>1
  <2>3. DropFirst(hdr, r1Written + size) = DropFirst(h, size)
    BY <1>2, <1>7, DropTwice DEF FirstHead
  <2>4. UNCHANGED <<CutInTwo, HelloLen, FirstLen>>
    BY <1>1, <1>7 DEF CutInTwo, HelloLen, FirstLen, Splits, Frag
  <2>5. r1Written + size \in Nat /\ r1Written + size <= r1Size
    BY <1>2, <1>7
  <2>6. told' + n' >= H
    BY <1>2, <2>2, <2>5 DEF DataOf
  <2>7. CASE r1Written' < r1Size
    <3>1. UNCHANGED <<hdr, tlsHdr, recDone>>
      BY <1>1, <2>7 DEF AfterFirstRecord
    <3>2. FirstHead' = DropFirst(h, size)
      BY <1>7, <2>3, <3>1 DEF FirstHead
    <3>3. (wire \o FirstHead)' = Header(f) \o DropFirst(Taken', H)
      BY <1>7, <3>2
    <3>4. DataOf(hdr, r1Written)' = DataOf(hdr, r1Written + size)
      BY <1>7, <3>1 DEF DataOf
    <3>5. (Header(FirstLen) \o DropFirst(Taken, H))' = Header(f) \o DropFirst(Taken', H)
      BY <2>4 DEF Header
    <3>6. Header(FirstLen)' = Header(f)
      BY <2>4 DEF Header
    <3> QED
      BY <1>1, <1>2, <1>5, <1>7, <2>2, <2>4, <2>6, <3>1, <3>3, <3>4, <3>5, <3>6
         DEF RecCarries, Gathering
  <2>8. CASE ~(r1Written' < r1Size)
    <3>1. r1Written + size = f + H
      BY <1>2, <1>5, <1>6, <1>7, <2>5, <2>8
    <3>2. told' + n' = H + f
      <4>1. ~(f + H <= H)
        BY <1>2, <1>6
      <4>2. DataOf(hdr, f + H) = f
        BY <1>2, <1>6, <4>1 DEF DataOf
      <4> QED
        BY <2>2, <3>1, <4>2
    <3>3. DropFirst(h, size) = <<>>
      <4>1. r1Written + size >= Len(hdr) /\ r1Written + size \in Nat
        BY <1>2, <1>6, <3>1
      <4>2. DropFirst(hdr, r1Written + size) = <<>>
        BY <1>2, <4>1, FirstOfEdges
      <4> QED
        BY <2>3, <4>2
    <3>4. wire' = Header(f) \o DropFirst(Taken', H)
      BY <1>7, <3>3, ConcatEmptySeq
    <3>5. hdr' = Header(HelloLen - f) /\ recDone' = TRUE
      <4>1. r2Size - H = HelloLen - f
        BY <1>2, <1>5, <1>6
      <4> QED
        BY <1>1, <2>8, <4>1 DEF AfterFirstRecord
    <3>6. wire' \o hdr' = InRecords(Taken')
      <4> DEFINE a == told' + n'
      <4>1. a \in Nat /\ a <= Len(stream) /\ a >= H /\ a = H + f
        BY <1>2, <1>6, <1>7, <3>2
      <4>2. Taken' = FirstOf(stream, a)
        BY <1>7
      <4> HIDE DEF a
      <4>3. InRecords(FirstOf(stream, a))
              = (Header(f) \o DropFirst(FirstOf(stream, a), H)) \o Header(HelloLen - f)
        BY <1>2, <1>5, <4>1, CutRecords
      <4> QED
        BY <3>4, <3>5, <4>2, <4>3
    <3>7. InRecords(Taken)' = InRecords(Taken')
      BY <1>1 DEF InRecords, Splits, Frag
    <3>8. told' + n' >= H + FirstLen'
      BY <1>2, <1>6, <2>4, <3>2
    <3>9. ~Gathering'
      BY <3>5 DEF Gathering
    <3> QED
      BY <1>1, <1>7, <2>6, <3>5, <3>6, <3>7, <3>8, <3>9 DEF RecCarries
  <2> QED
    BY <2>7, <2>8
<1>8. CASE UNCHANGED <<wire, cuts, r1Written>> /\ Moves(0) /\ mode = "readFrom" /\ h = <<>>
  <2>1. told' + n' = told + n /\ UNCHANGED <<kind, stream>> /\ Taken' = Taken /\ CallOK'
    BY <1>1, <1>4, <1>8, TakenStays
  <2>2. r1Written >= H
    <3>1. Len(h) = 0
      BY <1>8, EmptySeq
    <3> QED
      BY <1>2, <1>3, <3>1
  <2>3. DataOf(h, 0) = 0 /\ DropFirst(h, 0) = h
    BY <1>1, <1>3, FirstOfEdges DEF DataOf
  <2>4. Taken' = FirstOf(stream, told' + n')
    BY <2>1 DEF Taken
  <2>5. Taken \in Seq(AnyByte) /\ told + n <= Len(stream)
    <3>1. 0 \in 0 .. Len(p) /\ told + n <= Len(stream)
      BY <1>2 DEF CallOK
    <3> QED
      BY <1>2, <3>1, NextOfStream DEF Taken
  <2>6. 0 \in Nat /\ r1Written' = r1Written + 0 /\ told' + n' = told + n + DataOf(h, 0)
        /\ 0 <= r1Size - r1Written /\ r1Written' >= H
    BY <1>2, <1>8, <2>1, <2>2, <2>3
  <2>7. wire' \o DropFirst(h, 0) = Header(f) \o DropFirst(Taken', H) /\ wire' \in Seq(AnyByte)
        /\ Taken' \in Seq(AnyByte) /\ told' + n' <= Len(stream)
    BY <1>2, <1>5, <1>8, <2>1, <2>3, <2>5
  <2> QED
    BY <1>7, <2>1, <2>4, <2>6, <2>7
<1>9. ASSUME NEW size \in 0 .. Len(h) + Len(p), NEW k \in 0 .. size,
             Accepts(h \o p, k), r1Written' = r1Written + size,
             size <= IF mode = "write" THEN FirstRecordLimit ELSE r1Size - r1Written,
             Moves(DataOf(h, size)), k = size \/ mode' = "broken",
             mode = "write" => Cut(h, size),
             Returns(n + DataOf(h, size)) => mode = "write"
      PROVE  RecCarries' /\ kind' = "reclen"
  <2> DEFINE m == DataOf(h, size)
  <2>1. /\ m \in 0 .. Len(p) /\ h \o p \in Seq(AnyByte) /\ Len(h \o p) = Len(h) + Len(p)
    BY <1>1, <1>2, <1>9, DataOfProperties
  <2>2. k = size /\ size \in Nat /\ size \in 0 .. Len(h \o p)
    BY <1>2, <1>3, <1>4, <1>9, <2>1
  <2>3. /\ told' + n' = told + n + m /\ UNCHANGED <<kind, stream>>
        /\ Taken' = Taken \o FirstOf(p, m) /\ Taken' = FirstOf(stream, told + n + m)
        /\ Taken \in Seq(AnyByte) /\ Len(Taken) = told + n /\ FirstOf(p, m) \in Seq(AnyByte)
        /\ Taken' \in Seq(AnyByte) /\ CallOK'
    BY <1>1, <1>4, <1>9, <2>1, TakenGrows
  <2> HIDE DEF m
  <2>4. wire' = wire \o FirstOf(h \o p, size)
    BY <1>9, <2>1, <2>2, AcceptsFirst
  <2>5. wire' \o DropFirst(h, size) = Header(f) \o DropFirst(Taken', H)
    <3>1. FirstOf(h \o p, size) \o DropFirst(h, size) = h \o FirstOf(p, m)
      BY <1>1, <1>2, <2>2, TakenFrom DEF m
    <3>2. FirstOf(h \o p, size) \in Seq(AnyByte) /\ DropFirst(h, size) \in Seq(AnyByte)
      BY <1>1, <2>1, <2>2, FirstOfProperties, DropFirstProperties
    <3>3. (wire \o FirstOf(h \o p, size)) \o DropFirst(h, size)
            = wire \o (FirstOf(h \o p, size) \o DropFirst(h, size))
      <4>1. wire \in Seq(AnyByte)
        BY <1>2
      <4> QED
        BY <3>2, <4>1, JoinThree
    <3>4. (wire \o h) \o FirstOf(p, m) = wire \o (h \o FirstOf(p, m))
      <4>1. h \in Seq(AnyByte) /\ wire \in Seq(AnyByte) /\ FirstOf(p, m) \in Seq(AnyByte)
        BY <1>1, <1>2, <2>3
      <4> HIDE DEF h
      <4> QED
        BY <4>1, JoinThree
    <3>5. DropFirst(Taken', H) = DropFirst(Taken, H) \o FirstOf(p, m)
      <4>1. H \in Nat /\ H <= Len(Taken)
        BY <1>2, <1>5, <2>3
      <4>2. DropFirst(Taken \o FirstOf(p, m), H) = DropFirst(Taken, H) \o FirstOf(p, m)
        BY <2>3, <4>1, DropFirstJoin
      <4> QED
        BY <2>3, <4>2
    <3>6. (Header(f) \o DropFirst(Taken, H)) \o FirstOf(p, m)
            = Header(f) \o (DropFirst(Taken, H) \o FirstOf(p, m))
      <4>1. H \in Nat /\ f \in Int
        BY <1>2, <1>6
      <4>2. Header(f) \in Seq(AnyByte) /\ DropFirst(Taken, H) \in Seq(AnyByte)
        BY <2>3, <4>1, HeaderProperties, DropFirstProperties
      <4>3. FirstOf(p, m) \in Seq(AnyByte)
        BY <2>3
      <4> QED
        BY <4>2, <4>3, JoinThree
    <3> QED
      BY <1>5, <2>4, <3>1, <3>3, <3>4, <3>5, <3>6
  <2>6. size <= r1Size - r1Written
    <3>1. mode = "write" => FirstRecordLimit = r1Size - r1Written
      <4> SUFFICES ASSUME mode = "write" PROVE FirstRecordLimit = r1Size - r1Written
        OBVIOUS
      <4>1. r1Written = 0 \/ r1Written >= H
        BY <1>5
      <4> QED
        BY <1>2, <4>1 DEF FirstRecordLimit
    <3> QED
      BY <1>9, <3>1
  <2>7. ASSUME mode' # "readFrom" PROVE r1Written' = 0 \/ r1Written' >= H
    <3>1. mode = "write"
      <4>1. CASE Returns(n + m)
        BY <1>9, <4>1 DEF m
      <4>2. CASE Continues(m)
        BY <1>1, <2>7, <4>2 DEF Continues
      <4>3. CASE Breaks
        BY <1>4, <4>3 DEF Breaks
      <4> QED
        BY <1>9, <4>1, <4>2, <4>3 DEF Moves, m
    <3>2. size \notin 1 .. Len(h) - 1
      BY <1>4, <1>9, <3>1 DEF Cut
    <3>3. r1Written = 0 \/ r1Written >= H
      BY <1>5, <3>1
    <3>4. r1Written' = r1Written + size
      BY <1>9
    <3> HIDE DEF h
    <3>5. CASE r1Written >= H
      BY <1>2, <2>2, <3>4, <3>5
    <3>6. CASE r1Written = 0
      <4>1. Len(h) = H
        BY <1>2, <1>3, <3>6
      <4>2. size = 0 \/ size >= H
        BY <1>2, <2>2, <3>2, <4>1
      <4> QED
        BY <1>2, <2>2, <3>4, <3>6, <4>2
    <3> QED
      BY <3>3, <3>5, <3>6
  <2>8. wire' \in Seq(AnyByte)
    <3>1. FirstOf(h \o p, size) \in Seq(AnyByte)
      BY <2>1, <2>2, FirstOfProperties
    <3> QED
      BY <1>2, <2>4, <3>1, ConcatProperties
  <2>9. told' + n' <= Len(stream)
    <3>1. told + n + Len(p) <= Len(stream) /\ Len(stream) \in Nat
      BY <1>2 DEF CallOK
    <3> QED
      BY <1>2, <2>1, <2>3, <3>1
  <2>10. Taken' = FirstOf(stream, told' + n')
    BY <2>3
  <2> QED
    BY <1>7, <1>9, <2>2, <2>3, <2>5, <2>6, <2>7, <2>8, <2>9, <2>10 DEF m
<1> QED
  BY <1>8, <1>9, FirstRecordStep

\* Behind the first record.
LEMMA RestCarries ==
  ASSUME TypeInv, Carried, WriteHeaderAndData \/ WriteAfterRecords \/ CopyRest
  PROVE  Carried'
<1>1. /\ kind = "reclen" /\ mode \in {"write", "readFrom"} /\ recDone /\ hdr \in Seq(AnyByte)
      /\ UNCHANGED <<tlsHdr, r1Size, r1Written, r2Size, recDone, splitLen, helloVars>>
  BY RestStep
<1>2. /\ p \in Seq(AnyByte) /\ wire \in Seq(AnyByte) /\ CallOK /\ mode # "broken"
      /\ splitLen \in Int
      /\ Len(p) \in Nat /\ Len(hdr) \in Nat /\ HeaderLen \in Nat /\ told \in Nat /\ n \in Nat
  BY <1>1, FragAssumption DEF TypeInv, HelloOK, CallOK, WireOK
<1>3. ASSUME mode' # "broken", ~CutHeaders PROVE RecCarries'
  <2>1. /\ told + n >= HeaderLen /\ (CutInTwo => told + n >= HeaderLen + FirstLen)
        /\ wire \o hdr = InRecords(Taken)
    BY <1>1, <1>2, <1>3, CarriedFor DEF RecCarries, Gathering
  <2>2. InRecords(Taken)' = InRecords(Taken')
    BY <1>1 DEF InRecords, Splits, Frag
  <2>3. ASSUME NEW m \in 0 .. Len(p), told' + n' = told + n + m, UNCHANGED <<kind, stream>>,
               wire' \o hdr' = InRecords(Taken')
        PROVE  RecCarries'
    <3>1. told' + n' >= HeaderLen
      BY <1>2, <2>1, <2>3
    <3>2. UNCHANGED <<CutInTwo, FirstLen>>
      BY <1>1, <2>3 DEF CutInTwo, HelloLen, FirstLen, Splits, Frag
    <3>3. CutInTwo => told' + n' >= HeaderLen + FirstLen
      <4> SUFFICES ASSUME CutInTwo PROVE told + n + m >= HeaderLen + FirstLen
        BY <2>3
      <4>1. FirstLen \in Nat
        BY <1>2, CutLengths
      <4> QED
        BY <1>2, <2>1, <4>1
    <3> QED
      BY <1>1, <2>2, <2>3, <3>1, <3>2, <3>3 DEF RecCarries, Gathering
  <2>4. CASE UNCHANGED <<wire, cuts, hdr>> /\ Moves(0)
    <3>1. told' + n' = told + n + 0 /\ UNCHANGED <<kind, stream>> /\ Taken' = Taken
          /\ 0 \in 0 .. Len(p)
      BY <1>1, <1>2, <1>3, <2>4, TakenStays
    <3> QED
      BY <2>1, <2>3, <2>4, <3>1
  <2>5. ASSUME NEW size \in 0 .. Len(hdr) + Len(p), NEW k \in 0 .. size, RestStepOf(size, k)
        PROVE  RecCarries'
    <3> DEFINE m == DataOf(hdr, size)
    <3>1. /\ Accepts(hdr \o p, size) /\ hdr' = DropFirst(hdr, size) /\ Moves(m)
          /\ m \in 0 .. Len(p) /\ hdr \o p \in Seq(AnyByte) /\ size \in 0 .. Len(hdr \o p)
          /\ size \in Nat
      BY <1>1, <1>2, <1>3, <2>5, DataOfProperties DEF RestStepOf
    <3>2. /\ told' + n' = told + n + m /\ UNCHANGED <<kind, stream>>
          /\ Taken' = FirstOf(stream, told + n + m) /\ FirstOf(p, m) \in Seq(AnyByte)
      BY <1>1, <1>3, <3>1, TakenGrows
    <3>3. InRecords(FirstOf(stream, told + n + m)) = InRecords(FirstOf(stream, told + n)) \o FirstOf(p, m)
      BY <1>2, <2>1, <3>1, RecordsGoOn
    <3>4. wire' = wire \o FirstOf(hdr \o p, size)
      BY <3>1, AcceptsFirst
    <3>5. FirstOf(hdr \o p, size) \o DropFirst(hdr, size) = hdr \o FirstOf(p, m)
      BY <1>1, <1>2, <3>1, TakenFrom
    <3> HIDE DEF m
    <3>6. FirstOf(hdr \o p, size) \in Seq(AnyByte) /\ DropFirst(hdr, size) \in Seq(AnyByte)
      BY <1>1, <3>1, FirstOfProperties, DropFirstProperties
    <3>7. (wire \o FirstOf(hdr \o p, size)) \o DropFirst(hdr, size)
            = wire \o (FirstOf(hdr \o p, size) \o DropFirst(hdr, size))
      BY <1>2, <3>6, JoinThree
    <3>8. (wire \o hdr) \o FirstOf(p, m) = wire \o (hdr \o FirstOf(p, m))
      <4>1. wire \in Seq(AnyByte) /\ hdr \in Seq(AnyByte)
        BY <1>1, <1>2
      <4> QED
        BY <3>2, <4>1, JoinThree
    <3>9. wire' \o hdr' = InRecords(Taken')
      BY <2>1, <3>1, <3>2, <3>3, <3>4, <3>5, <3>7, <3>8 DEF Taken
    <3> QED
      BY <2>3, <3>1, <3>2, <3>9
  <2> QED
    BY <2>4, <2>5, RestStep
<1>4. kind' = "reclen"
  BY <1>1 DEF WriteHeaderAndData, WriteAfterRecords, CopyRest, Returns, Continues, Breaks
<1> QED
  BY <1>3, <1>4 DEF Carried, PlainCarries, HelloCarries

(* ----------------------------- the invariant ----------------------------- *)
\* Every step of every writer carries on.
LEMMA CarriedStep ==
  ASSUME TypeInv, Carried, [WritersNext]_writerVars
  PROVE  Carried'
<1>1. CASE (BeginWrite \/ BeginReadFrom) /\ UNCHANGED <<splitVars, fragVars, disorderVars>>
  <2>1. n' = 0 /\ mode' \in {"write", "readFrom"} /\ mode = "idle"
        /\ UNCHANGED <<kind, stream, told, wire>>
    BY <1>1, BeginKeeps DEF TypeInv
  <2>2. mode' # "broken"
    BY <2>1
  <2> QED
    BY <1>1, <2>1, <2>2, CarriedAtRest
<1>2. CASE SplitNext /\ UNCHANGED <<fragVars, disorderVars>>
  BY <1>2, SplitStep, PlainStep
<1>3. CASE FragNext /\ UNCHANGED <<splitVars, disorderVars>>
  BY <1>3, CollectCarries, FlushCarries, AfterHelloCarries, HeaderCarries, FirstRecordCarries,
     RestCarries DEF FragNext
<1>4. CASE DisorderNext /\ UNCHANGED <<splitVars, fragVars>>
  BY <1>4, DisorderStep, PlainStep DEF disorderVars
<1>5. CASE UNCHANGED writerVars
  <2>1. UNCHANGED <<kind, stream, told, wire, splitVars, fragVars>> /\ UNCHANGED <<mode, n>>
    BY <1>5 DEF writerVars, streamVars
  <2> QED
    BY <2>1, CarriedAtRest
<1> QED
  BY <1>1, <1>2, <1>3, <1>4, <1>5 DEF WritersNext

\* Between two calls nothing is under way, and what is carried is all there is.
LEMMA CarriedIsConserved ==
  ASSUME TypeInv, Carried
  PROVE  (kind = "reclen" => ~CutHeaders) => Conserved
<1> SUFFICES ASSUME kind = "reclen" => ~CutHeaders, mode = "idle"
             PROVE  wire \o Pending = Image(FirstOf(stream, told))
  BY DEF Conserved
<1>1. /\ CallOK /\ n = 0 /\ told \in Nat /\ wire \in Seq(AnyByte)
      /\ kind \in {"split", "hello", "reclen", "disorder"}
      /\ mode # "broken" /\ told <= Len(stream) /\ HeaderLen \in Nat \ {0} /\ splitLen \in Int
      /\ stream \in Seq(AnyByte) /\ Len(stream) \in Nat /\ told + n = told
  BY FragAssumption DEF TypeInv, CallOK, WireOK, HelloOK
<1> DEFINE s == FirstOf(stream, told)
<1>2. Taken = s
  BY <1>1 DEF Taken
<1>3. s \in Seq(AnyByte) /\ Len(s) = told
  <2>1. Least(told, Len(stream)) = told
    BY <1>1 DEF Least
  <2> QED
    BY <1>1, <2>1, FirstOfProperties
<1>4. wire \o <<>> = wire
  BY <1>1, ConcatEmptySeq
<1>5. CASE kind \in {"split", "disorder"}
  <2>1. wire = s
    BY <1>1, <1>2, <1>5, CarriedFor
  <2>2. Pending = <<>> /\ Image(s) = s
    BY <1>5 DEF Pending, Image
  <2> QED
    BY <1>4, <2>1, <2>2
<1>6. CASE kind = "hello"
  <2>1. HelloCarries
    BY <1>1, <1>6, CarriedFor
  <2>2. CASE phase = "collecting"
    <3>1. wire = <<>> /\ ~readBroke /\ helloBuf = s /\ Len(helloBuf) < HelloTarget(helloBuf)
      BY <1>2, <1>6, <2>1, <2>2 DEF HelloCarries, TypeInv, HelloOK
    <3>2. <<>> \o s = s
      BY <1>3, ConcatEmptySeq
    <3>3. Pending = s
      BY <1>6, <2>2, <3>1 DEF Pending
    <3>4. ~(Len(s) >= HelloTarget(s))
      BY <1>1, <1>3, <3>1, TargetProperties
    <3>5. Image(s) = s
      BY <1>6, <3>4 DEF Image
    <3> QED
      BY <3>1, <3>2, <3>3, <3>5
  <2>3. CASE phase # "collecting"
    <3>1. /\ wire \o record = IF readBroke THEN s ELSE InRecords(s)
          /\ readBroke \/ (told >= HeaderLen /\ (Validate(stream) => told >= HeaderLen + HelloLen))
      BY <1>1, <1>2, <1>6, <2>1, <2>3 DEF HelloCarries
    <3>2. Pending = record
      BY <1>6, <2>3 DEF Pending
    <3>3. CASE readBroke
      BY <1>6, <3>1, <3>2, <3>3 DEF Image
    <3>4. CASE ~readBroke
      <4>1. told >= HeaderLen /\ told >= 1
        BY <1>1, <3>1, <3>4
      <4>2. PayloadLen(s) = HelloLen /\ (Validate(s) <=> Validate(stream))
        BY <1>1, <4>1, BeginningsAreHellos
      <4> HIDE DEF s
      <4>3. Len(s) >= HelloTarget(s)
        BY <1>3, <3>1, <3>4, <4>1, <4>2 DEF HelloTarget
      <4> QED
        BY <1>6, <3>1, <3>2, <3>4, <4>3 DEF Image, s
    <3> QED
      BY <3>3, <3>4
  <2> QED
    BY <2>2, <2>3
<1>7. CASE kind = "reclen"
  <2>1. RecCarries /\ Image(s) = InRecords(s) /\ RecOK
    BY <1>1, <1>7, CarriedFor DEF Image, TypeInv
  <2>2. CASE Gathering
    <3>1. wire = <<>> /\ hdr = s /\ Len(hdr) < HeaderLen
      BY <1>2, <1>7, <2>1, <2>2 DEF RecCarries, RecOK
    <3>2. <<>> \o s = s
      BY <1>3, ConcatEmptySeq
    <3>3. Pending = hdr
      BY <1>7, <2>2 DEF Pending, FirstRecordDue, Gathering
    <3>4. InRecords(s) = s
      BY <1>1, <1>3, <3>1, UncutRecords
    <3> QED
      BY <2>1, <3>1, <3>2, <3>3, <3>4
  <2>3. CASE ~recDone /\ tlsHdr # 0
    <3>1. /\ CutInTwo /\ hdr = Header(FirstLen) /\ told = HeaderLen + DataOf(hdr, r1Written)
          /\ r1Size = FirstLen + HeaderLen /\ r1Written < r1Size /\ told >= HeaderLen
          /\ wire \o FirstHead = Header(FirstLen) \o DropFirst(s, HeaderLen)
          /\ r1Written \in Nat /\ Len(hdr) = HeaderLen
      <4>1. r1Written \in Nat /\ Len(hdr) = HeaderLen /\ r1Written < r1Size
        BY <1>1, <2>1, <2>3, FragAssumption DEF RecOK
      <4> QED
        BY <1>1, <1>2, <1>7, <2>1, <2>3, <4>1 DEF RecCarries, Gathering
    <3>2. Pending = FirstHead
      BY <1>7, <2>3, <3>1 DEF Pending, FirstRecordDue, FirstHead
    <3>3. told < HeaderLen + FirstLen
      <4>1. FirstLen \in Nat \ {0}
        BY <1>1, <3>1, CutLengths
      <4> QED
        BY <1>1, <3>1, <4>1 DEF DataOf
    <3>4. InRecords(s) = Header(FirstLen) \o DropFirst(s, HeaderLen)
      BY <1>1, <3>1, <3>3, CutRecords
    <3> QED
      BY <2>1, <3>1, <3>2, <3>4
  <2>4. CASE recDone
    <3>1. wire \o hdr = InRecords(s)
      BY <1>2, <1>7, <2>1, <2>4 DEF RecCarries
    <3>2. Pending = hdr
      BY <1>7, <2>4 DEF Pending, FirstRecordDue
    <3> QED
      BY <2>1, <3>1, <3>2
  <2> QED
    BY <2>1, <2>2, <2>3, <2>4 DEF Gathering, RecOK
<1> QED
  BY <1>1, <1>5, <1>6, <1>7

\* Between two calls the wire and what the writer holds back are exactly what
\* the caller was told was written, with the hello in two well-formed records,
\* whatever the writer, the stream, the split length and the part of each write
\* the base takes before it fails (transport/split/writer.go,
\* transport/tlsfrag/writer.go, x/disorder/writer.go); for record_len_writer.go
\* as long as no base write ends inside a record header.
THEOREM NothingIsLost ==
  WritersSpec => []((kind = "reclen" => ~CutHeaders) => Conserved)
<1>1. WritersInit => TypeInv /\ Carried
  BY WritersBegin, CarriedAtFirst
<1>2. TypeInv /\ Carried /\ [WritersNext]_writerVars => TypeInv' /\ Carried'
  BY WritersStep, CarriedStep
<1>3. TypeInv /\ Carried => ((kind = "reclen" => ~CutHeaders) => Conserved)
  BY CarriedIsConserved
<1> QED
  BY <1>1, <1>2, <1>3, PTL DEF WritersSpec

(* ------------------------------ split points ---------------------------- *)
\* The bytes of each split, and those before it, as SplitPoints counts them.
Lengths(splits) ==
  [i \in DOMAIN splits |-> IF splits[i].count > 0 /\ splits[i].bytes > 0
                           THEN splits[i].count * splits[i].bytes ELSE 0]

Before(splits) ==
  CHOOSE f : f = [i \in 1 .. Len(splits) + 1 |-> IF i = 1 THEN 0
                                                 ELSE f[i - 1] + Lengths(splits)[i - 1]]

PointsOf(splits) ==
  UNION {{Before(splits)[i] + j * splits[i].bytes :
            j \in IF splits[i].bytes > 0 THEN 1 .. splits[i].count ELSE {}} :
           i \in DOMAIN splits}

\* More of them reach further.
LEMMA TimesGrows ==
  ASSUME NEW a \in Nat, NEW b \in Nat, NEW c \in Nat, a <= b
  PROVE  a * c <= b * c /\ a * c \in Nat /\ (a + 1) * c = a * c + c
<1>1. (b - a) * c >= 0
  <2>1. b - a >= 0 /\ b - a \in Int /\ c >= 0
    OBVIOUS
  <2> QED
    BY <2>1
<1>2. (b - a) * c = b * c - a * c
  OBVIOUS
<1>3. (a + 1) * c = a * c + c
  OBVIOUS
<1>4. a * c \in Int /\ b * c \in Int /\ a * c >= 0
  OBVIOUS
<1> QED
  BY <1>1, <1>2, <1>3, <1>4

\* Some number of them, and one number of them.
LEMMA TimesIsNat ==
  ASSUME NEW a \in Nat, NEW c \in Nat
  PROVE  a * c \in Nat /\ 1 * c = c
<1>1. a * c \in Int /\ a * c >= 0
  OBVIOUS
<1> QED
  BY <1>1

\* One repetition fewer.
LEMMA OneFewer ==
  ASSUME NEW x \in [count : Int, bytes : Int]
  PROVE  [x EXCEPT !.count = @ - 1] = [count |-> x.count - 1, bytes |-> x.bytes]
  OBVIOUS

\* What a split does of the plan, and its bytes.
LEMMA SplitParts ==
  ASSUME NEW splits \in Seq([count : Int, bytes : Int]), NEW i \in 1 .. Len(splits)
  PROVE  /\ splits[i] \in [count : Int, bytes : Int]
         /\ splits[i].count \in Int /\ splits[i].bytes \in Int
         /\ Useful(splits[i]) => /\ splits[i].count \in Nat /\ splits[i].bytes \in Nat
                                 /\ Lengths(splits)[i] = splits[i].count * splits[i].bytes
         /\ Lengths(splits)[i] \in Nat
<1>1. splits[i] \in [count : Int, bytes : Int]
  BY ElementOfSeq
<1>2. splits[i].count \in Int /\ splits[i].bytes \in Int
  BY <1>1
<1>3. Lengths(splits)[i] = IF Useful(splits[i]) THEN splits[i].count * splits[i].bytes ELSE 0
  <2>1. i \in DOMAIN splits
    OBVIOUS
  <2> QED
    BY <2>1 DEF Lengths, Useful
<1>4. CASE Useful(splits[i])
  <2>1. splits[i].count \in Nat /\ splits[i].bytes \in Nat
    BY <1>2, <1>4 DEF Useful
  <2>2. splits[i].count * splits[i].bytes \in Nat
    BY <2>1, TimesGrows
  <2> QED
    BY <1>1, <1>2, <1>3, <1>4, <2>1, <2>2
<1>5. CASE ~Useful(splits[i])
  BY <1>1, <1>2, <1>3, <1>5
<1> QED
  BY <1>4, <1>5

\* There is a function that counts what is before each split.
LEMMA BeforeExists ==
  ASSUME NEW splits \in Seq([count : Int, bytes : Int])
  PROVE  /\ \A i \in 1 .. Len(splits) + 1 : Before(splits)[i] \in Nat
         /\ Before(splits)[1] = 0
         /\ \A i \in 1 .. Len(splits) : Before(splits)[i + 1] = Before(splits)[i] + Lengths(splits)[i]
<1> DEFINE L == Len(splits)
           Counts(f, i) == f[i] = IF i = 1 THEN 0 ELSE f[i - 1] + Lengths(splits)[i - 1]
           Can(k) == \E g \in [1 .. k + 1 -> Nat] : \A i \in 1 .. k + 1 : Counts(g, i)
           Cannot == {k \in 0 .. L : ~Can(k)}
<1>1. L \in Nat
  OBVIOUS
<1>2. Can(0)
  <2> DEFINE g == [i \in 1 .. 0 + 1 |-> 0]
  <2>1. g \in [1 .. 0 + 1 -> Nat] /\ \A i \in 1 .. 0 + 1 : Counts(g, i)
    OBVIOUS
  <2> HIDE DEF g, Counts
  <2> QED
    BY <2>1
<1>3. ASSUME NEW k \in 0 .. L, k # 0, Can(k - 1) PROVE Can(k)
  <2>1. k \in 1 .. L /\ (k - 1) + 1 = k /\ k \in 1 .. k /\ (k + 1) - 1 = k /\ k + 1 # 1
    BY <1>1, <1>3
  <2>2. PICK g \in [1 .. k -> Nat] : \A i \in 1 .. k : Counts(g, i)
    BY <1>3, <2>1
  <2> DEFINE G == [i \in 1 .. k + 1 |-> IF i = k + 1 THEN g[k] + Lengths(splits)[k] ELSE g[i]]
  <2>3. Lengths(splits)[k] \in Nat
    BY <2>1, SplitParts
  <2>4. g[k] \in Nat /\ g[k] + Lengths(splits)[k] \in Nat
    BY <2>1, <2>2, <2>3
  <2>5. \A i \in 1 .. k + 1 : i # k + 1 => i \in 1 .. k
    BY <2>1
  <2>6. G \in [1 .. k + 1 -> Nat]
    BY <2>2, <2>4, <2>5
  <2>7. ASSUME NEW i \in 1 .. k + 1 PROVE Counts(G, i)
    <3>1. CASE i = k + 1
      <4>1. G[k + 1] = g[k] + Lengths(splits)[k]
        BY <2>1
      <4>2. G[k] = g[k]
        <5>1. k \in 1 .. k + 1 /\ k # k + 1
          BY <2>1
        <5> QED
          BY <5>1
      <4> HIDE DEF G
      <4> QED
        BY <2>1, <3>1, <4>1, <4>2
    <3>2. CASE i # k + 1
      <4>1. G[i] = g[i] /\ i \in 1 .. k
        BY <2>5, <3>2
      <4>2. i # 1 => G[i - 1] = g[i - 1]
        <5>1. i # 1 => i - 1 \in 1 .. k + 1 /\ i - 1 # k + 1
          BY <2>1, <4>1
        <5> QED
          BY <5>1
      <4> HIDE DEF G
      <4> QED
        BY <2>2, <4>1, <4>2
    <3> QED
      BY <3>1, <3>2
  <2> HIDE DEF G, Counts
  <2> QED
    BY <2>6, <2>7
<1>4. Cannot = {}
  <2> SUFFICES ASSUME Cannot # {} PROVE FALSE
    OBVIOUS
  <2> HIDE DEF Can
  <2>1. Cannot \subseteq Nat
    BY <1>1
  <2> HIDE DEF Cannot
  <2>2. PICK k \in Cannot : \A j \in Cannot : k <= j
    BY <2>1, LeastOf
  <2> USE DEF Cannot
  <2>3. k \in 0 .. L /\ ~Can(k)
    BY <2>2
  <2>4. k # 0
    BY <1>2, <2>3
  <2>5. k - 1 \in 0 .. L /\ ~(k <= k - 1)
    BY <1>1, <2>3, <2>4
  <2>6. Can(k - 1)
    BY <2>2, <2>5
  <2> QED
    BY <1>3, <2>3, <2>4, <2>6
<1>5. PICK g \in [1 .. L + 1 -> Nat] : \A i \in 1 .. L + 1 : Counts(g, i)
  <2>1. L \in 0 .. L
    BY <1>1
  <2>2. Can(L)
    BY <1>4, <2>1
  <2> QED
    BY <2>2
<1>6. g = [i \in 1 .. L + 1 |-> IF i = 1 THEN 0 ELSE g[i - 1] + Lengths(splits)[i - 1]]
  BY <1>5
<1>7. Before(splits) = [i \in 1 .. L + 1 |-> IF i = 1 THEN 0 ELSE Before(splits)[i - 1] + Lengths(splits)[i - 1]]
  BY <1>6 DEF Before
<1>8. \A i \in 1 .. L + 1 : Before(splits)[i] = IF i = 1 THEN 0 ELSE Before(splits)[i - 1] + Lengths(splits)[i - 1]
  BY <1>7
<1> HIDE DEF L
<1>9. ASSUME NEW i \in 1 .. L
      PROVE  Before(splits)[i + 1] = Before(splits)[i] + Lengths(splits)[i]
  <2>1. i + 1 \in 1 .. L + 1 /\ i + 1 # 1 /\ (i + 1) - 1 = i
    BY <1>1
  <2> QED
    BY <1>8, <2>1
<1>10. Before(splits)[1] = 0
  <2>1. 1 \in 1 .. L + 1
    BY <1>1
  <2> QED
    BY <1>8, <2>1
<1>11. \A i \in 1 .. L + 1 : Before(splits)[i] \in Nat
  <2> DEFINE Untyped == {i \in 1 .. L + 1 : Before(splits)[i] \notin Nat}
  <2>1. ASSUME Untyped # {} PROVE FALSE
    <3>1. Untyped \subseteq Nat
      BY <1>1
    <3> HIDE DEF Untyped
    <3>2. PICK k \in Untyped : \A j \in Untyped : k <= j
      BY <2>1, <3>1, LeastOf
    <3> USE DEF Untyped
    <3>3. k \in 1 .. L + 1 /\ Before(splits)[k] \notin Nat
      BY <3>2
    <3>4. k # 1
      BY <1>10, <3>3
    <3>5. k - 1 \in 1 .. L + 1 /\ k - 1 \in 1 .. L /\ ~(k <= k - 1) /\ (k - 1) + 1 = k
      BY <1>1, <3>3, <3>4
    <3>6. Before(splits)[k - 1] \in Nat
      BY <3>2, <3>5
    <3>7. Lengths(splits)[k - 1] \in Nat
      BY <3>5, SplitParts DEF L
    <3>8. Before(splits)[k] = Before(splits)[k - 1] + Lengths(splits)[k - 1]
      BY <1>9, <3>5
    <3> QED
      BY <3>3, <3>6, <3>7, <3>8
  <2> QED
    BY <2>1
<1> QED
  BY <1>9, <1>10, <1>11 DEF L

\* What is before a split is not less than what is before an earlier one.
LEMMA BeforeGrows ==
  ASSUME NEW splits \in Seq([count : Int, bytes : Int]),
         NEW i \in 1 .. Len(splits) + 1, NEW k \in 1 .. Len(splits) + 1, i <= k
  PROVE  Before(splits)[i] <= Before(splits)[k]
<1> DEFINE B == Before(splits)
           L == Len(splits)
           Less == {j \in i .. L + 1 : ~(B[i] <= B[j])}
<1>1. L \in Nat /\ i \in 1 .. L + 1 /\ k \in 1 .. L + 1
  OBVIOUS
<1>2. /\ \A j \in 1 .. L + 1 : B[j] \in Nat
      /\ \A j \in 1 .. L : B[j + 1] = B[j] + Lengths(splits)[j] /\ Lengths(splits)[j] \in Nat
  BY BeforeExists, SplitParts
<1> HIDE DEF B, L
<1>3. ASSUME Less # {} PROVE FALSE
  <2>1. Less \subseteq Nat
    BY <1>1
  <2> HIDE DEF Less
  <2>2. PICK j \in Less : \A l \in Less : j <= l
    BY <1>3, <2>1, LeastOf
  <2> USE DEF Less
  <2>3. j \in i .. L + 1 /\ ~(B[i] <= B[j])
    BY <2>2
  <2>4. j # i
    BY <1>1, <1>2, <2>3
  <2>5. j - 1 \in i .. L + 1 /\ j - 1 \in 1 .. L /\ ~(j <= j - 1) /\ (j - 1) + 1 = j
    BY <1>1, <2>3, <2>4
  <2>6. B[i] <= B[j - 1]
    BY <2>2, <2>5
  <2>7. B[j] = B[j - 1] + Lengths(splits)[j - 1] /\ Lengths(splits)[j - 1] \in Nat
    BY <1>2, <2>5
  <2>8. B[i] \in Nat /\ B[j - 1] \in Nat
    BY <1>1, <1>2, <2>5
  <2> QED
    BY <2>3, <2>6, <2>7, <2>8
<1>4. k \in i .. L + 1
  BY <1>1
<1> QED
  BY <1>3, <1>4 DEF B

(* What the iterator holds at some point of the plan. *)
\* Behind the j-th repetition of split i.
RestOf(splits, i, j) ==
  IF j = splits[i].count THEN Kept(splits)[i + 1]
  ELSE <<[count |-> splits[i].count - j, bytes |-> splits[i].bytes]>> \o Kept(splits)[i + 1]

\* The next split, m bytes on from w, is the j-th repetition of split i.
NextAt(splits, i, j, w, m, rest) ==
  /\ Useful(splits[i])
  /\ m > 0 /\ m <= splits[i].bytes
  /\ w + m = Before(splits)[i] + j * splits[i].bytes
  /\ rest = RestOf(splits, i, j)

\* The next split is m bytes on from w, or there is none and m is 0.
Ahead(splits, w, m, rest) ==
  \/ m = 0 /\ rest = <<>> /\ \A s \in PointsOf(splits) : s <= w
  \/ \E i \in 1 .. Len(splits) : \E j \in 1 .. splits[i].count : NextAt(splits, i, j, w, m, rest)

\* A sequence with something in front: its head and its tail.
LEMMA ConsParts ==
  ASSUME NEW S, NEW x \in S, NEW s \in Seq(S)
  PROVE  /\ <<x>> \o s # <<>> /\ <<x>> \o s \in Seq(S)
         /\ Head(<<x>> \o s) = x /\ Tail(<<x>> \o s) = s
<1>1. <<x>> \in Seq(S) /\ Len(<<x>>) = 1 /\ <<x>>[1] = x
  OBVIOUS
<1> DEFINE o == <<x>>
<1>2. o \in Seq(S) /\ Len(o) = 1 /\ o[1] = x
  BY <1>1
<1> HIDE DEF o
<1> DEFINE t == o \o s
           l == Len(s)
<1>3. t \in Seq(S) /\ Len(t) = 1 + l /\ t[1] = x /\ \A i \in 1 .. l : t[1 + i] = s[i]
  <2>1. /\ t \in Seq(S) /\ Len(t) = Len(o) + Len(s)
        /\ \A i \in 1 .. Len(o) : t[i] = o[i]
        /\ \A i \in 1 .. Len(s) : t[Len(o) + i] = s[i]
    <3>1. o \in Seq(S) /\ s \in Seq(S)
      BY <1>2
    <3> QED
      BY <3>1, JoinProperties
  <2> HIDE DEF t
  <2> QED
    BY <1>2, <2>1
<1>4. l \in Nat
  OBVIOUS
<1> HIDE DEF t
<1>5. t # <<>>
  <2>1. Len(t) # 0
    BY <1>3, <1>4
  <2> QED
    BY <1>3, <2>1, EmptySeq
<1>6. Head(t) = x
  <2>1. Head(t) = t[1]
    BY <1>3, <1>5
  <2> QED
    BY <1>3, <2>1
<1>7. Tail(t) = s
  <2>1. /\ Tail(t) \in Seq(S) /\ Len(Tail(t)) = Len(t) - 1
        /\ \A i \in 1 .. Len(Tail(t)) : Tail(t)[i] = t[i + 1]
    BY <1>3, <1>5, HeadTailProperties
  <2>2. Len(Tail(t)) = l
    BY <1>3, <1>4, <2>1
  <2>3. \A i \in 1 .. l : Tail(t)[i] = s[i]
    <3>1. \A i \in 1 .. l : i + 1 = 1 + i
      BY <1>4
    <3> QED
      BY <1>3, <2>1, <2>2, <3>1
  <2> QED
    BY <2>1, <2>2, <2>3, SeqEqual DEF l
<1> QED
  BY <1>3, <1>5, <1>6, <1>7 DEF t, o

\* What is kept from i on: the first split that does something and what is kept
\* behind it, with nothing skipped that counts; or nothing, if none does.
Skips(splits, i) ==
  \/ Kept(splits)[i] = <<>> /\ \A k \in i .. Len(splits) : ~Useful(splits[k])
  \/ \E k \in i .. Len(splits) :
       /\ Useful(splits[k]) /\ Kept(splits)[i] = <<splits[k]>> \o Kept(splits)[k + 1]
       /\ Before(splits)[k] = Before(splits)[i]

\* Going on from i skips nothing that counts.
LEMMA SkipsTo ==
  ASSUME NEW splits \in Seq([count : Int, bytes : Int]), NEW i \in 1 .. Len(splits) + 1
  PROVE  Skips(splits, i)
<1> DEFINE L == Len(splits)
           Not == {k \in 0 .. L : ~Skips(splits, L + 1 - k)}
<1>1. L \in Nat
  OBVIOUS
<1>2. \A k \in 1 .. L + 1 : Kept(splits)[k] = KeepFrom(splits, k, Kept(splits)[k + 1])
  BY KeptExists
<1> HIDE DEF L
<1>3. ASSUME Not # {} PROVE FALSE
  <2>1. Not \subseteq Nat
    BY <1>1
  <2> HIDE DEF Not
  <2>2. PICK k \in Not : \A l \in Not : k <= l
    BY <1>3, <2>1, LeastOf
  <2> USE DEF Not
  <2> DEFINE a == L + 1 - k
  <2>3. k \in 0 .. L /\ ~Skips(splits, a) /\ a \in 1 .. L + 1
    BY <1>1, <2>2
  <2>4. CASE k = 0
    <3>1. a > Len(splits) /\ a .. Len(splits) = {}
      BY <1>1, <2>3, <2>4 DEF L
    <3>2. Kept(splits)[a] = <<>>
      BY <1>2, <2>3, <3>1 DEF KeepFrom
    <3> QED
      BY <2>3, <3>1, <3>2 DEF Skips
  <2>5. CASE k # 0
    <3>1. k - 1 \in 0 .. L /\ ~(k <= k - 1) /\ L + 1 - (k - 1) = a + 1 /\ a \in 1 .. L
      BY <1>1, <2>3, <2>5
    <3>2. Skips(splits, a + 1)
      BY <2>2, <3>1
    <3>3. ~(a > Len(splits)) /\ a \in a .. Len(splits)
      BY <1>1, <3>1 DEF L
    <3>4. Kept(splits)[a] = IF Useful(splits[a]) THEN <<splits[a]>> \o Kept(splits)[a + 1]
                            ELSE Kept(splits)[a + 1]
      BY <1>2, <2>3, <3>3 DEF KeepFrom, Useful
    <3>5. CASE Useful(splits[a])
      BY <2>3, <3>3, <3>4, <3>5 DEF Skips
    <3>6. CASE ~Useful(splits[a])
      <4>1. Before(splits)[a + 1] = Before(splits)[a]
        <5>1. Lengths(splits)[a] = 0
          <6>1. a \in DOMAIN splits
            BY <3>1 DEF L
          <6> QED
            BY <3>6, <6>1 DEF Lengths, Useful
        <5>2. Before(splits)[a + 1] = Before(splits)[a] + 0 /\ Before(splits)[a] \in Nat
          BY <2>3, <3>1, <5>1, BeforeExists DEF L
        <5> QED
          BY <5>2
      <4> HIDE DEF a
      <4>2. \A l \in a .. Len(splits) : l = a \/ l \in a + 1 .. Len(splits)
        <5>1. a \in Nat /\ L \in Nat
          BY <1>1, <2>3
        <5> QED
          BY <5>1 DEF L
      <4>3. \A l \in a + 1 .. Len(splits) : l \in a .. Len(splits)
        BY <1>1, <3>1 DEF L
      <4> QED
        BY <2>3, <3>2, <3>4, <3>6, <4>1, <4>2, <4>3 DEF Skips
    <3> QED
      BY <3>5, <3>6
  <2> QED
    BY <2>4, <2>5
<1>4. L + 1 - i \in 0 .. L /\ L + 1 - (L + 1 - i) = i
  BY <1>1 DEF L
<1> QED
  BY <1>3, <1>4

\* A split point is behind some repetition of some split.
LEMMA PointIsBehind ==
  ASSUME NEW splits \in Seq([count : Int, bytes : Int]), NEW s \in PointsOf(splits)
  PROVE  \E i \in 1 .. Len(splits) : \E j \in 1 .. splits[i].count :
           Useful(splits[i]) /\ s = Before(splits)[i] + j * splits[i].bytes
<1>1. PICK i \in DOMAIN splits :
        s \in {Before(splits)[i] + j * splits[i].bytes :
                 j \in IF splits[i].bytes > 0 THEN 1 .. splits[i].count ELSE {}}
  BY DEF PointsOf
<1>2. i \in 1 .. Len(splits)
  OBVIOUS
<1>3. splits[i].bytes > 0
  BY <1>1
<1>4. PICK j \in 1 .. splits[i].count : s = Before(splits)[i] + j * splits[i].bytes
  BY <1>1, <1>3
<1>5. splits[i].count > 0
  BY <1>2, SplitParts
<1> QED
  BY <1>2, <1>3, <1>4, <1>5 DEF Useful

\* No split lies between two that follow each other: what is behind an earlier
\* repetition or split is not further than the one before, what is behind a
\* later one not nearer.
LEMMA NoneBetween ==
  ASSUME NEW splits \in Seq([count : Int, bytes : Int]),
         NEW i \in 1 .. Len(splits), NEW j \in 1 .. splits[i].count, Useful(splits[i]),
         NEW s \in PointsOf(splits)
  PROVE  \/ s <= Before(splits)[i] + (j - 1) * splits[i].bytes
         \/ s >= Before(splits)[i] + j * splits[i].bytes
<1> DEFINE B == Before(splits)
           L == Len(splits)
<1>1. PICK i2 \in 1 .. L : \E j2 \in 1 .. splits[i2].count :
        Useful(splits[i2]) /\ s = B[i2] + j2 * splits[i2].bytes
  BY PointIsBehind
<1>2. PICK j2 \in 1 .. splits[i2].count : Useful(splits[i2]) /\ s = B[i2] + j2 * splits[i2].bytes
  BY <1>1
<1>3. /\ L \in Nat /\ B[i] \in Nat /\ B[i2] \in Nat
      /\ i + 1 \in 1 .. L + 1 /\ i2 + 1 \in 1 .. L + 1 /\ i \in 1 .. L + 1 /\ i2 \in 1 .. L + 1
  BY BeforeExists
<1>4. ASSUME NEW x \in 1 .. L, NEW y \in 1 .. splits[x].count, Useful(splits[x])
      PROVE  /\ splits[x].bytes \in Nat /\ splits[x].count \in Nat /\ y \in Nat /\ y - 1 \in Nat
             /\ y * splits[x].bytes \in Nat /\ (y - 1) * splits[x].bytes \in Nat
             /\ B[x] + y * splits[x].bytes <= B[x + 1]
  <2>1. splits[x].bytes \in Nat /\ splits[x].count \in Nat
    BY <1>4, SplitParts
  <2>2. y \in Nat /\ y - 1 \in Nat /\ y <= splits[x].count
    BY <2>1
  <2>3. y * splits[x].bytes <= splits[x].count * splits[x].bytes
    BY <2>1, <2>2, TimesGrows
  <2>4. y * splits[x].bytes \in Nat /\ (y - 1) * splits[x].bytes \in Nat
    BY <2>1, <2>2, TimesIsNat
  <2>5. B[x + 1] = B[x] + Lengths(splits)[x] /\ B[x] \in Nat
    <3>1. x \in 1 .. L + 1
      BY <1>3
    <3> QED
      BY <3>1, BeforeExists
  <2>6. Lengths(splits)[x] = splits[x].count * splits[x].bytes /\ Lengths(splits)[x] \in Nat
    BY <1>4, SplitParts
  <2>7. \A b, u, v, w \in Nat : u <= v /\ w = b + v => b + u <= w
    OBVIOUS
  <2>8. B[x] + y * splits[x].bytes <= B[x + 1]
    <3>1. splits[x].count * splits[x].bytes \in Nat
      BY <2>6
    <3>2. x + 1 \in 1 .. L + 1
      BY <1>3
    <3>3. B[x + 1] \in Nat
      BY <3>2, BeforeExists
    <3> HIDE DEF B
    <3>4. B[x + 1] = B[x] + splits[x].count * splits[x].bytes
      BY <2>5, <2>6
    <3>5. y * splits[x].bytes \in Nat /\ B[x] \in Nat
      BY <2>4, <2>5
    <3> QED
      <4>1. PICK u \in Nat, v \in Nat :
              u = y * splits[x].bytes /\ v = splits[x].count * splits[x].bytes
        BY <3>1, <3>5
      <4>2. u <= v /\ B[x + 1] = B[x] + v
        BY <2>3, <3>4, <4>1
      <4>3. PICK q \in Nat, r \in Nat : q = B[x] /\ r = B[x + 1]
        BY <3>3, <3>5
      <4>4. u <= v /\ r = q + v
        BY <4>2, <4>3
      <4>5. q + u <= r
        BY <4>4
      <4> QED
        BY <4>1, <4>3, <4>5
  <2> QED
    BY <2>1, <2>2, <2>4, <2>8
<1>5. /\ splits[i].bytes \in Nat /\ j \in Nat /\ j - 1 \in Nat
      /\ j * splits[i].bytes \in Nat /\ (j - 1) * splits[i].bytes \in Nat
      /\ B[i] + j * splits[i].bytes <= B[i + 1]
  BY <1>4
<1>6. /\ splits[i2].bytes \in Nat /\ j2 \in Nat /\ j2 * splits[i2].bytes \in Nat
      /\ B[i2] + j2 * splits[i2].bytes <= B[i2 + 1]
  BY <1>2, <1>4
<1>7. \A k, l \in 1 .. L + 1 : k <= l => B[k] <= B[l]
  BY BeforeGrows
<1>8. \A k \in 1 .. L + 1 : B[k] \in Nat
  BY BeforeExists
<1> HIDE DEF B, L
<1>12. /\ \A b, u, v \in Nat : u <= v => b + u <= b + v /\ b + v >= b + u
       /\ \A b, u \in Nat : b <= b + u
  OBVIOUS
<1>14. /\ s \in Nat /\ B[i] + j * splits[i].bytes \in Nat
       /\ B[i] + (j - 1) * splits[i].bytes \in Nat
  <2>1. \A b, u \in Nat : b + u \in Nat
    OBVIOUS
  <2> QED
    BY <1>2, <1>3, <1>5, <1>6, <2>1
<1>9. CASE i2 = i
  <2>1. CASE j2 <= j - 1
    <3>1. j2 * splits[i].bytes <= (j - 1) * splits[i].bytes
      BY <1>5, <1>6, <2>1, TimesGrows
    <3>2. s = B[i] + j2 * splits[i].bytes /\ j2 * splits[i].bytes \in Nat
      BY <1>2, <1>6, <1>9
    <3>3. s <= B[i] + (j - 1) * splits[i].bytes
      BY <1>3, <1>5, <1>12, <3>1, <3>2
    <3> QED
      BY <3>3 DEF B
  <2>2. CASE j <= j2
    <3>1. j * splits[i].bytes <= j2 * splits[i].bytes
      BY <1>5, <1>6, <2>2, TimesGrows
    <3>2. s = B[i] + j2 * splits[i].bytes /\ j2 * splits[i].bytes \in Nat
      BY <1>2, <1>6, <1>9
    <3>3. s >= B[i] + j * splits[i].bytes
      BY <1>3, <1>5, <1>12, <3>1, <3>2
    <3> QED
      BY <3>3 DEF B
  <2> QED
    BY <1>5, <1>6, <2>1, <2>2
<1>10. CASE i2 < i
  <2>1. i2 + 1 <= i
    BY <1>3, <1>10
  <2>2. B[i2 + 1] <= B[i]
    BY <1>3, <1>7, <2>1
  <2>3. B[i2 + 1] \in Nat
    BY <1>3, <1>8
  <2>4. B[i] <= B[i] + (j - 1) * splits[i].bytes
    BY <1>3, <1>5, <1>12
  <2>5. \A t, u, v, w \in Nat : t <= u /\ u <= v /\ v <= w => t <= w
    OBVIOUS
  <2>6. s <= B[i2 + 1]
    BY <1>2, <1>6
  <2>7. s \in Nat /\ B[i] + (j - 1) * splits[i].bytes \in Nat
    BY <1>14
  <2>8. s <= B[i] + (j - 1) * splits[i].bytes
    BY <1>3, <2>2, <2>3, <2>4, <2>5, <2>6, <2>7
  <2> QED
    BY <2>8 DEF B
<1>11. CASE i < i2
  <2>1. i + 1 <= i2
    BY <1>3, <1>11
  <2>2. B[i + 1] <= B[i2] /\ B[i + 1] \in Nat
    BY <1>3, <1>7, <1>8, <2>1
  <2>3. B[i2] <= s
    BY <1>2, <1>3, <1>6, <1>12
  <2>4. \A t, u, v, w \in Nat : t <= u /\ u <= v /\ v <= w => w >= t
    OBVIOUS
  <2>5. s >= B[i] + j * splits[i].bytes
    BY <1>3, <1>5, <1>14, <2>2, <2>3, <2>4
  <2> QED
    BY <2>5 DEF B
<1>13. i2 = i \/ i2 < i \/ i < i2
  BY <1>3
<1> QED
  BY <1>9, <1>10, <1>11, <1>13

\* No split lies behind the last one that does something.
LEMMA NoneBehind ==
  ASSUME NEW splits \in Seq([count : Int, bytes : Int]), NEW i \in 1 .. Len(splits) + 1,
         \A k \in i .. Len(splits) : ~Useful(splits[k]), NEW s \in PointsOf(splits)
  PROVE  s <= Before(splits)[i]
<1> DEFINE B == Before(splits)
           L == Len(splits)
<1>1. PICK x \in 1 .. L : \E y \in 1 .. splits[x].count :
        Useful(splits[x]) /\ s = B[x] + y * splits[x].bytes
  BY PointIsBehind
<1>2. PICK y \in 1 .. splits[x].count : Useful(splits[x]) /\ s = B[x] + y * splits[x].bytes
  BY <1>1
<1>3. splits[x].bytes \in Nat /\ splits[x].count \in Nat
      /\ Lengths(splits)[x] = splits[x].count * splits[x].bytes
  BY <1>2, SplitParts
<1>4. y \in Nat /\ y <= splits[x].count
  BY <1>3
<1>5. y * splits[x].bytes <= splits[x].count * splits[x].bytes
  BY <1>3, <1>4, TimesGrows
<1>6. y * splits[x].bytes \in Nat /\ splits[x].count * splits[x].bytes \in Nat
  BY <1>3, <1>4, TimesIsNat
<1>7. L \in Nat /\ x < i /\ x + 1 \in 1 .. L + 1 /\ x \in 1 .. L + 1 /\ x + 1 <= i
  <2>1. L \in Nat
    OBVIOUS
  <2>2. ~(x \in i .. L)
    BY <1>2
  <2> QED
    BY <2>1, <2>2
<1>8. B[x + 1] <= B[i] /\ B[i] \in Nat /\ B[x] \in Nat /\ B[x + 1] \in Nat
  BY <1>7, BeforeGrows, BeforeExists
<1>9. B[x + 1] = B[x] + Lengths(splits)[x]
  BY BeforeExists
<1> HIDE DEF B
<1>10. s <= B[i]
  <2>1. \A b, u, v, w, t \in Nat : u <= v /\ w = b + v /\ w <= t => b + u <= t
    OBVIOUS
  <2>2. s = B[x] + y * splits[x].bytes
    BY <1>2 DEF B
  <2>3. B[x + 1] = B[x] + splits[x].count * splits[x].bytes
    BY <1>3, <1>9
  <2> QED
    BY <1>5, <1>6, <1>8, <2>1, <2>2, <2>3
<1> QED
  BY <1>10 DEF B

\* A split point is not at the beginning.
LEMMA PointIsPositive ==
  ASSUME NEW splits \in Seq([count : Int, bytes : Int]), NEW s \in PointsOf(splits)
  PROVE  s \in Nat /\ s > 0
<1>1. PICK i \in 1 .. Len(splits) : \E j \in 1 .. splits[i].count :
        Useful(splits[i]) /\ s = Before(splits)[i] + j * splits[i].bytes
  BY PointIsBehind
<1>2. PICK j \in 1 .. splits[i].count : Useful(splits[i])
      /\ s = Before(splits)[i] + j * splits[i].bytes
  BY <1>1
<1>3. splits[i].bytes \in Nat /\ splits[i].bytes > 0 /\ splits[i].count \in Nat
  BY <1>2, SplitParts DEF Useful
<1>4. j \in Nat /\ 1 <= j
  BY <1>3
<1>5. 1 * splits[i].bytes <= j * splits[i].bytes /\ j * splits[i].bytes \in Nat
  <2>1. j * splits[i].bytes \in Nat
    BY <1>3, <1>4, TimesIsNat
  <2>2. 1 \in Nat
    OBVIOUS
  <2>3. 1 * splits[i].bytes <= j * splits[i].bytes
    BY <1>3, <1>4, <2>2, TimesGrows
  <2> QED
    BY <2>1, <2>3
<1>6. Before(splits)[i] \in Nat
  <2>1. i \in 1 .. Len(splits) + 1
    OBVIOUS
  <2> QED
    BY <2>1, BeforeExists
<1>7. \A b, c, u \in Nat : c > 0 /\ 1 * c <= u => b + u \in Nat /\ b + u > 0
  OBVIOUS
<1> QED
  BY <1>2, <1>3, <1>5, <1>6, <1>7

\* The next split is the next split point.
LEMMA PointsAreAhead ==
  ASSUME NEW splits \in Seq([count : Int, bytes : Int]), NEW w \in Nat, NEW m \in Nat, NEW rest,
         Ahead(splits, w, m, rest), NEW s \in PointsOf(splits), w < s
  PROVE  m # 0 /\ w + m <= s
<1>1. s \in Nat
  BY PointIsPositive
<1>2. ~(\A t \in PointsOf(splits) : t <= w)
  BY <1>1
<1>3. PICK i \in 1 .. Len(splits) : \E j \in 1 .. splits[i].count : NextAt(splits, i, j, w, m, rest)
  BY <1>2 DEF Ahead
<1>4. PICK j \in 1 .. splits[i].count : NextAt(splits, i, j, w, m, rest)
  BY <1>3
<1>5. /\ Useful(splits[i]) /\ m > 0 /\ m <= splits[i].bytes
      /\ w + m = Before(splits)[i] + j * splits[i].bytes
  BY <1>4 DEF NextAt
<1> DEFINE b == splits[i].bytes
           h == j - 1
           B == Before(splits)[i]
<1>6. b \in Nat /\ h \in Nat /\ h + 1 = j /\ h <= h
  BY <1>5, SplitParts
<1>7. /\ w + m = B + j * b /\ m <= b /\ m > 0
      /\ s <= B + h * b \/ s >= B + j * b
  BY <1>5, NoneBetween
<1>8. B \in Nat
  <2>1. i \in 1 .. Len(splits) + 1
    OBVIOUS
  <2> QED
    BY <2>1, BeforeExists
<1> HIDE DEF b, h, B
<1>9. h * b \in Nat /\ (h + 1) * b = h * b + b
  BY <1>6, TimesGrows
<1> DEFINE u == h * b
           v == j * b
<1>10. u \in Nat /\ v = u + b /\ w + m = B + v /\ (s <= B + u \/ s >= B + v)
  BY <1>6, <1>7, <1>9
<1> HIDE DEF u, v
<1>11. w + m <= s
  BY <1>1, <1>6, <1>7, <1>8, <1>10
<1> QED
  BY <1>7, <1>11

\* Where split i would come next, what is kept from i on begins.
LEMMA AheadBegins ==
  ASSUME NEW splits \in Seq([count : Int, bytes : Int]), NEW i \in 1 .. Len(splits) + 1
  PROVE  Ahead(splits, Before(splits)[i], NextSegmentLength(Kept(splits)[i]),
               AfterSegment(Kept(splits)[i]))
<1> DEFINE B == Before(splits)
<1>1. CASE Kept(splits)[i] = <<>> /\ \A k \in i .. Len(splits) : ~Useful(splits[k])
  <2>1. \A s \in PointsOf(splits) : s <= B[i]
    BY <1>1, NoneBehind
  <2> QED
    BY <1>1, <2>1 DEF Ahead, NextSegmentLength, AfterSegment
<1>2. ASSUME NEW k \in i .. Len(splits), Useful(splits[k]), Before(splits)[k] = Before(splits)[i],
             Kept(splits)[i] = <<splits[k]>> \o Kept(splits)[k + 1]
      PROVE  Ahead(splits, Before(splits)[i], NextSegmentLength(Kept(splits)[i]),
                   AfterSegment(Kept(splits)[i]))
  <2> DEFINE R == Kept(splits)[k + 1]
             c == splits[k].count
             b == splits[k].bytes
  <2>1. k \in 1 .. Len(splits) /\ k + 1 \in 1 .. Len(splits) + 1 /\ k \in 1 .. Len(splits) + 1
    OBVIOUS
  <2>2. splits[k] \in [count : Int, bytes : Int] /\ c \in Nat /\ b \in Nat /\ c > 0 /\ b > 0
    BY <1>2, <2>1, SplitParts DEF Useful
  <2>3. splits[k] \in Segment
    BY <2>2 DEF Segment
  <2>4. R \in Seq(Segment)
    BY <2>1, KeptExists
  <2>5. /\ Kept(splits)[i] # <<>> /\ Head(Kept(splits)[i]) = splits[k]
        /\ Tail(Kept(splits)[i]) = R
    <3> HIDE DEF R
    <3>1. Kept(splits)[i] = <<splits[k]>> \o R
      BY <1>2 DEF R
    <3> QED
      BY <2>3, <2>4, <3>1, ConsParts
  <2>6. NextSegmentLength(Kept(splits)[i]) = b
    BY <2>5 DEF NextSegmentLength
  <2>7. AfterSegment(Kept(splits)[i]) = RestOf(splits, k, 1)
    <3>1. CASE c = 1
      BY <2>5, <3>1 DEF AfterSegment, RestOf
    <3>2. CASE c # 1
      <4>1. [splits[k] EXCEPT !.count = @ - 1] = [count |-> c - 1, bytes |-> b]
        BY <2>2, OneFewer
      <4> QED
        BY <2>5, <3>2, <4>1 DEF AfterSegment, RestOf
    <3> QED
      BY <3>1, <3>2
  <2>8. Before(splits)[i] + b = Before(splits)[k] + 1 * b /\ 1 \in 1 .. c
    <3>1. Before(splits)[i] \in Nat
      BY BeforeExists
    <3> QED
      BY <1>2, <2>2, <3>1
  <2>9. NextAt(splits, k, 1, Before(splits)[i], b, RestOf(splits, k, 1))
    BY <1>2, <2>2, <2>8 DEF NextAt
  <2> QED
    BY <2>1, <2>6, <2>7, <2>8, <2>9 DEF Ahead
<1> QED
  BY <1>1, <1>2, SkipsTo DEF Skips

\* Bytes that do not reach the next split bring it nearer.
LEMMA AheadNears ==
  ASSUME NEW splits \in Seq([count : Int, bytes : Int]), NEW w \in Nat, NEW m \in Nat, NEW rest,
         Ahead(splits, w, m, rest), NEW k \in Nat, m = 0 \/ k < m
  PROVE  Ahead(splits, w + k, IF m = 0 THEN 0 ELSE m - k, rest)
<1>1. CASE m = 0
  <2>1. \A i \in 1 .. Len(splits) : \A j \in 1 .. splits[i].count : ~NextAt(splits, i, j, w, m, rest)
    BY <1>1 DEF NextAt
  <2>2. rest = <<>> /\ \A s \in PointsOf(splits) : s <= w
    BY <2>1 DEF Ahead
  <2>3. \A s \in PointsOf(splits) : s <= w + k
    BY <2>2, PointIsPositive
  <2> QED
    BY <1>1, <2>2, <2>3 DEF Ahead
<1>2. CASE m # 0
  <2>1. PICK i \in 1 .. Len(splits) : \E j \in 1 .. splits[i].count : NextAt(splits, i, j, w, m, rest)
    BY <1>2 DEF Ahead
  <2>2. PICK j \in 1 .. splits[i].count : NextAt(splits, i, j, w, m, rest)
    BY <2>1
  <2>3. m - k > 0 /\ m - k <= m /\ w + k + (m - k) = w + m
    BY <1>2
  <2>4. m - k <= splits[i].bytes
    <3>1. m <= splits[i].bytes /\ splits[i].bytes \in Int
      BY <2>2, SplitParts DEF NextAt
    <3> QED
      BY <2>3, <3>1
  <2>5. NextAt(splits, i, j, w + k, m - k, rest)
    BY <2>2, <2>3, <2>4 DEF NextAt
  <2> QED
    BY <1>2, <2>5 DEF Ahead
<1> QED
  BY <1>1, <1>2

\* Bytes that reach it make the iterator give the one behind it.
LEMMA AheadGoesOn ==
  ASSUME NEW splits \in Seq([count : Int, bytes : Int]), NEW w \in Nat, NEW m \in Nat, NEW rest,
         Ahead(splits, w, m, rest), m # 0
  PROVE  Ahead(splits, w + m, NextSegmentLength(rest), AfterSegment(rest))
<1>1. PICK i \in 1 .. Len(splits) : \E j \in 1 .. splits[i].count : NextAt(splits, i, j, w, m, rest)
  BY DEF Ahead
<1>2. PICK j \in 1 .. splits[i].count : NextAt(splits, i, j, w, m, rest)
  BY <1>1
<1> DEFINE c == splits[i].count
           b == splits[i].bytes
           B == Before(splits)
           R == Kept(splits)[i + 1]
<1>3. Useful(splits[i]) /\ w + m = B[i] + j * b /\ rest = RestOf(splits, i, j)
  BY <1>2 DEF NextAt
<1>4. c \in Nat /\ b \in Nat /\ c > 0 /\ b > 0 /\ j \in Nat /\ j >= 1 /\ j <= c
  BY <1>3, SplitParts DEF Useful
<1>5. i + 1 \in 1 .. Len(splits) + 1 /\ i \in 1 .. Len(splits) + 1
  OBVIOUS
<1>6. CASE j = c
  <2>1. rest = R
    BY <1>3, <1>6 DEF RestOf
  <2>2. B[i + 1] = w + m
    BY <1>3, <1>6, BeforeExists, SplitParts
  <2>3. Ahead(splits, B[i + 1], NextSegmentLength(R), AfterSegment(R))
    BY <1>5, AheadBegins
  <2> QED
    BY <2>1, <2>2, <2>3
<1>7. CASE j # c
  <2> DEFINE x == [count |-> c - j, bytes |-> b]
  <2>1. x \in Segment /\ x.count = c - j /\ x.bytes = b
    BY <1>4, <1>7 DEF Segment
  <2>2. R \in Seq(Segment)
    BY <1>5, KeptExists
  <2>3. rest = <<x>> \o R
    BY <1>3, <1>7 DEF RestOf
  <2> HIDE DEF R
  <2>4. rest # <<>> /\ Head(rest) = x /\ Tail(rest) = R
    <3> HIDE DEF x
    <3> QED
      BY <2>1, <2>2, <2>3, ConsParts
  <2>5. NextSegmentLength(rest) = b
    BY <2>1, <2>4 DEF NextSegmentLength
  <2>6. AfterSegment(rest) = RestOf(splits, i, j + 1)
    <3>1. CASE c - j = 1
      <4>1. j + 1 = c
        <5> HIDE DEF c
        <5> QED
          BY <1>4, <3>1
      <4>2. AfterSegment(rest) = R
        BY <2>1, <2>4, <3>1 DEF AfterSegment
      <4> QED
        BY <4>1, <4>2 DEF RestOf, R
    <3>2. CASE c - j # 1
      <4>1. j + 1 # c /\ (c - j) - 1 = c - (j + 1)
        <5> HIDE DEF c
        <5> QED
          BY <1>4, <3>2
      <4>2. [x EXCEPT !.count = @ - 1] = [count |-> c - (j + 1), bytes |-> b]
        BY <4>1
      <4>3. AfterSegment(rest) = <<[x EXCEPT !.count = @ - 1]>> \o R
        BY <2>1, <2>4, <3>2 DEF AfterSegment
      <4> QED
        BY <4>1, <4>2, <4>3 DEF RestOf, R
    <3> QED
      BY <3>1, <3>2
  <2>7. j + 1 \in 1 .. c
    <3> HIDE DEF c
    <3> QED
      <4>1. c \in Nat /\ j \in Nat /\ j <= c
        BY <1>4
      <4> QED
        BY <1>7, <4>1
  <2>8. w + m + b = B[i] + (j + 1) * b
    <3>1. B[i] \in Nat
      BY <1>5, BeforeExists
    <3>2. j \in Nat /\ j <= j /\ b \in Nat /\ w + m = B[i] + j * b
      BY <1>3, <1>4
    <3> HIDE DEF b, B
    <3>3. (j + 1) * b = j * b + b /\ j * b \in Nat
      BY <3>2, TimesGrows
    <3> DEFINE u == j * b
    <3>4. (j + 1) * b = u + b /\ u \in Nat /\ w + m = B[i] + u
      BY <3>2, <3>3
    <3> HIDE DEF u
    <3>5. B[i] + u + b = B[i] + (u + b)
      BY <3>1, <3>2, <3>4
    <3> QED
      BY <3>4, <3>5
  <2>9. NextAt(splits, i, j + 1, w + m, b, RestOf(splits, i, j + 1))
    BY <1>3, <1>4, <2>8 DEF NextAt
  <2> QED
    BY <2>5, <2>6, <2>7, <2>9 DEF Ahead
<1> QED
  BY <1>6, <1>7

(* ----------------------- the splits that are kept ----------------------- *)
\* The iterator is ahead of the wire, and each point passed ended a write.
SplitsInv ==
  kind = "split" =>
    /\ Ahead(plan, Len(wire), nextSplitBytes, cleanSplits)
    /\ \A s \in PointsOf(plan) : s <= Len(wire) => s \in cuts

\* They are the points the property names.
LEMMA PointsAreThose == SplitPoints = PointsOf(plan)
  BY DEF SplitPoints, PointsOf, Before, Lengths

\* A writer begins behind no point.
LEMMA SplitsAtFirst == ASSUME WritersInit PROVE SplitsInv
<1>1. SplitOK /\ NewSplitWriter /\ wire = <<>> /\ cuts = {}
  BY SplitBegins DEF WritersInit, StreamInit
<1>2. plan \in Seq([count : Int, bytes : Int])
  BY <1>1 DEF SplitOK
<1>3. Len(wire) = 0
  BY <1>1
<1>4. CleanSplits(plan) = Kept(plan)[1] /\ 1 \in 1 .. Len(plan) + 1 /\ Before(plan)[1] = 0
  <2>1. 1 \in 1 .. Len(plan) + 1
    BY <1>2
  <2> QED
    BY <1>2, <2>1, CleanIsKept, BeforeExists
<1>5. nextSplitBytes = NextSegmentLength(Kept(plan)[1]) /\ cleanSplits = AfterSegment(Kept(plan)[1])
  BY <1>1, <1>4 DEF NewSplitWriter
<1>6. Ahead(plan, 0, nextSplitBytes, cleanSplits)
  <2>1. Ahead(plan, Before(plan)[1], NextSegmentLength(Kept(plan)[1]), AfterSegment(Kept(plan)[1]))
    BY <1>2, <1>4, AheadBegins
  <2> QED
    BY <1>4, <1>5, <2>1
<1>7. \A s \in PointsOf(plan) : ~(s <= 0)
  BY <1>2, PointIsPositive
<1> QED
  BY <1>3, <1>6, <1>7 DEF SplitsInv

\* Bytes that leave without crossing the next split end at it, or before it.
LEMMA SplitsGoOn ==
  ASSUME TypeInv, SplitsInv, kind = "split", UNCHANGED kind, NEW k \in 0 .. Len(p),
         Accepts(p, k), Advance(k), ~Crosses(k)
  PROVE  SplitsInv'
<1> DEFINE w == Len(wire)
           m == nextSplitBytes
<1>1. /\ WireOK /\ p \in Seq(AnyByte) /\ Len(p) \in Nat /\ m \in Nat
      /\ plan \in Seq([count : Int, bytes : Int])
  BY DEF TypeInv, CallOK, SplitOK
<1>2. /\ w \in Nat /\ Len(wire') = w + k /\ cuts \subseteq cuts'
      /\ (k # 0 => Len(wire') \in cuts')
  BY <1>1, AcceptsKeeps
<1>3. k \in Nat /\ UNCHANGED plan
  BY <1>1 DEF Advance
<1>4. Ahead(plan, w, m, cleanSplits) /\ \A s \in PointsOf(plan) : s <= w => s \in cuts
  BY DEF SplitsInv
<1>5. m = 0 \/ k <= m
  BY <1>1, <1>3 DEF Crosses
<1> HIDE DEF w
<1>6. Ahead(plan, w + k, nextSplitBytes', cleanSplits')
  <2>1. CASE m # 0 /\ k >= m
    <3>1. k = m
      BY <1>1, <1>3, <1>5, <2>1
    <3>2. nextSplitBytes' = NextSegmentLength(cleanSplits)
          /\ cleanSplits' = AfterSegment(cleanSplits)
      BY <2>1 DEF Advance
    <3>3. Ahead(plan, w + m, NextSegmentLength(cleanSplits), AfterSegment(cleanSplits))
      BY <1>1, <1>2, <1>4, <2>1, AheadGoesOn
    <3> QED
      BY <3>1, <3>2, <3>3
  <2>2. CASE ~(m # 0 /\ k >= m)
    <3>1. m = 0 \/ k < m
      BY <1>1, <1>3, <2>2
    <3>2. nextSplitBytes' = (IF m = 0 THEN 0 ELSE m - k) /\ cleanSplits' = cleanSplits
      BY <2>2 DEF Advance
    <3>3. Ahead(plan, w + k, IF m = 0 THEN 0 ELSE m - k, cleanSplits)
      BY <1>1, <1>2, <1>3, <1>4, <3>1, AheadNears
    <3> QED
      BY <3>2, <3>3
  <2> QED
    BY <2>1, <2>2
<1>7. ASSUME NEW s \in PointsOf(plan), s <= w + k PROVE s \in cuts'
  <2>1. s \in Nat
    BY <1>1, PointIsPositive
  <2>2. CASE s <= w
    BY <1>2, <1>4, <2>2
  <2>3. CASE w < s
    <3>1. m # 0 /\ w + m <= s
      BY <1>1, <1>2, <1>4, <2>3, PointsAreAhead
    <3>2. s = w + k /\ k # 0
      BY <1>1, <1>2, <1>3, <1>5, <1>7, <2>1, <2>3, <3>1
    <3> QED
      BY <1>2, <3>2
  <2> QED
    BY <1>2, <2>1, <2>2, <2>3
<1> QED
  BY <1>2, <1>3, <1>6, <1>7 DEF SplitsInv

\* The other writers' steps are of another kind of connection.
LEMMA OtherKind == ASSUME FragNext \/ DisorderNext PROVE kind # "split" /\ UNCHANGED kind
<1>1. CASE CollectHello
  BY <1>1 DEF CollectHello, Returns, Breaks, Continues
<1>2. CASE FlushRecord
  BY <1>2 DEF FlushRecord, Returns, Breaks, Continues
<1>3. CASE WriteAfterHello \/ CopyAfterHello
  BY <1>3 DEF WriteAfterHello, CopyAfterHello, Returns, Breaks, Continues
<1>4. CASE CollectHeader
  BY <1>4 DEF CollectHeader, Returns, Breaks, Continues
<1>5. CASE WriteFirstRecord
  BY <1>5 DEF WriteFirstRecord, Returns, Breaks, Continues
<1>6. CASE CopyFirstRecord
  BY <1>6 DEF CopyFirstRecord, Returns, Breaks, Continues
<1>7. CASE WriteHeaderAndData
  BY <1>7 DEF WriteHeaderAndData, Returns, Breaks, Continues
<1>8. CASE WriteAfterRecords \/ CopyRest
  BY <1>8 DEF WriteAfterRecords, CopyRest, Returns, Breaks, Continues
<1>9. CASE HopLimitFails \/ DisorderWrite \/ DisorderEnds
  BY <1>9 DEF HopLimitFails, DisorderWrite, DisorderEnds, Returns, Breaks, Continues
<1> QED
  BY <1>1, <1>2, <1>3, <1>4, <1>5, <1>6, <1>7, <1>8, <1>9 DEF FragNext, DisorderNext

\* Every step keeps it.
LEMMA SplitsStep ==
  ASSUME TypeInv, SplitsInv, [WritersNext]_writerVars
  PROVE  SplitsInv'
<1>1. ASSUME UNCHANGED <<kind, wire, splitVars>>, cuts \subseteq cuts' PROVE SplitsInv'
  BY <1>1 DEF SplitsInv, splitVars
<1>2. CASE (BeginWrite \/ BeginReadFrom) /\ UNCHANGED <<splitVars, fragVars, disorderVars>>
  <2>1. UNCHANGED <<kind, wire, cuts>>
    BY <1>2, BeginKeeps DEF TypeInv
  <2> QED
    BY <1>1, <1>2, <2>1
<1>3. CASE SplitNext /\ UNCHANGED <<fragVars, disorderVars>>
  <2>1. kind = "split" /\ mode \in {"write", "readFrom"} /\ CallOK
    BY <1>3, SplitStep DEF TypeInv
  <2>2. ASSUME NEW m \in 0 .. Len(p), Moves(m) PROVE UNCHANGED kind
    BY <2>1, <2>2, MovesKeeps
  <2>3. CASE UNCHANGED <<wire, cuts, splitVars>> /\ Moves(0)
    <3>1. 0 \in 0 .. Len(p)
      BY <2>1 DEF CallOK
    <3> QED
      BY <1>1, <2>2, <2>3, <3>1
  <2>4. ASSUME NEW k \in 0 .. Len(p), Accepts(p, k), Advance(k), Moves(k), ~Crosses(k)
        PROVE  SplitsInv'
    BY <2>1, <2>2, <2>4, SplitsGoOn
  <2> QED
    BY <1>3, <2>3, <2>4, SplitStep
<1>4. CASE FragNext /\ UNCHANGED <<splitVars, disorderVars>>
  BY <1>4, OtherKind DEF SplitsInv
<1>5. CASE DisorderNext /\ UNCHANGED <<splitVars, fragVars>>
  BY <1>5, OtherKind DEF SplitsInv
<1>6. CASE UNCHANGED writerVars
  <2>1. UNCHANGED <<kind, wire, splitVars, cuts>>
    BY <1>6 DEF writerVars, streamVars
  <2> QED
    BY <1>1, <2>1
<1> QED
  BY <1>2, <1>3, <1>4, <1>5, <1>6 DEF WritersNext

\* What is known of the splits and of the hop limit is what is asked of both.
LEMMA ReshapedFollows == ASSUME TypeInv, SplitsInv PROVE ReshapedOnce
<1>1. SplitsKept
  BY PointsAreThose DEF SplitsKept, SplitsInv
<1>2. lowHopWrites <= 1 \/ restoreFailed
  BY DEF TypeInv, DisorderOK
<1> QED
  BY <1>1, <1>2 DEF ReshapedOnce

\* Whatever splits a plan asks for, however the caller slices its calls,
\* whatever part of a write the base takes before it fails and however the copy
\* of a ReadFrom is chunked: each split point the wire has passed is the end of
\* a write (transport/split/writer.go); and one write at most leaves with a hop
\* limit of one unless the old limit could not be put back (x/disorder/writer.go).
THEOREM StreamIsReshapedOnce == WritersSpec => []ReshapedOnce
<1>1. WritersInit => TypeInv /\ SplitsInv
  BY WritersBegin, SplitsAtFirst
<1>2. TypeInv /\ SplitsInv /\ [WritersNext]_writerVars => TypeInv' /\ SplitsInv'
  BY WritersStep, SplitsStep
<1>3. TypeInv /\ SplitsInv => ReshapedOnce
  BY ReshapedFollows
<1> QED
  BY <1>1, <1>2, <1>3, PTL DEF WritersSpec

(* ------------------------------ composition ----------------------------- *)
\* The two families share nothing: a behaviour of both is one of each
\* (transport/split, transport/tlsfrag, x/disorder; transport/shadowsocks), so
\* what holds of one of them holds of it.
THEOREM WrappersAreAlone == WrappersSpec => WritersSpec /\ SSSpec
<1>1. WrappersInit => WritersInit /\ SSInit
  BY DEF WrappersInit
<1>2. [WrappersNext]_wrappersVars => [WritersNext]_writerVars /\ [SSNext]_ssVars
  <2>1. CASE WrappersNext
    BY <2>1 DEF WrappersNext
  <2>2. CASE UNCHANGED wrappersVars
    BY <2>2 DEF wrappersVars
  <2> QED
    BY <2>1, <2>2
<1> QED
  BY <1>1, <1>2, PTL DEF WrappersSpec, WritersSpec, SSSpec

\* What is proved of the writers holds of the behaviours the run follows.
THEOREM WrappersSafe ==
  WrappersSpec => [](WritersTypeOK /\ ReshapedOnce /\ ((kind = "reclen" => ~CutHeaders) => Conserved))
  BY WrappersAreAlone, WritersTypes, StreamIsReshapedOnce, NothingIsLost, PTL
============================================================================
