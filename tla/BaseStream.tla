---------------------------- MODULE BaseStream ----------------------------
(* One connection as the writers of transport/split, transport/tlsfrag and  *)
(* x/disorder see it: a caller that hands over its stream call by call, and *)
(* below the writer the base io.Writer of the network.  A base write takes  *)
(* all it is given, or a part of it and fails; the caller of a Write that   *)
(* failed goes on from the count it was told.                               *)
EXTENDS Integers, Sequences, SequencesExt

CONSTANTS Streams,   \* what a caller may have to write
          MaxCall    \* bytes handed over by one call at most

ASSUME StreamAssumption == MaxCall \in Nat /\ \A s \in Streams : s \in Seq(Range(s))

VARIABLES kind,      \* the writer between caller and base
          stream,    \* the caller's bytes
          told,      \* bytes the caller was told were written
          mode,      \* "idle", the call under way ("write", "readFrom"), or
                     \* "broken" once a copy lost what it had read
          n, p,      \* the call's count so far and the data still to write
          eof,       \* how the source of a ReadFrom ends: "eof" or "error"
          wire,      \* bytes the base accepted
          cuts       \* lengths of the wire at which a base write ended

streamVars == <<kind, stream, told, mode, n, p, eof, wire, cuts>>

Least(a, b) == IF a < b THEN a ELSE b
FirstOf(s, k) == SubSeq(s, 1, Least(k, Len(s)))
DropFirst(s, k) == SubSeq(s, k + 1, Len(s))

StreamInit ==
  /\ stream \in Streams
  /\ told = 0 /\ mode = "idle" /\ n = 0 /\ p = <<>> /\ eof = "eof"
  /\ wire = <<>> /\ cuts = {}

\* The caller writes some of what is left.
BeginWrite ==
  /\ mode = "idle" /\ told < Len(stream)
  /\ \E m \in 1 .. Least(MaxCall, Len(stream) - told) :
       p' = SubSeq(stream, told + 1, told + m)
  /\ mode' = "write" /\ n' = 0
  /\ UNCHANGED <<kind, stream, told, eof, wire, cuts>>

\* io.Copy hands over a source that ends, or breaks, after some bytes.
BeginReadFrom ==
  /\ mode = "idle" /\ told < Len(stream)
  /\ \E m \in 1 .. Least(MaxCall, Len(stream) - told) :
       p' = SubSeq(stream, told + 1, told + m)
  /\ eof' \in {"eof", "error"}
  /\ mode' = "readFrom" /\ n' = 0
  /\ UNCHANGED <<kind, stream, told, wire, cuts>>

\* The base accepts the first k bytes of data in one write.
Accepts(data, k) ==
  /\ wire' = wire \o SubSeq(data, 1, k)
  /\ cuts' = IF k = 0 THEN cuts ELSE cuts \cup {Len(wire) + k}

\* The call returns count to its caller.
Returns(count) ==
  /\ told' = told + count /\ mode' = "idle" /\ n' = 0 /\ p' = <<>>
  /\ eof' = "eof"
  /\ UNCHANGED <<kind, stream>>

\* A base write of a ReadFrom failed: what was read from the source is gone.
Breaks ==
  /\ mode' = "broken" /\ n' = 0 /\ p' = <<>>
  /\ UNCHANGED <<kind, stream, told, eof>>

\* The call goes on with the data left after m more bytes.
Continues(m) ==
  /\ n' = n + m /\ p' = DropFirst(p, m)
  /\ UNCHANGED <<kind, stream, told, mode, eof>>
=============================================================================
