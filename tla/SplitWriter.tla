---------------------------- MODULE SplitWriter ----------------------------
(* transport/split: a writer that cuts the stream into segments given by an *)
(* iterator, so that they leave in packets of their own.                    *)
EXTENDS BaseStream

CONSTANTS SplitPlans     \* arguments of NewRepeatedSplitIterator

ASSUME SplitAssumption == SplitPlans \subseteq Seq([count : Int, bytes : Int])

VARIABLES nextSplitBytes, \* bytes until the next split, 0 once all are done
          cleanSplits,    \* what the iterator has left
          plan            \* the argument the iterator was made from

splitVars == <<nextSplitBytes, cleanSplits, plan>>

\* The splits without those that do nothing: clean[i] is what is kept from i on.
CleanSplits(splits) ==
  LET clean[i \in 1 .. Len(splits) + 1] ==
        IF i > Len(splits) THEN <<>>
        ELSE IF splits[i].count > 0 /\ splits[i].bytes > 0
             THEN <<splits[i]>> \o clean[i + 1] ELSE clean[i + 1]
  IN clean[1]

\* One call of the iterator: the length it returns and what it then holds.
NextSegmentLength(s) == IF s = <<>> THEN 0 ELSE Head(s).bytes
\* Fault: a segment's repeat count is taken for one.
AfterSegmentOnce(s) == IF s = <<>> THEN s ELSE Tail(s)

AfterSegment(s) ==
  IF s = <<>> THEN s
  ELSE IF Head(s).count = 1 THEN Tail(s)
       ELSE <<[Head(s) EXCEPT !.count = @ - 1]>> \o Tail(s)

NewSplitWriter ==
  /\ plan \in SplitPlans
  /\ LET clean == CleanSplits(plan)
     IN /\ nextSplitBytes = NextSegmentLength(clean)
        /\ cleanSplits = AfterSegment(clean)

\* Fault: the count to the next split runs on once the splits are done.
AdvancePast(k) ==
  IF k = nextSplitBytes
  THEN /\ nextSplitBytes' = NextSegmentLength(cleanSplits)
       /\ cleanSplits' = AfterSegment(cleanSplits)
       /\ UNCHANGED plan
  ELSE nextSplitBytes' = nextSplitBytes - k /\ UNCHANGED <<cleanSplits, plan>>

Advance(k) ==
  IF nextSplitBytes # 0 /\ k >= nextSplitBytes
  THEN /\ nextSplitBytes' = NextSegmentLength(cleanSplits)
       /\ cleanSplits' = AfterSegment(cleanSplits)
       /\ UNCHANGED plan
  ELSE /\ nextSplitBytes' = IF nextSplitBytes = 0 THEN 0
                            ELSE nextSplitBytes - k
       /\ UNCHANGED <<cleanSplits, plan>>

SplitDue == 0 < nextSplitBytes /\ nextSplitBytes < Len(p)

\* The loop of Write: one segment up to the split.
WriteSegment ==
  /\ kind = "split" /\ mode = "write" /\ SplitDue
  /\ LET dataToSend == FirstOf(p, nextSplitBytes)
     IN \E k \in 0 .. Len(dataToSend) :
          /\ Accepts(dataToSend, k) /\ Advance(k)
          /\ IF k < Len(dataToSend) THEN Returns(n + k) ELSE Continues(k)

\* The rest of the data, which no split is due in.
WriteRest ==
  /\ kind = "split" /\ mode = "write" /\ ~SplitDue
  /\ \E k \in 0 .. Len(p) :
       Accepts(p, k) /\ Advance(k) /\ Returns(n + k)

\* ReadFrom: the base copies one chunk of what the limit lets it see.
ReadFromChunk ==
  /\ kind = "split" /\ mode = "readFrom" /\ p # <<>>
  /\ LET seen == IF nextSplitBytes > 0 THEN FirstOf(p, nextSplitBytes) ELSE p
     IN \E size \in 1 .. Len(seen) : \E k \in 0 .. size :
          /\ Accepts(FirstOf(seen, size), k) /\ Advance(k)
          /\ IF k < size THEN Breaks ELSE Continues(k)

\* The source is done, before or after the split happened.
ReadFromEnds ==
  /\ kind = "split" /\ mode = "readFrom" /\ p = <<>>
  /\ Returns(n)
  /\ UNCHANGED <<wire, cuts, splitVars>>

SplitNext == WriteSegment \/ WriteRest \/ ReadFromChunk \/ ReadFromEnds

\* Where the plan wants the stream cut: after each repetition of each split.
SplitPoints ==
  LET lengths == [i \in DOMAIN plan |-> IF plan[i].count > 0 /\ plan[i].bytes > 0
                                        THEN plan[i].count * plan[i].bytes ELSE 0]
      before[i \in 1 .. Len(plan) + 1] == IF i = 1 THEN 0
                                          ELSE before[i - 1] + lengths[i - 1]
  IN UNION {{before[i] + j * plan[i].bytes :
               j \in IF plan[i].bytes > 0 THEN 1 .. plan[i].count ELSE {}} :
              i \in DOMAIN plan}

\* No packet crosses a split point, however the caller slices its calls,
\* whatever a base write accepts before it fails, and however the copy of a
\* ReadFrom is chunked: each point the wire has passed is the end of a write.
SplitsKept ==
  kind = "split" => \A s \in SplitPoints : s <= Len(wire) => s \in cuts
=============================================================================
