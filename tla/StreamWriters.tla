--------------------------- MODULE StreamWriters ---------------------------
(* The writers that reshape an outgoing stream (split, tlsfrag, disorder),  *)
(* each over the same caller and the same base: a behaviour is one          *)
(* connection through one of them.                                          *)
EXTENDS SplitWriter, TlsFragWriters

CONSTANTS DisorderAt      \* arguments of disorder's NewStreamDialer

ASSUME DisorderAssumption == DisorderAt \subseteq Int

VARIABLES writesToDisorder,
          hopLimit,       \* of the socket: "default" or "one"
          lowHopWrites,   \* writes that left with a hop limit of one, 2 for more
          restoreFailed   \* a failure the code reports to nobody

disorderVars == <<writesToDisorder, hopLimit, lowHopWrites, restoreFailed>>
writerVars == <<streamVars, splitVars, fragVars, disorderVars>>

DisorderInit ==
  /\ writesToDisorder \in DisorderAt
  /\ hopLimit = "default" /\ lowHopWrites = 0 /\ restoreFailed = FALSE

(* --------------------------- x/disorder/writer.go ----------------------- *)
\* Reading or lowering the hop limit fails: nothing is written.
HopLimitFails ==
  /\ kind = "disorder" /\ mode \in {"write", "readFrom"} /\ p # <<>>
  /\ writesToDisorder = 0
  /\ IF mode = "write" THEN Returns(0) ELSE Breaks
  /\ UNCHANGED <<wire, cuts, disorderVars>>

\* One Write of the data, or of a chunk io.Copy has read of it.
DisorderWrite ==
  /\ kind = "disorder" /\ mode \in {"write", "readFrom"} /\ p # <<>>
  /\ \E size \in (IF mode = "write" THEN {Len(p)} ELSE 1 .. Len(p)) :
       \E k \in 0 .. size :
         /\ Accepts(p, k)
         /\ IF k = size THEN Continues(k)
            ELSE IF mode = "write" THEN Returns(n + k) ELSE Breaks
  /\ writesToDisorder' = IF writesToDisorder > -1 THEN writesToDisorder - 1
                                                  ELSE writesToDisorder
  /\ lowHopWrites' = IF writesToDisorder = 0 \/ hopLimit = "one"
                     THEN Least(lowHopWrites + 1, 2) ELSE lowHopWrites
  /\ IF writesToDisorder # 0 THEN UNCHANGED <<hopLimit, restoreFailed>>
     ELSE /\ restoreFailed' \in BOOLEAN
          /\ hopLimit' = IF restoreFailed' THEN "one" ELSE hopLimit

DisorderEnds ==
  /\ kind = "disorder" /\ mode \in {"write", "readFrom"} /\ p = <<>>
  /\ Returns(n)
  /\ UNCHANGED <<wire, cuts, disorderVars>>

DisorderNext == HopLimitFails \/ DisorderWrite \/ DisorderEnds

(* ------------------------------- behaviour ------------------------------ *)
WritersInit ==
  /\ kind \in {"split", "hello", "reclen", "disorder"}
  /\ StreamInit /\ NewSplitWriter /\ FragInit /\ DisorderInit

WritersNext ==
  \/ BeginWrite /\ UNCHANGED <<splitVars, fragVars, disorderVars>>
  \/ BeginReadFrom /\ UNCHANGED <<splitVars, fragVars, disorderVars>>
  \/ SplitNext /\ UNCHANGED <<fragVars, disorderVars>>
  \/ FragNext /\ UNCHANGED <<splitVars, disorderVars>>
  \/ DisorderNext /\ UNCHANGED <<splitVars, fragVars>>

WritersSpec == WritersInit /\ [][WritersNext]_writerVars

(* ------------------------------- properties ----------------------------- *)
\* What the base should have for the first bytes s of the stream: the hello
\* in two records with headers of their own, everything else as it is.
InRecords(s) ==
  LET len == PayloadLen(s)
      content == DropFirst(s, HeaderLen)
      head == Frag(len)
  IN IF Len(s) < HeaderLen \/ ~Validate(s) \/ ~Splits(len) THEN s
     ELSE Header(head) \o FirstOf(content, head)
          \o (IF Len(content) < head THEN <<>>
              ELSE Header(len - head) \o DropFirst(content, head))

Image(s) ==
  CASE kind = "reclen" -> InRecords(s)
    [] kind = "hello" /\ ~readBroke /\ Len(s) >= HelloTarget(s) -> InRecords(s)
    [] OTHER -> s

\* What the writer holds back.
Pending ==
  CASE kind = "hello" -> IF phase = "collecting" THEN helloBuf ELSE record
    [] kind = "reclen" -> IF FirstRecordDue THEN DropFirst(hdr, r1Written) ELSE hdr
    [] OTHER -> <<>>

\* Between two calls the wire and what the writer holds back are exactly what
\* the caller was told was written, with the hello in two well-formed
\* records: no byte is lost, sent twice or put in the wrong record by writes
\* that fail half-way and are taken up again from the count they returned.
Conserved ==
  mode = "idle" => wire \o Pending = Image(FirstOf(stream, told))

\* "If splitLen is positive, the first fragmented record content will have that
\* length" (tlsfrag/stream_dialer.go:111): where the first record ends by its
\* header, the header of the second one begins.
FirstPieceEnds ==
  kind = "reclen" /\ tlsHdr # 0 /\ wire # <<>> =>
    LET first == HeaderLen + PayloadLen(wire)
    IN Len(wire) > first => wire[first + 1] = Header(r2Size - HeaderLen)[1]

\* What the wrappers do to the stream they do once: no packet crosses a split
\* point, and one write leaves with the hop limit of one, and only one, even if
\* it fails and is taken up again - as long as the kernel takes the restored
\* limit.
ReshapedOnce == SplitsKept /\ (lowHopWrites <= 1 \/ restoreFailed)

\* Types of the connection and of the writers' state.
WritersTypeOK ==
  /\ kind \in {"split", "hello", "reclen", "disorder"}
  /\ stream \in Streams /\ told \in 0 .. Len(stream)
  /\ mode \in {"idle", "write", "readFrom", "broken"}
  /\ n \in 0 .. MaxCall /\ Len(p) <= MaxCall /\ n + told <= Len(stream)
  /\ eof \in {"eof", "error"}
  /\ cuts \subseteq 1 .. Len(wire)
  /\ nextSplitBytes \in Nat
  /\ phase \in {"collecting", "flushing", "done"}
  /\ readBroke \in BOOLEAN /\ recDone \in BOOLEAN
  /\ Len(hdr) <= HeaderLen /\ tlsHdr \in 0 .. MaxRecord
  /\ r1Written \in 0 .. 2 * HeaderLen + MaxRecord
  /\ writesToDisorder \in Int /\ hopLimit \in {"default", "one"}
=============================================================================
