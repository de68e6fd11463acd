-------------------------- MODULE TlsFragWriters --------------------------
(* transport/tlsfrag: the two writers that turn the TLS record of a Client  *)
(* Hello into two records, one that buffers the whole hello first           *)
(* (writer.go) and one that only keeps its header (record_len_writer.go).   *)
EXTENDS BaseStream

CONSTANTS HeaderLen,      \* recordHeaderLen
          MaxRecord,      \* maxRecordPayloadLen
          MTU,            \* what writeBothN sends at once at most
          SplitLens,      \* arguments of NewFixedLenStreamDialer
          CutHeaders      \* whether a base write may end inside a header

ASSUME FragAssumption == /\ HeaderLen \in Nat \ {0} /\ MaxRecord \in Nat
                         /\ MTU \in Nat /\ SplitLens \subseteq Int

VARIABLES splitLen,
          phase,          \* "collecting", "flushing" (record # nil) or "done"
          helloBuf, record,
          readBroke,      \* the source broke while the hello was collected
          hdr, tlsHdr,    \* header bytes left; its payload length, 0 if unset
          r1Size, r1Written, r2Size, recDone

helloVars == <<phase, helloBuf, record, readBroke>>
recVars == <<hdr, tlsHdr, r1Size, r1Written, r2Size, recDone>>
fragVars == <<splitLen, helloVars, recVars>>

\* A byte of a record header is known by the length that header declares.
Header(len) == [j \in 1 .. HeaderLen |-> <<"header", len, j>>]
PayloadLen(h) == Head(h)[2]
Validate(h) == Head(h)[1] = "header" /\ PayloadLen(h) \in 1 .. MaxRecord

Frag(len) == IF splitLen > 0 THEN splitLen ELSE len + splitLen
Splits(len) == Frag(len) \in 1 .. len - 1

FragInit ==
  /\ splitLen \in SplitLens
  /\ phase = "collecting" /\ helloBuf = <<>> /\ record = <<>>
  /\ readBroke = FALSE
  /\ hdr = <<>> /\ tlsHdr = 0 /\ r1Size = 0 /\ r1Written = 0 /\ r2Size = 0
  /\ recDone = FALSE

(* ------------------- clientHelloFragWriter (writer.go) ------------------ *)
\* How much the buffer holds before it reports anything but "more".
HelloTarget(b) ==
  IF Len(b) >= HeaderLen /\ Validate(b) THEN HeaderLen + PayloadLen(b)
                                        ELSE HeaderLen

\* What splitHelloBufToRecord makes of a complete hello.
SplitRecord(b) ==
  LET content == DropFirst(b, HeaderLen)
      headLen == Frag(Len(content))
  IN IF ~Splits(Len(content)) THEN b
     ELSE Header(headLen) \o FirstOf(content, headLen)
            \o Header(Len(content) - headLen) \o DropFirst(content, headLen)

\* clientHelloBuffer.ReadFrom: takes what completes the hello, or all there
\* is; a break of the source on the way sends what there is as it is.
CollectHello ==
  /\ kind = "hello" /\ mode \in {"write", "readFrom"} /\ phase = "collecting"
  /\ LET whole == helloBuf \o p
         target == HelloTarget(whole)
         buf == FirstOf(whole, target)
         m == Len(buf) - Len(helloBuf)
         broke == Len(whole) < target /\ mode = "readFrom" /\ eof = "error"
     IN IF Len(whole) < target /\ ~broke
        THEN /\ helloBuf' = buf /\ Returns(m)
             /\ UNCHANGED <<phase, record, readBroke>>
        ELSE /\ record' = IF Len(whole) >= target /\ Validate(buf)
                          THEN SplitRecord(buf) ELSE buf
             /\ helloBuf' = <<>> /\ phase' = "flushing" /\ readBroke' = broke
             /\ Continues(m)
  /\ UNCHANGED <<wire, cuts, splitLen, recVars>>

\* flushRecord: one base write of the record, the rest of it kept if it fails.
FlushRecord ==
  /\ kind = "hello" /\ mode \in {"write", "readFrom"} /\ phase = "flushing"
  /\ \E k \in 0 .. Len(record) :
       /\ Accepts(record, k)
       /\ record' = DropFirst(record, k)
       /\ IF k < Len(record)
          THEN UNCHANGED phase /\ Returns(n)
          ELSE phase' = "done" /\ Continues(0)
  /\ UNCHANGED <<helloBuf, readBroke, splitLen, recVars>>

\* Everything after the hello goes straight to the base.
WriteAfterHello ==
  /\ kind = "hello" /\ phase = "done" /\ mode = "write"
  /\ \E k \in 0 .. Len(p) : Accepts(p, k) /\ Returns(n + k)
  /\ UNCHANGED fragVars

CopyAfterHello ==
  /\ kind = "hello" /\ phase = "done" /\ mode = "readFrom"
  /\ IF p = <<>> THEN Returns(n) /\ UNCHANGED <<wire, cuts>>
     ELSE \E size \in 1 .. Len(p) : \E k \in 0 .. size :
            /\ Accepts(p, k)
            /\ IF k < size THEN Breaks ELSE Continues(size)
  /\ UNCHANGED fragVars

(* --------------- recordLenFragWriter (record_len_writer.go) ------------- *)
\* The header is collected first, by Write and by the first reader alike; an
\* end or a break of the source before that is taken as its end.
CollectHeader ==
  /\ kind = "reclen" /\ mode \in {"write", "readFrom"}
  /\ ~recDone /\ tlsHdr = 0
  /\ LET whole == FirstOf(hdr \o p, HeaderLen)
         m == Len(whole) - Len(hdr)
         len == PayloadLen(whole)
     IN IF Len(whole) < HeaderLen
        THEN /\ hdr' = whole /\ Returns(m)
             /\ UNCHANGED <<tlsHdr, r1Size, r2Size, recDone>>
        ELSE /\ Continues(m)
             /\ IF Validate(whole) /\ Splits(len)
                THEN /\ r1Size' = Frag(len) + HeaderLen
                     /\ r2Size' = len - Frag(len) + HeaderLen
                     /\ hdr' = Header(Frag(len)) /\ tlsHdr' = Frag(len)
                     /\ UNCHANGED recDone
                ELSE /\ hdr' = whole /\ recDone' = TRUE
                     /\ UNCHANGED <<tlsHdr, r1Size, r2Size>>
  /\ UNCHANGED <<r1Written, wire, cuts, splitLen, helloVars>>

\* Fault: a write that takes the first record up again starts counting anew.
FirstRecordLimitAnew == r1Size

\* How many bytes of header and data the first record is given.
FirstRecordLimit ==
  IF r1Written < HeaderLen THEN r1Size ELSE r1Size - r1Written

FirstRecordDue == ~recDone /\ tlsHdr # 0 /\ r1Written < r1Size

\* The header is rewritten for the second record once the first is out.
AfterFirstRecord ==
  IF r1Written' < r1Size THEN UNCHANGED <<hdr, tlsHdr, recDone>>
  ELSE /\ hdr' = Header(r2Size - HeaderLen) /\ tlsHdr' = r2Size - HeaderLen
       /\ recDone' = TRUE

Cut(part, k) == k \notin 1 .. Len(part) - 1 \/ CutHeaders

\* One write of what is left of the first header and of data up to the limit.
WriteFirstRecord ==
  /\ kind = "reclen" /\ mode = "write" /\ FirstRecordDue
  /\ LET head == DropFirst(hdr, r1Written)
         both == FirstOf(head \o p, FirstRecordLimit)
     IN \E k \in 0 .. Len(both) :
          /\ Cut(head, k)
          /\ LET m == IF k <= Len(head) THEN 0 ELSE k - Len(head)
             IN /\ Accepts(both, k)
                /\ r1Written' = r1Written + k
                /\ IF r1Written' < r1Size \/ k < Len(both)
                   THEN Returns(n + m) ELSE Continues(m)
  /\ AfterFirstRecord
  /\ UNCHANGED <<r1Size, r2Size, splitLen, helloVars>>

\* The second header, or one that is not split, leaves with the next data.
WriteHeaderAndData ==
  /\ kind = "reclen" /\ mode = "write" /\ recDone /\ hdr # <<>>
  /\ LET both == FirstOf(hdr \o p, MTU)
     IN \E k \in 0 .. Len(both) :
          LET m == IF k <= Len(hdr) THEN 0 ELSE k - Len(hdr)
          IN /\ Accepts(both, k)
             /\ hdr' = DropFirst(hdr, k)
             /\ IF k < Len(both) \/ m = Len(p)
                THEN Returns(n + m) ELSE Continues(m)
  /\ UNCHANGED <<tlsHdr, r1Size, r1Written, r2Size, recDone, splitLen, helloVars>>

WriteAfterRecords ==
  /\ kind = "reclen" /\ mode = "write" /\ recDone /\ hdr = <<>>
  /\ \E k \in 0 .. Len(p) : Accepts(p, k) /\ Returns(n + k)
  /\ UNCHANGED fragVars

\* ReadFrom: the base copies chunk by chunk what the two readers give it; the
\* count is of the bytes read from the source.
CopyFirstRecord ==
  /\ kind = "reclen" /\ mode = "readFrom" /\ FirstRecordDue
  /\ LET head == DropFirst(hdr, r1Written)
         both == FirstOf(head \o p, r1Size - r1Written)
     IN IF both = <<>>
        THEN Returns(n) /\ UNCHANGED <<wire, cuts, r1Written>>
        ELSE \E size \in 1 .. Len(both) : \E k \in 0 .. size :
               /\ Accepts(both, k)
               /\ r1Written' = r1Written + size
               /\ IF k < size THEN Breaks
                  ELSE Continues(IF size <= Len(head) THEN 0
                                                      ELSE size - Len(head))
  /\ AfterFirstRecord
  /\ UNCHANGED <<r1Size, r2Size, splitLen, helloVars>>

CopyRest ==
  /\ kind = "reclen" /\ mode = "readFrom" /\ recDone
  /\ LET both == hdr \o p
     IN IF both = <<>>
        THEN Returns(n) /\ UNCHANGED <<wire, cuts, hdr>>
        ELSE \E size \in 1 .. Len(both) : \E k \in 0 .. size :
               /\ Accepts(both, k)
               /\ hdr' = DropFirst(hdr, size)
               /\ IF k < size THEN Breaks
                  ELSE Continues(IF size <= Len(hdr) THEN 0 ELSE size - Len(hdr))
  /\ UNCHANGED <<tlsHdr, r1Size, r1Written, r2Size, recDone, splitLen, helloVars>>

FragNext ==
  \/ CollectHello \/ FlushRecord \/ WriteAfterHello \/ CopyAfterHello
  \/ CollectHeader \/ WriteFirstRecord \/ WriteHeaderAndData
  \/ WriteAfterRecords \/ CopyFirstRecord \/ CopyRest
=============================================================================
