------------------------- MODULE ShadowsocksProofs -------------------------
(* Theorems about ShadowsocksStream for every address, every data and every *)
(* size of the buffer.  The writer's argument: who holds the lock is where  *)
(* the two threads are (Locked), a flush of the timer needs needFlush, and  *)
(* the loop without the lock begins when that is FALSE for good (Unlocked); *)
(* what was read beside a flush fits behind it (Fits).  The reader's: the   *)
(* parity of its counter tells what block comes next (Parity).  The stream: *)
(* what each end holds stands where it should in the caller's bytes         *)
(* (Standing), and the blocks under way carry what is between what the      *)
(* reader has and what the writer has queued (Chained); so no step of       *)
(* either end or of the timer hands out anything but what comes next.       *)
EXTENDS ShadowsocksStream, SequenceTheorems, TLAPS

Bytes == Range(Address) \cup Range(Data)

\* Sequences of bytes, and the buffer no longer than it is.
Contents == /\ payload \in Seq(Bytes) /\ readBuf \in Seq(Bytes)
            /\ source \in Seq(Bytes) /\ written \in Seq(Bytes)
            /\ readAt \in Nat /\ Len(payload) <= BufSize

\* The lock and the places of its holders.
Locked == /\ mu \in {"free", "caller", "timer"}
          /\ mu = "timer" <=> timer = "sealed"
          /\ mu = "caller" <=> caller \in {"queued", "sealed"}

\* Outside the lock the caller loops only when no flush is allowed any more.
Unlocked == /\ caller \in {"loop", "read", "sending"} => ~needFlush
            /\ timer = "sealed" => needFlush
            /\ caller = "dialing" => timer = "unset" /\ payload = <<>>

\* The read beside a flush: where it may write, and what it has read.
Fits == /\ caller = "reading" => /\ readAt >= Len(payload) + Overhead
                                 /\ readAt <= BufSize + Overhead
        /\ caller = "relock" => Len(payload) + Len(readBuf) <= BufSize

WriterInv == Contents /\ Locked /\ Unlocked /\ Fits

\* What the reader's place says of its counter, its slice and its chunk.
Parity == /\ rcounter \in Nat
          /\ reader \in {"salt", "chunk", "size", "eof"} => rcounter % 2 = 0
          /\ reader = "payload" => rcounter % 2 = 1
          /\ reader # "chunk" => leftover = <<>>
          /\ reader \in {"salt", "size", "eof", "error"} => ~slice
          /\ reader = "eof" => cipherWire = <<>> /\ fin # "open"

\* Take returns a sequence of the same bytes, no longer than was asked for.
LEMMA TakeType ==
  ASSUME NEW S, NEW s \in Seq(S), NEW k \in Nat
  PROVE  Take(s, k) \in Seq(S) /\ Len(Take(s, k)) <= k /\ Len(Take(s, k)) <= Len(s)
<1>1. Len(s) \in Nat /\ \A i \in 1 .. Len(s) : s[i] \in S
  OBVIOUS
<1> DEFINE n == IF k < Len(s) THEN k ELSE Len(s)
<1>2. n \in Nat /\ n <= k /\ n <= Len(s)
  BY <1>1
<1>3. \A i \in 1 .. n : s[i] \in S
  BY <1>1, <1>2
<1>4. SubSeq(s, 1, n) \in Seq(S) /\ Len(SubSeq(s, 1, n)) = n
  BY <1>2, <1>3, SubSeqProperties
<1> QED
  BY <1>2, <1>4 DEF Take

\* Take of what is no longer than that is all of it.
LEMMA TakeAll ==
  ASSUME NEW S, NEW s \in Seq(S), NEW k \in Nat, Len(s) <= k
  PROVE  Take(s, k) = s
  BY SubSeqFull DEF Take

\* Drop returns a sequence of the same bytes.
LEMMA DropType ==
  ASSUME NEW S, NEW s \in Seq(S), NEW k \in Nat
  PROVE  Drop(s, k) \in Seq(S)
<1>1. Len(s) \in Nat /\ \A i \in k + 1 .. Len(s) : s[i] \in S
  OBVIOUS
<1>2. k + 1 \in Int /\ Len(s) \in Int
  BY <1>1
<1> QED
  BY <1>1, <1>2, SubSeqProperties DEF Drop

\* The address and the data are bytes.
LEMMA BytesType == Address \in Seq(Bytes) /\ Data \in Seq(Bytes) /\ AllBytes \in Seq(Bytes)
<1>1. Address \in Seq(Bytes) /\ Data \in Seq(Bytes)
  BY SizesAssumption, SeqMonotonic DEF Bytes
<1> QED
  BY <1>1, ConcatProperties DEF AllBytes

\* The initial states satisfy both invariants.
LEMMA SSInitInv == SSInit => WriterInv /\ Parity
<1> SUFFICES ASSUME SSInit PROVE WriterInv /\ Parity
  OBVIOUS
<1>1. Contents
  BY SizesAssumption, EmptySeq DEF SSInit, Contents
<1>2. Parity
  BY DEF SSInit, Parity
<1> QED
  BY <1>1, <1>2 DEF SSInit, WriterInv, Locked, Unlocked, Fits

\* A step that only the reader's end sees.
LEMMA WriterQuiet ==
  WriterInv /\ UNCHANGED <<caller, timer, mu, callVars, needFlush, payload>> => WriterInv'
  BY DEF WriterInv, Contents, Locked, Unlocked, Fits, callVars

\* The buffer is empty once it is sent.
LEMMA SendEmpties == Send => payload' = <<>> /\ payload' \in Seq(Bytes) /\ Len(payload') = 0
  BY EmptySeq DEF Send

\* The address finds an empty buffer, so all of it is queued.
LEMMA DialKeeps == WriterInv /\ DialStream => WriterInv'
<1> SUFFICES ASSUME WriterInv, DialStream PROVE WriterInv'
  OBVIOUS
<1>1. payload = <<>>
  BY DEF WriterInv, Unlocked, DialStream
<1>2. BufSize - Len(payload) \in Nat /\ Len(Address) <= BufSize - Len(payload)
  BY <1>1, EmptySeq, SizesAssumption
<1>3. Take(Address, BufSize - Len(payload)) = Address
  BY <1>2, BytesType, TakeAll
<1>4. payload' = Address
  BY <1>1, <1>3, BytesType, ConcatEmptySeq DEF DialStream, LazyWrite, Enqueued
<1>5. Contents'
  BY <1>4, BytesType, SizesAssumption DEF WriterInv, Contents, DialStream
<1> QED
  BY <1>5 DEF WriterInv, Locked, Unlocked, Fits, DialStream, LazyWrite

\* The timer's flush takes the lock, or leaves it.
LEMMA TimerKeeps == WriterInv /\ (TimerFires \/ TimerSends) => WriterInv'
<1> SUFFICES ASSUME WriterInv PROVE TimerFires \/ TimerSends => WriterInv'
  OBVIOUS
<1>1. ASSUME TimerFires PROVE WriterInv'
  BY <1>1 DEF WriterInv, Contents, Locked, Unlocked, Fits, TimerFires, Seal, callVars
<1>2. ASSUME TimerSends PROVE WriterInv'
  <2>1. Contents'
    BY <1>2, SendEmpties, SizesAssumption DEF WriterInv, Contents, TimerSends, callVars
  <2>2. Fits'
    <3>1. caller = "relock" => Len(readBuf) \in Nat /\ Len(readBuf) <= BufSize
      BY SizesAssumption DEF WriterInv, Fits, Contents
    <3>2. Len(payload) \in Nat
      BY DEF WriterInv, Contents
    <3> QED
      BY <1>2, <3>1, <3>2, SendEmpties, SizesAssumption
         DEF WriterInv, Contents, Fits, TimerSends, callVars
  <2>3. Locked'
    BY <1>2 DEF WriterInv, Locked, TimerSends
  <2>4. Unlocked'
    BY <1>2 DEF WriterInv, Locked, Unlocked, TimerSends
  <2> QED
    BY <2>1, <2>2, <2>3, <2>4 DEF WriterInv
<1> QED
  BY <1>1, <1>2

\* A call begins beside the flush or, when none is allowed, without it.
LEMMA BeginKeeps == WriterInv /\ BeginCopyFrom => WriterInv'
<1> SUFFICES ASSUME WriterInv, BeginCopyFrom PROVE WriterInv'
  OBVIOUS
<1>1. PICK k \in 0 .. Len(Data) - (Len(written) - Len(Address)) :
         source' = SubSeq(AllBytes, Len(written) + 1, Len(written) + k)
  BY DEF BeginCopyFrom
<1>2. /\ Len(AllBytes) = Len(Address) + Len(Data)
      /\ Len(Address) \in Nat /\ Len(Data) \in Nat /\ Len(written) \in Nat
  BY BytesType, ConcatProperties DEF AllBytes, WriterInv, Contents
<1>3. \A i \in Len(written) + 1 .. Len(written) + k : AllBytes[i] \in Bytes
  BY <1>2, BytesType
<1>4. source' \in Seq(Bytes)
  BY <1>1, <1>2, <1>3, SubSeqProperties
<1>5. Contents' /\ Fits'
  BY <1>4, SizesAssumption DEF WriterInv, Contents, Fits, BeginCopyFrom, bufVars
<1> QED
  BY <1>5 DEF WriterInv, Locked, Unlocked, BeginCopyFrom, bufVars

\* What is read beside the flush fits behind what is pending.
LEMMA ReadBesideKeeps == WriterInv /\ ReadBesideFlush => WriterInv'
<1> SUFFICES ASSUME WriterInv, ReadBesideFlush PROVE WriterInv'
  OBVIOUS
<1> DEFINE room == BufSize + Overhead - readAt
<1>1. room \in Nat /\ Len(payload) + room <= BufSize
  BY SizesAssumption DEF WriterInv, Contents, Fits, ReadBesideFlush
<1>2. PICK k \in 0 .. Len(Take(source, room)) :
         /\ readBuf' = Take(source, k)
         /\ source' = Drop(source, k) /\ written' = written \o Take(source, k)
  BY DEF ReadBesideFlush, ReadSource
<1>3. Take(source, room) \in Seq(Bytes) /\ Len(Take(source, room)) <= room
  BY <1>1, TakeType DEF WriterInv, Contents
<1>4. k \in Nat /\ k <= room
  BY <1>1, <1>3
<1>5. /\ readBuf' \in Seq(Bytes) /\ Len(readBuf') <= k /\ source' \in Seq(Bytes)
      /\ written' \in Seq(Bytes)
  BY <1>2, <1>4, TakeType, DropType, ConcatProperties DEF WriterInv, Contents
<1>6. UNCHANGED <<timer, mu, readAt, needFlush, payload>> /\ caller' = "relock"
      /\ caller = "reading"
  BY DEF ReadBesideFlush, bufVars
<1>7. Contents'
  BY <1>5, <1>6 DEF WriterInv, Contents
<1>8. Fits'
  BY <1>1, <1>4, <1>5, <1>6, SizesAssumption DEF WriterInv, Contents, Fits
<1> QED
  BY <1>6, <1>7, <1>8 DEF WriterInv, Locked, Unlocked

\* So all of it is queued.
LEMMA RelockKeeps == WriterInv /\ Relock => WriterInv'
<1> SUFFICES ASSUME WriterInv, Relock PROVE WriterInv'
  OBVIOUS
<1>1. /\ BufSize - Len(payload) \in Nat
      /\ Len(readBuf) <= BufSize - Len(payload)
  BY SizesAssumption DEF WriterInv, Contents, Fits, Relock
<1>2. Enqueued(readBuf) = readBuf
  BY <1>1, TakeAll DEF Enqueued, WriterInv, Contents
<1>3. payload' \in Seq(Bytes) /\ Len(payload') = Len(payload) + Len(readBuf)
  BY <1>2, ConcatProperties DEF Relock, WriterInv, Contents
<1>4. Contents'
  BY <1>1, <1>3, EmptySeq, SizesAssumption DEF WriterInv, Contents, Relock
<1> QED
  BY <1>4 DEF WriterInv, Locked, Unlocked, Fits, Relock

\* The loop without the lock reads into the whole buffer.
LEMMA ReadPayloadKeeps == WriterInv /\ ReadPayload => WriterInv'
<1> SUFFICES ASSUME WriterInv, ReadPayload PROVE WriterInv'
  OBVIOUS
<1>1. PICK k \in 0 .. Len(Take(source, BufSize)) :
         /\ payload' = Take(source, k)
         /\ source' = Drop(source, k) /\ written' = written \o Take(source, k)
  BY DEF ReadPayload, ReadSource
<1>2. Take(source, BufSize) \in Seq(Bytes) /\ Len(Take(source, BufSize)) <= BufSize
  BY SizesAssumption, TakeType DEF WriterInv, Contents
<1>3. k \in Nat /\ k <= BufSize
  BY <1>2, SizesAssumption
<1>4. /\ payload' \in Seq(Bytes) /\ Len(payload') <= k /\ source' \in Seq(Bytes)
      /\ written' \in Seq(Bytes)
  BY <1>1, <1>3, TakeType, DropType, ConcatProperties DEF WriterInv, Contents
<1>5. /\ UNCHANGED <<timer, mu, readAt, readBuf, needFlush>>
      /\ caller = "loop" /\ caller' \in {"read", "idle"}
  BY DEF ReadPayload
<1>6. Contents'
  BY <1>3, <1>4, <1>5, SizesAssumption DEF WriterInv, Contents
<1> QED
  BY <1>5, <1>6 DEF WriterInv, Locked, Unlocked, Fits

\* Sealing leaves the plaintext's length to the flush that empties the buffer.
LEMMA SealKeeps == WriterInv /\ (SealQueued \/ SealPayload) => WriterInv'
  BY DEF WriterInv, Contents, Locked, Unlocked, Fits, SealQueued, SealPayload, callVars

\* Under the lock: after this chunk no flush is allowed.
LEMMA SendQueuedKeeps == WriterInv /\ SendQueued => WriterInv'
<1> SUFFICES ASSUME WriterInv, SendQueued PROVE WriterInv'
  OBVIOUS
<1>1. payload' \in Seq(Bytes) /\ Len(payload') <= BufSize
  BY SendEmpties, SizesAssumption DEF SendQueued, WriterInv, Contents
<1>2. /\ UNCHANGED <<timer, readAt, readBuf, source, written>>
      /\ needFlush' = FALSE /\ mu' = "free"
      /\ caller = "sealed" /\ caller' \in {"idle", "loop"}
  BY DEF SendQueued, AfterChunk
<1> QED
  BY <1>1, <1>2 DEF WriterInv, Contents, Locked, Unlocked, Fits

\* Without the lock: no flush is allowed already.
LEMMA SendPayloadKeeps == WriterInv /\ SendPayload => WriterInv'
<1> SUFFICES ASSUME WriterInv, SendPayload PROVE WriterInv'
  OBVIOUS
<1>1. payload' \in Seq(Bytes) /\ Len(payload') <= BufSize
  BY SendEmpties, SizesAssumption DEF SendPayload
<1>2. /\ UNCHANGED <<timer, mu, readAt, readBuf, source, written, needFlush>>
      /\ caller = "sending" /\ caller' \in {"idle", "loop"}
  BY DEF SendPayload, AfterChunk
<1> QED
  BY <1>1, <1>2 DEF WriterInv, Contents, Locked, Unlocked, Fits

\* Every step preserves the writer's invariant.
LEMMA WriterNextInv == WriterInv /\ [SSNext]_ssVars => WriterInv'
<1> SUFFICES ASSUME WriterInv, [SSNext]_ssVars PROVE WriterInv'
  OBVIOUS
<1>1. CASE CloseWrite \/ ReaderStep \/ UNCHANGED ssVars
  BY <1>1, WriterQuiet DEF CloseWrite, ReaderStep, ssVars, bufVars
<1>2. CASE CallerStep
  BY <1>2, ReadBesideKeeps, RelockKeeps, SealKeeps, SendQueuedKeeps, ReadPayloadKeeps,
     SendPayloadKeeps DEF CallerStep
<1> QED
  BY <1>1, <1>2, DialKeeps, TimerKeeps, BeginKeeps DEF SSNext

\* The buffer is one thread's at a time, and enqueue's count is the whole of
\* what was read, whatever the sizes of the buffer, the address and the data.
THEOREM BufferIsAlone == SSSpec => []BufferAlone
<1>1. WriterInv => BufferAlone
  <2> SUFFICES ASSUME WriterInv PROVE BufferAlone
    OBVIOUS
  <2>1. ASSUME caller = "relock" PROVE Enqueued(readBuf) = readBuf
    <3>1. BufSize - Len(payload) \in Nat /\ Len(readBuf) <= BufSize - Len(payload)
      BY <2>1, SizesAssumption DEF WriterInv, Contents, Fits
    <3> QED
      BY <3>1, TakeAll DEF Enqueued, WriterInv, Contents
  <2> QED
    BY <2>1 DEF WriterInv, Locked, Unlocked, Fits, BufferAlone
<1> QED
  BY SSInitInv, WriterNextInv, <1>1, PTL DEF SSSpec
\* What the writer's end does to what the reader sees: blocks are added only
\* while the connection is open, and it is never opened again.
LEMMA WriterAdds ==
  ASSUME Parity, UNCHANGED readerVars, fin # "open" => UNCHANGED <<cipherWire, fin>>
  PROVE  Parity'
  BY DEF Parity, readerVars

\* A flush adds to the wire of an open connection only.
LEMMA SendAdds == Send => (fin # "open" => UNCHANGED <<cipherWire, fin>>)
  BY DEF Send

\* Each step of the reader leads to the block its counter is at.
LEMMA ReaderKeeps == Parity /\ ReaderStep => Parity'
<1> SUFFICES ASSUME Parity, ReaderStep PROVE Parity'
  OBVIOUS
<1>0. UNCHANGED fin
  BY DEF ReaderStep
<1>1. CASE ReadSalt
  BY <1>0, <1>1 DEF Parity, ReadSalt, StreamEnded
<1>2. CASE ReleaseSlice
  BY <1>0, <1>2 DEF Parity, ReleaseSlice
<1>3. CASE ReadSize
  <2>1. /\ reader = "size" /\ leftover' = <<>> /\ rcounter \in Nat /\ rcounter % 2 = 0 /\ ~slice
    BY <1>3 DEF Parity, ReadSize
  <2>2. CASE Incoming("size") /\ Opens("size") /\ reader' = "payload"
    <3>1. rcounter' = rcounter + 1
      BY <1>3, <2>2 DEF ReadSize
    <3>2. rcounter' \in Nat /\ rcounter' % 2 = 1
      BY <2>1, <3>1
    <3> QED
      BY <2>1, <2>2, <3>2 DEF Parity
  <2>3. CASE StreamEnded /\ reader' = "eof" /\ UNCHANGED slice
    <3>1. rcounter' = rcounter /\ cipherWire' = <<>>
      BY <1>3, <2>3 DEF ReadSize, StreamEnded, Incoming
    <3> QED
      BY <1>0, <2>1, <2>3, <3>1 DEF Parity, StreamEnded
  <2>4. CASE reader' = "error" /\ UNCHANGED slice
    <3>1. rcounter' \in Nat
      BY <1>3, <2>1 DEF ReadSize
    <3> QED
      BY <2>1, <2>4, <3>1 DEF Parity
  <2> QED
    BY <1>3, <2>2, <2>3, <2>4 DEF ReadSize
<1>4. CASE ReadChunkPayload
  <2>1. reader = "payload" /\ leftover = <<>> /\ rcounter \in Nat /\ rcounter % 2 = 1
    BY <1>4 DEF Parity, ReadChunkPayload
  <2>2. rcounter' \in Nat
    BY <1>4, <2>1 DEF ReadChunkPayload
  <2>3. CASE Incoming("payload") /\ reader' = "chunk"
    <3>1. rcounter' % 2 = 0
      BY <1>4, <2>1, <2>3 DEF ReadChunkPayload
    <3> QED
      BY <2>2, <2>3, <3>1 DEF Parity
  <2>4. CASE reader' = "error" /\ slice' = FALSE /\ UNCHANGED leftover
    BY <2>1, <2>2, <2>4 DEF Parity
  <2> QED
    BY <1>4, <2>3, <2>4 DEF ReadChunkPayload
<1>5. CASE CopyLeftover
  BY <1>0, <1>5 DEF Parity, CopyLeftover
<1> QED
  BY <1>1, <1>2, <1>3, <1>4, <1>5 DEF ReaderStep

\* Every step preserves the reader's invariant.
LEMMA ReaderNextInv == Parity /\ [SSNext]_ssVars => Parity'
<1> SUFFICES ASSUME Parity, [SSNext]_ssVars PROVE Parity'
  OBVIOUS
<1>1. CASE ReaderStep
  BY <1>1, ReaderKeeps
<1>2. CASE DialStream \/ TimerFires \/ BeginCopyFrom
  BY <1>2, WriterAdds DEF DialStream, TimerFires, BeginCopyFrom
<1>3. CASE TimerSends
  BY <1>3, WriterAdds, SendAdds DEF TimerSends
<1>4. CASE CallerStep
  <2>1. CASE SendQueued
    BY <2>1, WriterAdds, SendAdds DEF SendQueued
  <2>2. CASE SendPayload
    BY <2>2, WriterAdds, SendAdds DEF SendPayload
  <2>3. CASE ReadBesideFlush \/ Relock \/ SealQueued \/ ReadPayload \/ SealPayload
    BY <2>3, WriterAdds DEF ReadBesideFlush, Relock, SealQueued, ReadPayload, SealPayload
  <2> QED
    BY <1>4, <2>1, <2>2, <2>3 DEF CallerStep
<1>5. CASE CloseWrite
  BY <1>5, WriterAdds DEF CloseWrite
<1>6. CASE UNCHANGED ssVars
  BY <1>6, WriterAdds DEF ssVars
<1> QED
  BY <1>1, <1>2, <1>3, <1>4, <1>5, <1>6 DEF SSNext

\* The Reader ends only between chunks, with nothing left over, and holds no
\* slice when it acquires one or is done, wherever the stream is cut.
THEOREM EndIsClean == SSSpec => []CleanEnd
<1>1. Parity => CleanEnd
  BY DEF Parity, CleanEnd
<1> QED
  BY SSInitInv, ReaderNextInv, <1>1, PTL DEF SSSpec

(* ------------------------------- refinement ----------------------------- *)
\* s is what stands in the caller's bytes behind the first a of them.
Stands(s, a) ==
  /\ s \in Seq(Bytes) /\ a \in Nat /\ a + Len(s) <= Len(AllBytes)
  /\ \A i \in 1 .. Len(s) : s[i] = AllBytes[a + i]

\* What a block carries of the stream.
Load(block) == IF block[1] = "payload" THEN block[3] ELSE <<>>

Blocks == {<<"salt">>, <<"part">>} \cup {<<"size", c>> : c \in Nat}
            \cup {<<"payload", c, data>> : c \in Nat, data \in Seq(Bytes)}

\* The blocks of w carry the bytes from the first `from` of the stream to the
\* first `end`, none of them beyond the first `last`: o is where each begins.
Carries(w, o) ==
  \A i \in 1 .. Len(w) : Stands(Load(w[i]), o[i]) /\ o[i + 1] = o[i] + Len(Load(w[i]))

Follows(w, from, end, last) ==
  \E o \in [1 .. Len(w) + 1 -> 0 .. last] :
    o[1] = from /\ o[Len(w) + 1] = end /\ Carries(w, o)

\* While the connection is open nothing is missing behind them but what is queued.
Reaches(w, from, last, queued, open) ==
  \E end \in 0 .. last : Follows(w, from, end, last) /\ (open => end + queued = last)

\* The chunk of a flush: its last block carries the payload.
Chunk ==
  /\ Len(sealed) >= 1 /\ Load(sealed[Len(sealed)]) = payload
  /\ \A i \in 1 .. Len(sealed) - 1 : Load(sealed[i]) = <<>>

\* What each end holds stands where it should in the stream.
Standing ==
  /\ Stands(written, 0) /\ Stands(source, Len(written))
  /\ Stands(readBuf, Len(written) - Len(readBuf))
  /\ Stands(payload, Len(written) - Len(readBuf) - Len(payload))
  /\ Stands(got, 0) /\ Stands(leftover, Len(got)) /\ Len(got) + Len(leftover) <= Len(written)

\* Where the threads hold something.
Places ==
  /\ readBuf # <<>> => caller = "relock"
  /\ caller = "dialing" => written = <<>> /\ source = <<>> /\ payload = <<>>
  /\ caller \in {"idle", "loop"} /\ ~needFlush => payload = <<>>
  /\ sealed # <<>> => timer = "sealed" \/ caller \in {"sealed", "sending"}
  /\ timer = "sealed" \/ caller = "sending" => Chunk
  /\ caller = "sealed" => Chunk \/ (sealed = <<>> /\ payload = <<>>)

BlocksOK == cipherWire \in Seq(Blocks) /\ sealed \in Seq(Blocks) /\ counter \in Nat

\* The blocks under way carry what is between the reader and the writer.
Chained ==
  reader # "error" => Reaches(cipherWire, Len(got) + Len(leftover), Len(written),
                              Len(payload) + Len(readBuf), fin = "open")

FlowInv == Standing /\ Places /\ BlocksOK /\ Chained

(* Lemmas about what stands where. *)
\* Nothing stands anywhere.
LEMMA StandsNothing == ASSUME NEW a \in 0 .. Len(AllBytes) PROVE Stands(<<>>, a)
  BY BytesType, EmptySeq DEF Stands

\* What stands behind it, put behind it, stands there.
LEMMA StandsJoin ==
  ASSUME NEW s, NEW t, NEW a, Stands(s, a), Stands(t, a + Len(s))
  PROVE  Stands(s \o t, a) /\ Len(s \o t) = Len(s) + Len(t)
<1>1. /\ s \in Seq(Bytes) /\ t \in Seq(Bytes) /\ Len(s) \in Nat /\ Len(t) \in Nat
      /\ a \in Nat /\ a + Len(s) + Len(t) <= Len(AllBytes)
  BY DEF Stands
<1>2. /\ s \o t \in Seq(Bytes) /\ Len(s \o t) = Len(s) + Len(t)
      /\ \A i \in 1 .. Len(s) + Len(t) : (s \o t)[i] = IF i <= Len(s) THEN s[i] ELSE t[i - Len(s)]
  BY <1>1, ConcatProperties
<1>3. ASSUME NEW i \in 1 .. Len(s) + Len(t) PROVE (s \o t)[i] = AllBytes[a + i]
  <2>1. CASE i <= Len(s)
    <3>1. i \in 1 .. Len(s)
      BY <1>1, <2>1
    <3>2. s[i] = AllBytes[a + i]
      BY <3>1 DEF Stands
    <3> QED
      BY <1>2, <2>1, <3>2
  <2>2. CASE ~(i <= Len(s))
    <3>1. i - Len(s) \in 1 .. Len(t) /\ a + Len(s) + (i - Len(s)) = a + i
      BY <1>1, <2>2
    <3>2. t[i - Len(s)] = AllBytes[a + Len(s) + (i - Len(s))]
      BY <3>1 DEF Stands
    <3> QED
      BY <1>2, <2>2, <3>1, <3>2
  <2> QED
    BY <2>1, <2>2
<1>4. a + Len(s \o t) <= Len(AllBytes)
  <2>1. a + (Len(s) + Len(t)) = a + Len(s) + Len(t)
    BY <1>1
  <2> QED
    BY <1>1, <1>2, <2>1
<1> QED
  BY <1>1, <1>2, <1>3, <1>4 DEF Stands

\* Its first bytes stand where it does, the others behind them.
LEMMA StandsCut ==
  ASSUME NEW s, NEW a, Stands(s, a), NEW k \in 0 .. Len(s)
  PROVE  /\ Stands(Take(s, k), a) /\ Len(Take(s, k)) = k
         /\ Stands(Drop(s, k), a + k) /\ Len(Drop(s, k)) = Len(s) - k
<1>1. s \in Seq(Bytes) /\ Len(s) \in Nat /\ a \in Nat /\ k \in Nat /\ k <= Len(s)
      /\ a + Len(s) <= Len(AllBytes) /\ \A i \in 1 .. Len(s) : s[i] \in Bytes
  BY DEF Stands
<1>2. Len(AllBytes) \in Nat
  BY BytesType
<1>3. Take(s, k) = SubSeq(s, 1, k)
  BY <1>1 DEF Take
<1>4. /\ SubSeq(s, 1, k) \in Seq(Bytes) /\ Len(SubSeq(s, 1, k)) = k
      /\ \A i \in 1 .. k : SubSeq(s, 1, k)[i] = s[i]
  <2>1. \A i \in 1 .. k : s[i] \in Bytes
    BY <1>1
  <2> QED
    BY <1>1, <2>1, SubSeqProperties
<1>5. Stands(Take(s, k), a)
  <2>1. \A i \in 1 .. k : SubSeq(s, 1, k)[i] = AllBytes[a + i]
    <3>1. \A i \in 1 .. k : i \in 1 .. Len(s)
      BY <1>1
    <3> QED
      BY <1>4, <3>1 DEF Stands
  <2>2. a + k <= Len(AllBytes)
    BY <1>1, <1>2
  <2> QED
    BY <1>1, <1>3, <1>4, <2>1, <2>2 DEF Stands
<1> DEFINE l == Len(s)
           d == SubSeq(s, k + 1, l)
<1>6. l \in Nat /\ k + 1 \in Int /\ k <= l /\ \A i \in k + 1 .. l : s[i] \in Bytes
  BY <1>1
<1>7. /\ d \in Seq(Bytes) /\ Len(d) = IF k + 1 <= l THEN l - (k + 1) + 1 ELSE 0
      /\ \A i \in 1 .. l - (k + 1) + 1 : d[i] = s[k + 1 + i - 1]
  <2> HIDE DEF l
  <2> QED
    BY <1>6, SubSeqProperties
<1>8. d = Drop(s, k)
  BY DEF Drop
<1> HIDE DEF d, l
<1>9. Len(d) = l - k /\ \A i \in 1 .. l - k : d[i] = s[k + i]
  <2>1. /\ (IF k + 1 <= l THEN l - (k + 1) + 1 ELSE 0) = l - k /\ l - (k + 1) + 1 = l - k
        /\ \A i \in 1 .. l - k : k + 1 + i - 1 = k + i
    BY <1>1, <1>6
  <2> QED
    BY <1>7, <2>1
<1>10. Stands(d, a + k)
  <2>1. ASSUME NEW i \in 1 .. l - k PROVE d[i] = AllBytes[a + k + i]
    <3>1. k + i \in 1 .. l /\ a + (k + i) = a + k + i
      BY <1>1, <1>6
    <3>2. s[k + i] = AllBytes[a + (k + i)]
      BY <3>1 DEF Stands, l
    <3> QED
      BY <1>9, <3>1, <3>2
  <2>2. a + k \in Nat /\ a + k + (l - k) <= Len(AllBytes)
    BY <1>1, <1>2, <1>6 DEF l
  <2> QED
    BY <1>7, <1>9, <2>1, <2>2 DEF Stands
<1> QED
  BY <1>3, <1>4, <1>5, <1>8, <1>9, <1>10 DEF l

\* Of two that stand at the beginning the shorter begins the longer.
LEMMA StandsBegins ==
  ASSUME NEW s, NEW t, Stands(s, 0), Stands(t, 0), Len(s) <= Len(t)
  PROVE  Pipe!IsPrefixOf(s, t)
<1>1. s \in Seq(Bytes) /\ t \in Seq(Bytes) /\ Len(s) \in Nat /\ Len(t) \in Nat
  BY DEF Stands
<1>2. \A i \in 1 .. Len(s) : i \in 1 .. Len(t) /\ 0 + i = i
  BY <1>1
<1>3. \A i \in 1 .. Len(s) : s[i] = t[i] /\ t[i] \in Bytes
  BY <1>1, <1>2 DEF Stands
<1> DEFINE b == SubSeq(t, 1, Len(s))
<1>4. b \in Seq(Bytes) /\ Len(b) = Len(s) /\ \A i \in 1 .. Len(s) : b[i] = t[i]
  BY <1>1, <1>3, SubSeqProperties
<1> HIDE DEF b
<1>5. s = b
  BY <1>1, <1>3, <1>4, SeqEqual
<1> QED
  BY <1>5 DEF Pipe!IsPrefixOf, b

\* The caller's bytes stand at their own beginning.
LEMMA StandsAll == Stands(AllBytes, 0)
  BY BytesType DEF Stands

(* Lemmas about the blocks under way. *)
\* What a block carries is bytes.
LEMMA LoadType == ASSUME NEW b \in Blocks PROVE Load(b) \in Seq(Bytes)
<1>1. CASE b \in {<<"salt">>, <<"part">>} \cup {<<"size", c>> : c \in Nat}
  <2>1. b[1] # "payload"
    BY <1>1
  <2> QED
    BY <2>1, EmptySeq DEF Load
<1>2. CASE b \in {<<"payload", c, data>> : c \in Nat, data \in Seq(Bytes)}
  <2>1. b[1] = "payload" /\ b[3] \in Seq(Bytes)
    BY <1>2
  <2> QED
    BY <2>1 DEF Load
<1> QED
  BY <1>1, <1>2 DEF Blocks

\* No block: the end is where it begins.
LEMMA FollowsNone ==
  ASSUME NEW last \in Nat, NEW from \in 0 .. last
  PROVE  Follows(<<>>, from, from, last)
<1> DEFINE o == [i \in 1 .. Len(<<>>) + 1 |-> from]
<1>1. Len(<<>>) = 0
  OBVIOUS
<1>2. o \in [1 .. Len(<<>>) + 1 -> 0 .. last] /\ o[1] = from /\ o[Len(<<>>) + 1] = from
  BY <1>1
<1>3. Carries(<<>>, o)
  BY <1>1 DEF Carries
<1> QED
  BY <1>2, <1>3 DEF Follows

\* One block that carries nothing, or what stands there.
LEMMA FollowsOne ==
  ASSUME NEW last \in Nat, NEW from \in 0 .. last, NEW b, Stands(Load(b), from),
         from + Len(Load(b)) <= last
  PROVE  Follows(<<b>>, from, from + Len(Load(b)), last)
<1> DEFINE l == Len(Load(b))
           o == [i \in 1 .. Len(<<b>>) + 1 |-> IF i = 1 THEN from ELSE from + l]
<1>1. Len(<<b>>) = 1 /\ <<b>>[1] = b /\ l \in Nat
  BY DEF Stands
<1>2. from + l \in 0 .. last
  BY <1>1
<1> HIDE DEF l
<1>3. o \in [1 .. Len(<<b>>) + 1 -> 0 .. last] /\ o[1] = from /\ o[Len(<<b>>) + 1] = from + l
        /\ o[1 + 1] = from + l
  BY <1>1, <1>2
<1> HIDE DEF o
<1>4. Carries(<<b>>, o)
  BY <1>1, <1>3 DEF Carries, l
<1> QED
  BY <1>3, <1>4 DEF Follows, l

\* The blocks behind the first one follow what it carries.
LEMMA FollowsRest ==
  ASSUME NEW w \in Seq(Blocks), w # <<>>, NEW from, NEW end, NEW last \in Nat,
         Follows(w, from, end, last)
  PROVE  /\ Follows(Tail(w), from + Len(Load(Head(w))), end, last)
         /\ Stands(Load(Head(w)), from) /\ from + Len(Load(Head(w))) \in 0 .. last
<1> DEFINE l == Len(w)
           t == Tail(w)
<1>1. /\ l \in Nat /\ l >= 1 /\ Head(w) = w[1] /\ Len(t) = l - 1
      /\ \A i \in 1 .. Len(t) : t[i] = w[i + 1]
  BY EmptySeq, HeadTailProperties
<1>2. PICK o \in [1 .. l + 1 -> 0 .. last] : o[1] = from /\ o[l + 1] = end /\ Carries(w, o)
  BY DEF Follows
<1> HIDE DEF l, t
<1>3. Stands(Load(w[1]), o[1]) /\ o[1 + 1] = o[1] + Len(Load(w[1]))
  <2>1. 1 \in 1 .. Len(w)
    BY <1>1 DEF l
  <2> QED
    BY <1>2, <2>1 DEF Carries
<1> DEFINE q == [i \in 1 .. l |-> o[i + 1]]
<1>4. q \in [1 .. Len(t) + 1 -> 0 .. last] /\ Len(t) + 1 = l
  <2>1. \A i \in 1 .. l : i + 1 \in 1 .. l + 1
    BY <1>1
  <2>2. Len(t) + 1 = l
    BY <1>1
  <2> QED
    BY <1>2, <2>1, <2>2
<1>5. q[1] = o[1 + 1] /\ q[Len(t) + 1] = end
  BY <1>1, <1>2, <1>4
<1>6. Carries(t, q)
  <2>1. ASSUME NEW i \in 1 .. Len(t)
        PROVE  Stands(Load(t[i]), q[i]) /\ q[i + 1] = q[i] + Len(Load(t[i]))
    <3>1. i \in 1 .. l /\ i + 1 \in 1 .. l
      BY <1>1
    <3>2. t[i] = w[i + 1] /\ q[i] = o[i + 1] /\ q[i + 1] = o[(i + 1) + 1]
      BY <1>1, <3>1
    <3>3. Stands(Load(w[i + 1]), o[i + 1]) /\ o[(i + 1) + 1] = o[i + 1] + Len(Load(w[i + 1]))
      BY <1>2, <3>1 DEF Carries, l
    <3> QED
      BY <3>2, <3>3
  <2> HIDE DEF q
  <2> QED
    BY <2>1 DEF Carries
<1>7. 1 + 1 \in 1 .. l + 1 /\ o[1 + 1] \in 0 .. last
  BY <1>1, <1>2
<1> HIDE DEF q
<1>8. o[1 + 1] = from + Len(Load(Head(w))) /\ Stands(Load(Head(w)), from)
  BY <1>1, <1>2, <1>3
<1> QED
  BY <1>4, <1>5, <1>6, <1>7, <1>8 DEF Follows, t

\* Blocks put behind the others follow them.
LEMMA FollowsJoin ==
  ASSUME NEW w \in Seq(Blocks), NEW v \in Seq(Blocks), NEW from, NEW mid, NEW end,
         NEW last \in Nat, Follows(w, from, mid, last), Follows(v, mid, end, last)
  PROVE  Follows(w \o v, from, end, last)
<1> DEFINE l == Len(w)
           m == Len(v)
           u == w \o v
<1>1. l \in Nat /\ m \in Nat
  OBVIOUS
<1>2. /\ Len(u) = l + m
      /\ \A i \in 1 .. l + m : u[i] = IF i <= l THEN w[i] ELSE v[i - l]
  BY ConcatProperties
<1>3. PICK o \in [1 .. l + 1 -> 0 .. last] : o[1] = from /\ o[l + 1] = mid /\ Carries(w, o)
  BY DEF Follows
<1>4. PICK q \in [1 .. m + 1 -> 0 .. last] : q[1] = mid /\ q[m + 1] = end /\ Carries(v, q)
  BY DEF Follows
<1>5. /\ \A i \in 1 .. l : Stands(Load(w[i]), o[i]) /\ o[i + 1] = o[i] + Len(Load(w[i]))
      /\ \A i \in 1 .. m : Stands(Load(v[i]), q[i]) /\ q[i + 1] = q[i] + Len(Load(v[i]))
  BY <1>3, <1>4 DEF Carries
<1> HIDE DEF l, m, u
<1> DEFINE r == [i \in 1 .. l + m + 1 |-> IF i <= l THEN o[i] ELSE q[i - l]]
<1>6. \A i \in 1 .. l + m + 1 :
        IF i <= l THEN i \in 1 .. l /\ i \in 1 .. l + 1 ELSE i - l \in 1 .. m + 1
  BY <1>1
<1>7. r \in [1 .. l + m + 1 -> 0 .. last]
  BY <1>3, <1>4, <1>6
<1>11. ASSUME NEW i \in 1 .. l + m + 1, NEW j, j = i - l
       PROVE  r[i] = IF i <= l THEN o[i] ELSE q[j]
  BY <1>11
<1> HIDE DEF r
<1>8. r[1] = from /\ r[l + m + 1] = end /\ \A i \in 1 .. l + 1 : r[i] = o[i]
  <2>1. \A i \in 1 .. l + 1 : r[i] = o[i]
    <3>1. ASSUME NEW i \in 1 .. l PROVE r[i] = o[i]
      <4>1. i \in 1 .. l + m + 1 /\ i <= l
        BY <1>1
      <4> QED
        BY <1>1, <1>11, <4>1
    <3>2. r[l + 1] = o[l + 1]
      <4>1. l + 1 \in 1 .. l + m + 1 /\ ~(l + 1 <= l) /\ (l + 1) - l = 1
        BY <1>1
      <4> QED
        <5>1. r[l + 1] = q[1]
          BY <1>1, <1>11, <4>1
        <5> QED
          BY <1>3, <1>4, <5>1
    <3>3. \A i \in 1 .. l + 1 : i \in 1 .. l \/ i = l + 1
      BY <1>1
    <3> QED
      BY <3>1, <3>2, <3>3
  <2>2. 1 \in 1 .. l + 1
    BY <1>1
  <2>3. l + m + 1 \in 1 .. l + m + 1 /\ ~(l + m + 1 <= l) /\ (l + m + 1) - l = m + 1
    BY <1>1
  <2>4. r[l + m + 1] = q[m + 1]
    BY <1>1, <1>11, <2>3
  <2> QED
    BY <1>3, <1>4, <2>1, <2>2, <2>4
<1>9. ASSUME NEW i \in 1 .. l + m
      PROVE  Stands(Load(u[i]), r[i]) /\ r[i + 1] = r[i] + Len(Load(u[i]))
  <2>1. CASE i <= l
    <3>1. i \in 1 .. l /\ i \in 1 .. l + 1 /\ i + 1 \in 1 .. l + 1
      BY <1>1, <2>1
    <3>2. u[i] = w[i] /\ r[i] = o[i] /\ r[i + 1] = o[i + 1]
      BY <1>2, <1>8, <2>1, <3>1
    <3> QED
      BY <1>5, <3>1, <3>2
  <2>2. CASE ~(i <= l)
    <3>1. /\ i - l \in 1 .. m /\ (i + 1) - l = (i - l) + 1 /\ ~(i + 1 <= l)
          /\ i \in 1 .. l + m + 1 /\ i + 1 \in 1 .. l + m + 1
      BY <1>1, <2>2
    <3>2. u[i] = v[i - l]
      BY <1>2, <2>2
    <3>3. r[i] = q[i - l] /\ r[i + 1] = q[(i + 1) - l]
      <4>1. r[i] = q[i - l]
        BY <1>11, <2>2, <3>1
      <4>2. r[i + 1] = q[(i + 1) - l]
        <5> DEFINE x == i + 1
                   y == x - l
        <5>1. x \in 1 .. l + m + 1 /\ y = x - l /\ ~(x <= l)
          BY <3>1
        <5> HIDE DEF x, y
        <5>2. r[x] = q[y]
          BY <1>11, <5>1
        <5> QED
          BY <5>2 DEF x, y
      <4> QED
        BY <4>1, <4>2
    <3> QED
      BY <1>5, <3>1, <3>2, <3>3
  <2> QED
    BY <2>1, <2>2
<1>10. Carries(u, r) /\ r \in [1 .. Len(u) + 1 -> 0 .. last] /\ r[Len(u) + 1] = end
  BY <1>2, <1>7, <1>8, <1>9 DEF Carries
<1> QED
  BY <1>8, <1>10 DEF Follows, u

\* More bytes of the stream change nothing of it.
LEMMA FollowsLater ==
  ASSUME NEW w, NEW from, NEW end, NEW last \in Nat, NEW more \in Nat, last <= more,
         Follows(w, from, end, last)
  PROVE  Follows(w, from, end, more)
<1>1. PICK o \in [1 .. Len(w) + 1 -> 0 .. last] :
        o[1] = from /\ o[Len(w) + 1] = end /\ Carries(w, o)
  BY DEF Follows
<1>2. \A x \in 0 .. last : x \in 0 .. more
  OBVIOUS
<1>3. o \in [1 .. Len(w) + 1 -> 0 .. more]
  BY <1>2
<1> QED
  BY <1>1, <1>3 DEF Follows

\* Blocks that carry nothing end where they begin.
LEMMA FollowsIdle ==
  ASSUME NEW w \in Seq(Blocks), \A i \in 1 .. Len(w) : Load(w[i]) = <<>>, NEW last \in Nat,
         NEW from \in 0 .. last, last <= Len(AllBytes)
  PROVE  Follows(w, from, from, last)
<1> DEFINE o == [i \in 1 .. Len(w) + 1 |-> from]
           l == Len(w)
<1>1. l \in Nat
  OBVIOUS
<1>2. from \in 0 .. Len(AllBytes)
  BY BytesType
<1>3. Stands(<<>>, from) /\ from + Len(<<>>) = from
  BY <1>2, StandsNothing, EmptySeq
<1>4. o[1] = from /\ o[l + 1] = from /\ \A i \in 1 .. l : o[i] = from /\ o[i + 1] = from
  BY <1>1
<1>5. o \in [1 .. l + 1 -> 0 .. last]
  OBVIOUS
<1> HIDE DEF o
<1>6. Carries(w, o)
  BY <1>3, <1>4 DEF Carries
<1> QED
  BY <1>4, <1>5, <1>6 DEF Follows

\* What is queued grows as the stream does: the blocks still reach up to it.
LEMMA ReachesLater ==
  ASSUME NEW w, NEW from, NEW last \in Nat, NEW more \in Nat, last <= more, NEW queued \in Nat,
         NEW q \in Nat, more - q = last - queued, NEW open, NEW still, still => open,
         Reaches(w, from, last, queued, open)
  PROVE  Reaches(w, from, more, q, still)
<1>1. PICK end \in 0 .. last : Follows(w, from, end, last) /\ (open => end + queued = last)
  BY DEF Reaches
<1>2. end \in 0 .. more /\ (end + queued = last => end + q = more)
  OBVIOUS
<1>3. Follows(w, from, end, more)
  BY <1>1, FollowsLater
<1> QED
  BY <1>1, <1>2, <1>3 DEF Reaches

(* The steps that do not touch the wire. *)
\* The stream is at most all of the caller's bytes.
LEMMA StreamFits ==
  ASSUME Standing
  PROVE  /\ Len(written) \in Nat /\ Len(written) <= Len(AllBytes) /\ Len(AllBytes) \in Nat
         /\ Len(payload) \in Nat /\ Len(readBuf) \in Nat /\ Len(source) \in Nat
         /\ Len(got) \in Nat /\ Len(leftover) \in Nat
         /\ written \in Seq(Bytes) /\ payload \in Seq(Bytes) /\ readBuf \in Seq(Bytes)
         /\ source \in Seq(Bytes) /\ got \in Seq(Bytes) /\ leftover \in Seq(Bytes)
         /\ Len(payload) + Len(readBuf) <= Len(written)
<1>1. /\ written \in Seq(Bytes) /\ payload \in Seq(Bytes) /\ readBuf \in Seq(Bytes)
      /\ source \in Seq(Bytes) /\ got \in Seq(Bytes) /\ leftover \in Seq(Bytes)
      /\ 0 + Len(written) <= Len(AllBytes) /\ Len(written) - Len(readBuf) - Len(payload) \in Nat
  BY DEF Standing, Stands
<1>2. Len(AllBytes) \in Nat
  BY BytesType
<1> QED
  BY <1>1, <1>2

\* The blocks under way are not touched, and what is written is queued.
LEMMA ChainedLater ==
  ASSUME Standing, Standing', Chained, UNCHANGED <<cipherWire, fin, reader, got, leftover>>,
         Len(written) <= Len(written'),
         Len(written') - (Len(payload') + Len(readBuf')) = Len(written) - (Len(payload) + Len(readBuf))
  PROVE  Chained'
<1>1. /\ Len(written) \in Nat /\ Len(payload) + Len(readBuf) \in Nat
      /\ Len(written') \in Nat /\ Len(payload') + Len(readBuf') \in Nat
  <2>1. Len(written) \in Nat /\ Len(payload) \in Nat /\ Len(readBuf) \in Nat
    <3>1. written \in Seq(Bytes) /\ payload \in Seq(Bytes) /\ readBuf \in Seq(Bytes)
      BY DEF Standing, Stands
    <3> QED
      BY <3>1
  <2>2. Len(written') \in Nat /\ Len(payload') \in Nat /\ Len(readBuf') \in Nat
    <3>1. written' \in Seq(Bytes) /\ payload' \in Seq(Bytes) /\ readBuf' \in Seq(Bytes)
      BY DEF Standing, Stands
    <3> QED
      BY <3>1
  <2> QED
    BY <2>1, <2>2
<1>2. ASSUME reader # "error"
      PROVE  Reaches(cipherWire, Len(got) + Len(leftover), Len(written'),
                     Len(payload') + Len(readBuf'), fin = "open")
  <2>1. Reaches(cipherWire, Len(got) + Len(leftover), Len(written),
                Len(payload) + Len(readBuf), fin = "open")
    BY <1>2 DEF Chained
  <2> QED
    BY <1>1, <2>1, ReachesLater
<1> QED
  BY <1>2 DEF Chained

\* What the reader has stays where it is when the stream grows.
LEMMA ReadersPart ==
  ASSUME Standing, UNCHANGED <<got, leftover>>, Len(written') \in Nat, Len(written) <= Len(written')
  PROVE  Stands(got', 0) /\ Stands(leftover', Len(got'))
         /\ Len(got') + Len(leftover') <= Len(written')
<1>1. Len(got) \in Nat /\ Len(leftover) \in Nat /\ Len(written) \in Nat
      /\ Len(got) + Len(leftover) <= Len(written)
  BY StreamFits DEF Standing
<1>2. Len(got) + Len(leftover) <= Len(written')
  BY <1>1
<1> QED
  BY <1>2 DEF Standing

\* The address is queued whole.
LEMMA DialQueues == ASSUME WriterInv, DialStream PROVE payload' = Address
<1>1. payload = <<>>
  BY DEF WriterInv, Unlocked, DialStream
<1>2. BufSize - Len(payload) \in Nat /\ Len(Address) <= BufSize - Len(payload)
  BY <1>1, EmptySeq, SizesAssumption
<1>3. Take(Address, BufSize - Len(payload)) = Address
  BY <1>2, BytesType, TakeAll
<1> QED
  BY <1>1, <1>3, BytesType, ConcatEmptySeq DEF DialStream, LazyWrite, Enqueued

\* The address stands first.
LEMMA StandsAddress == Stands(Address, 0) /\ Len(Address) \in Nat /\ Len(Address) <= Len(AllBytes)
<1>1. /\ Len(AllBytes) = Len(Address) + Len(Data)
      /\ Address \in Seq(Bytes) /\ Len(Address) \in Nat /\ Len(Data) \in Nat
      /\ \A i \in 1 .. Len(Address) + Len(Data) :
           AllBytes[i] = IF i <= Len(Address) THEN Address[i] ELSE Data[i - Len(Address)]
  BY BytesType, ConcatProperties DEF AllBytes
<1>2. \A i \in 1 .. Len(Address) :
        i \in 1 .. Len(Address) + Len(Data) /\ i <= Len(Address) /\ 0 + i = i
  BY <1>1
<1>3. \A i \in 1 .. Len(Address) : Address[i] = AllBytes[0 + i]
  BY <1>1, <1>2
<1>4. 0 + Len(Address) <= Len(AllBytes)
  BY <1>1
<1> QED
  BY <1>1, <1>3, <1>4 DEF Stands

\* DialStream queues the first bytes of the stream.
LEMMA DialFlows == ASSUME WriterInv, FlowInv, DialStream PROVE FlowInv'
<1>1. /\ caller = "dialing" /\ caller' = "idle" /\ written' = Address /\ payload' = Address
      /\ needFlush' = TRUE
      /\ UNCHANGED <<readAt, readBuf, source, srcEnd, failed, counter, sealed,
                     cipherWire, fin, mu, readerVars>>
  BY DialQueues DEF DialStream, LazyWrite
<1>2. written = <<>> /\ source = <<>> /\ readBuf = <<>> /\ payload = <<>>
  BY <1>1 DEF FlowInv, Places
<1>3. Len(<<>>) = 0 /\ Len(written) = 0 /\ Len(readBuf) = 0 /\ Len(payload) = 0
  BY <1>2
<1>4. timer' # "sealed" /\ sealed = <<>>
  <2>1. timer = "unset"
    BY <1>1 DEF WriterInv, Unlocked
  <2> QED
    BY <1>1, <2>1 DEF FlowInv, Places, DialStream
<1>5. Standing'
  <2>1. Len(Address) \in 0 .. Len(AllBytes)
    BY StandsAddress, BytesType
  <2>2. Len(written) <= Len(written') /\ Len(written') \in Nat
    BY <1>1, <1>3, <2>1
  <2>3. UNCHANGED <<got, leftover>>
    BY <1>1 DEF readerVars
  <2>4. Stands(got', 0) /\ Stands(leftover', Len(got'))
        /\ Len(got') + Len(leftover') <= Len(written')
    BY <2>2, <2>3, ReadersPart DEF FlowInv
  <2>5. Stands(<<>>, Len(Address)) /\ Len(Address) - 0 = Len(Address)
        /\ Len(Address) - 0 - Len(Address) = 0
    BY <2>1, StandsNothing
  <2> QED
    BY <1>1, <1>2, <1>3, <2>4, <2>5, StandsAddress DEF Standing
<1>6. Chained'
  <2>1. UNCHANGED <<cipherWire, fin, reader, got, leftover>>
    BY <1>1 DEF readerVars
  <2>2. Len(Address) \in Nat /\ 0 <= Len(Address) /\ Len(Address) - (Len(Address) + 0) = 0 - (0 + 0)
    BY StandsAddress
  <2>3. /\ Len(written) <= Len(written')
        /\ Len(written') - (Len(payload') + Len(readBuf')) = Len(written) - (Len(payload) + Len(readBuf))
    BY <1>1, <1>3, <2>2
  <2> QED
    BY <1>5, <2>1, <2>3, ChainedLater DEF FlowInv
<1>7. BlocksOK'
  BY <1>1 DEF FlowInv, BlocksOK
<1>8. Places'
  BY <1>1, <1>2, <1>4 DEF Places
<1> QED
  BY <1>5, <1>6, <1>7, <1>8 DEF FlowInv

\* A call begins with what comes next of the caller's bytes.
LEMMA BeginFlows == ASSUME WriterInv, FlowInv, BeginCopyFrom PROVE FlowInv'
<1>1. PICK k \in 0 .. Len(Data) - (Len(written) - Len(Address)) :
        source' = SubSeq(AllBytes, Len(written) + 1, Len(written) + k)
  BY DEF BeginCopyFrom
<1>2. /\ caller = "idle" /\ mu = "free" /\ caller' \in {"reading", "loop"}
      /\ caller' = "loop" => ~needFlush
      /\ UNCHANGED <<timer, mu, readBuf, written, needFlush, payload, counter, sealed, cipherWire, fin>>
      /\ UNCHANGED <<reader, rcounter, slice, leftover, got>>
  BY DEF BeginCopyFrom, bufVars, readerVars
<1>3. /\ Len(AllBytes) = Len(Address) + Len(Data)
      /\ Len(Address) \in Nat /\ Len(Data) \in Nat /\ Len(written) \in Nat
      /\ Len(written) <= Len(AllBytes) /\ AllBytes \in Seq(Bytes)
  BY BytesType, ConcatProperties, StreamFits DEF AllBytes, FlowInv
<1> DEFINE a == Len(written)
           l == Len(AllBytes)
<1>4. a \in Nat /\ l \in Nat /\ k \in Nat /\ a + k <= l
  BY <1>3
<1>5. /\ source' \in Seq(Bytes) /\ Len(source') = k
      /\ \A i \in 1 .. k : source'[i] = AllBytes[a + i]
  <2> DEFINE d == SubSeq(AllBytes, a + 1, a + k)
  <2>1. \A i \in a + 1 .. a + k : AllBytes[i] \in Bytes
    <3>1. \A i \in a + 1 .. a + k : i \in 1 .. l
      BY <1>4
    <3> QED
      BY <1>3, <3>1
  <2>2. a + 1 \in Int /\ a + k \in Int
    BY <1>4
  <2> HIDE DEF a
  <2>3. /\ d \in Seq(Bytes)
        /\ Len(d) = IF a + 1 <= a + k THEN (a + k) - (a + 1) + 1 ELSE 0
        /\ \A i \in 1 .. (a + k) - (a + 1) + 1 : d[i] = AllBytes[(a + 1) + i - 1]
    BY <2>1, <2>2, SubSeqProperties
  <2>4. d = source'
    BY <1>1 DEF a
  <2> HIDE DEF d
  <2>5. /\ (IF a + 1 <= a + k THEN (a + k) - (a + 1) + 1 ELSE 0) = k
        /\ (a + k) - (a + 1) + 1 = k /\ \A i \in 1 .. k : (a + 1) + i - 1 = a + i
    BY <1>4
  <2>6. Len(d) = k /\ \A i \in 1 .. k : d[i] = AllBytes[a + i]
    BY <2>3, <2>5
  <2> QED
    BY <2>3, <2>4, <2>6
<1>6. Stands(source', a)
  <2> HIDE DEF a
  <2> QED
    BY <1>4, <1>5 DEF Stands
<1>7. Standing'
  BY <1>2, <1>6 DEF FlowInv, Standing
<1>8. Chained' /\ BlocksOK'
  BY <1>2 DEF FlowInv, Chained, BlocksOK
<1>9. Places'
  BY <1>2 DEF FlowInv, Places, Chunk
<1> QED
  BY <1>7, <1>8, <1>9 DEF FlowInv

\* What a read takes from the source comes next in the stream.
LEMMA ReadTakes ==
  ASSUME Standing, NEW room \in Nat, NEW k \in 0 .. Len(Take(source, room)),
         source' = Drop(source, k), written' = written \o Take(source, k)
  PROVE  /\ Stands(written', 0) /\ Stands(source', Len(written'))
         /\ Len(written') = Len(written) + k
         /\ Stands(Take(source, k), Len(written)) /\ Len(Take(source, k)) = k /\ k \in Nat
<1>1. source \in Seq(Bytes) /\ Len(source) \in Nat /\ Len(written) \in Nat
  BY StreamFits
<1>2. Take(source, room) \in Seq(Bytes) /\ Len(Take(source, room)) <= Len(source)
  BY <1>1, TakeType
<1>3. k \in 0 .. Len(source) /\ k \in Nat
  BY <1>1, <1>2
<1>4. /\ Stands(Take(source, k), Len(written)) /\ Len(Take(source, k)) = k
      /\ Stands(Drop(source, k), Len(written) + k)
  BY <1>3, StandsCut DEF Standing
<1>5. Stands(Take(source, k), 0 + Len(written)) /\ Stands(written, 0)
  BY <1>1, <1>4 DEF Standing
<1>6. Stands(written \o Take(source, k), 0)
      /\ Len(written \o Take(source, k)) = Len(written) + Len(Take(source, k))
  BY <1>5, StandsJoin
<1> QED
  BY <1>3, <1>4, <1>6

\* What is read beside a flush is kept behind what is queued.
LEMMA ReadBesideFlows == ASSUME WriterInv, FlowInv, ReadBesideFlush PROVE FlowInv'
<1> DEFINE room == BufSize + Overhead - readAt
<1>1. PICK k \in 0 .. Len(Take(source, room)) :
        /\ readBuf' = Take(source, k)
        /\ source' = Drop(source, k) /\ written' = written \o Take(source, k)
  BY DEF ReadBesideFlush, ReadSource
<1>2. /\ caller = "reading" /\ caller' = "relock" /\ readBuf = <<>>
      /\ UNCHANGED <<timer, mu, needFlush, payload, counter, sealed, cipherWire, fin>>
      /\ UNCHANGED <<reader, rcounter, slice, leftover, got>>
  BY DEF ReadBesideFlush, bufVars, readerVars, FlowInv, Places
<1>3. room \in Nat
  BY <1>2, SizesAssumption DEF WriterInv, Contents, Fits
<1>4. /\ Stands(written', 0) /\ Stands(source', Len(written')) /\ Len(written') = Len(written) + k
      /\ Stands(readBuf', Len(written)) /\ Len(readBuf') = k /\ k \in Nat
  <2> HIDE DEF room
  <2> QED
    BY <1>1, <1>3, ReadTakes DEF FlowInv
<1>5. Len(written) \in Nat /\ Len(payload) \in Nat /\ Len(readBuf) = 0
      /\ Stands(payload, Len(written) - Len(readBuf) - Len(payload))
  BY <1>2, StreamFits DEF FlowInv, Standing
<1>6. /\ Len(written') - Len(readBuf') = Len(written) /\ Len(written) - 0 = Len(written)
      /\ Len(written') \in Nat /\ Len(written) <= Len(written')
      /\ Len(written') - (Len(payload) + Len(readBuf')) = Len(written) - (Len(payload) + Len(readBuf))
  BY <1>4, <1>5
<1>7. Standing'
  <2>1. Stands(got', 0) /\ Stands(leftover', Len(got'))
        /\ Len(got') + Len(leftover') <= Len(written')
    BY <1>2, <1>6, ReadersPart DEF FlowInv
  <2>2. Stands(payload', Len(written') - Len(readBuf') - Len(payload'))
    BY <1>2, <1>5, <1>6
  <2> QED
    BY <1>4, <1>6, <2>1, <2>2 DEF Standing
<1>8. Chained'
  BY <1>2, <1>6, <1>7, ChainedLater DEF FlowInv
<1>9. BlocksOK' /\ Places'
  BY <1>2 DEF FlowInv, BlocksOK, Places, Chunk
<1> QED
  BY <1>7, <1>8, <1>9 DEF FlowInv

\* It is queued there.
LEMMA RelockFlows == ASSUME WriterInv, FlowInv, Relock PROVE FlowInv'
<1>1. /\ caller = "relock" /\ caller' = "queued" /\ readBuf' = <<>> /\ mu = "free"
      /\ payload' = payload \o Enqueued(readBuf)
      /\ UNCHANGED <<timer, source, written, needFlush, counter, sealed, cipherWire, fin>>
      /\ UNCHANGED <<reader, rcounter, slice, leftover, got>>
  BY DEF Relock, readerVars
<1>2. Enqueued(readBuf) = readBuf
  <2>1. BufSize - Len(payload) \in Nat /\ Len(readBuf) <= BufSize - Len(payload)
    BY <1>1, SizesAssumption DEF WriterInv, Contents, Fits
  <2> QED
    BY <2>1, TakeAll DEF Enqueued, WriterInv, Contents
<1>3. /\ Len(written) \in Nat /\ Len(payload) \in Nat /\ Len(readBuf) \in Nat
      /\ Len(written) <= Len(AllBytes) /\ Len(AllBytes) \in Nat
      /\ Len(payload) + Len(readBuf) <= Len(written)
  BY StreamFits DEF FlowInv
<1>4. /\ Stands(payload, Len(written) - Len(readBuf) - Len(payload))
      /\ Stands(readBuf, Len(written) - Len(readBuf))
  BY DEF FlowInv, Standing
<1>5. /\ (Len(written) - Len(readBuf) - Len(payload)) + Len(payload) = Len(written) - Len(readBuf)
      /\ Len(written) - 0 - (Len(payload) + Len(readBuf)) = Len(written) - Len(readBuf) - Len(payload)
      /\ Len(written) - 0 = Len(written) /\ Len(written) \in 0 .. Len(AllBytes)
  BY <1>3
<1>6. /\ Stands(payload', Len(written) - Len(readBuf) - Len(payload))
      /\ Len(payload') = Len(payload) + Len(readBuf)
  <2> DEFINE a == Len(written) - Len(readBuf) - Len(payload)
  <2>1. Stands(payload, a) /\ Stands(readBuf, a + Len(payload))
    BY <1>4, <1>5
  <2> HIDE DEF a
  <2>2. Stands(payload \o readBuf, a) /\ Len(payload \o readBuf) = Len(payload) + Len(readBuf)
    BY <2>1, StandsJoin
  <2> QED
    BY <1>1, <1>2, <2>2 DEF a
<1>7. Len(readBuf') = 0
  BY <1>1
<1>8. Standing'
  <2>1. Stands(readBuf', Len(written') - Len(readBuf'))
    BY <1>1, <1>5, <1>7, StandsNothing
  <2>2. Stands(payload', Len(written') - Len(readBuf') - Len(payload'))
    BY <1>1, <1>5, <1>6, <1>7
  <2> QED
    BY <1>1, <2>1, <2>2 DEF FlowInv, Standing
<1>9. Chained'
  <2>1. Len(written') - (Len(payload') + Len(readBuf')) = Len(written) - (Len(payload) + Len(readBuf))
    BY <1>1, <1>3, <1>6, <1>7
  <2>2. Len(written) <= Len(written')
    BY <1>1, <1>3
  <2> QED
    BY <1>1, <1>8, <2>1, <2>2, ChainedLater DEF FlowInv
<1>10. BlocksOK' /\ Places'
  <2>1. timer # "sealed"
    BY <1>1 DEF WriterInv, Locked
  <2> QED
    BY <1>1, <2>1 DEF FlowInv, BlocksOK, Places, Chunk
<1> QED
  BY <1>8, <1>9, <1>10 DEF FlowInv

\* The loop reads into a buffer that is empty.
LEMMA ReadPayloadFlows == ASSUME WriterInv, FlowInv, ReadPayload PROVE FlowInv'
<1>1. PICK k \in 0 .. Len(Take(source, BufSize)) :
        /\ payload' = Take(source, k)
        /\ source' = Drop(source, k) /\ written' = written \o Take(source, k)
  BY DEF ReadPayload, ReadSource
<1>2. /\ caller = "loop" /\ caller' \in {"read", "idle"} /\ (caller' = "idle" => payload' = <<>>)
      /\ UNCHANGED <<timer, mu, readBuf, needFlush, counter, sealed, cipherWire, fin>>
      /\ UNCHANGED <<reader, rcounter, slice, leftover, got>>
  BY DEF ReadPayload, readerVars
<1>3. ~needFlush /\ timer # "sealed" /\ payload = <<>> /\ readBuf = <<>>
  BY <1>2 DEF WriterInv, Unlocked, FlowInv, Places
<1>4. /\ Stands(written', 0) /\ Stands(source', Len(written')) /\ Len(written') = Len(written) + k
      /\ Stands(payload', Len(written)) /\ Len(payload') = k /\ k \in Nat
  BY <1>1, SizesAssumption, ReadTakes DEF FlowInv
<1>5. Len(written) \in Nat /\ Len(payload) = 0 /\ Len(readBuf) = 0 /\ Len(AllBytes) \in Nat
  BY <1>3, StreamFits DEF FlowInv
<1>6. /\ Len(written') - 0 - Len(payload') = Len(written) /\ Len(written') - 0 = Len(written')
      /\ Len(written') \in Nat /\ Len(written) <= Len(written')
      /\ Len(written') - (Len(payload') + Len(readBuf)) = Len(written) - (Len(payload) + Len(readBuf))
  BY <1>4, <1>5
<1>7. Standing'
  <2>1. Stands(got', 0) /\ Stands(leftover', Len(got'))
        /\ Len(got') + Len(leftover') <= Len(written')
    BY <1>2, <1>6, ReadersPart DEF FlowInv
  <2>2. Stands(payload', Len(written') - Len(readBuf') - Len(payload'))
    BY <1>2, <1>4, <1>5, <1>6
  <2>3. Len(written') \in 0 .. Len(AllBytes)
    BY <1>4, <1>5, <1>6 DEF Stands
  <2>4. Stands(readBuf', Len(written') - Len(readBuf'))
    BY <1>2, <1>3, <1>5, <1>6, <2>3, StandsNothing
  <2> QED
    BY <1>4, <2>1, <2>2, <2>4 DEF Standing
<1>8. Chained'
  <2>1. Len(written') - (Len(payload') + Len(readBuf')) = Len(written) - (Len(payload) + Len(readBuf))
    BY <1>2, <1>6
  <2> QED
    BY <1>2, <1>6, <1>7, <2>1, ChainedLater DEF FlowInv
<1>9. BlocksOK' /\ Places'
  BY <1>2, <1>3 DEF FlowInv, BlocksOK, Places
<1> QED
  BY <1>7, <1>8, <1>9 DEF FlowInv

(* The steps that seal and send. *)
\* A sealed chunk carries the payload in its last block.
LEMMA SealChunk ==
  ASSUME Standing, BlocksOK, Seal, UNCHANGED <<payload, cipherWire>>
  PROVE  Chunk' /\ BlocksOK'
<1> DEFINE b == <<"size", counter>>
           e == <<"payload", counter + 1, payload>>
           t == <<b, e>>
           h == IF counter = 0 THEN <<<<"salt">>>> ELSE <<>>
<1>1. counter \in Nat /\ payload \in Seq(Bytes) /\ sealed' = h \o t /\ counter' = counter + 2
  BY StreamFits DEF BlocksOK, Seal
<1>2. b \in Blocks /\ e \in Blocks /\ <<"salt">> \in Blocks
  BY <1>1 DEF Blocks
<1>3. Load(b) = <<>> /\ Load(e) = payload /\ Load(<<"salt">>) = <<>>
  BY DEF Load
<1>4. t \in Seq(Blocks) /\ Len(t) = 2 /\ t[1] = b /\ t[2] = e
  <2> HIDE DEF b, e
  <2> QED
    BY <1>2
<1>5. /\ h \in Seq(Blocks) /\ Len(h) \in 0 .. 1
      /\ Len(h) = 1 => Load(h[1]) = <<>>
  <2>1. CASE counter = 0
    <3> DEFINE z == <<"salt">>
    <3>1. z \in Blocks /\ Load(z) = <<>> /\ h = <<z>>
      BY <1>2, <1>3, <2>1
    <3> HIDE DEF z, h
    <3> QED
      BY <3>1
  <2>2. CASE counter # 0
    BY <2>2, EmptySeq
  <2> QED
    BY <2>1, <2>2
<1> HIDE DEF b, e, t, h
<1>6. /\ h \o t \in Seq(Blocks) /\ Len(h \o t) = Len(h) + Len(t)
      /\ \A i \in 1 .. Len(h) + Len(t) : (h \o t)[i] = IF i <= Len(h) THEN h[i] ELSE t[i - Len(h)]
  BY <1>4, <1>5, ConcatProperties
<1> DEFINE u == h \o t
<1>7. /\ u \in Seq(Blocks) /\ Len(u) >= 1 /\ Load(u[Len(u)]) = payload
      /\ \A i \in 1 .. Len(u) - 1 : Load(u[i]) = <<>>
  <2>1. CASE Len(h) = 0
    <3>1. Len(u) = 2 /\ u[1] = t[1] /\ u[2] = t[2]
      BY <1>4, <1>6, <2>1
    <3> HIDE DEF u
    <3> QED
      BY <1>3, <1>4, <1>6, <3>1 DEF u
  <2>2. CASE Len(h) = 1
    <3>1. Len(u) = 3 /\ u[1] = h[1] /\ u[2] = t[1] /\ u[3] = t[2]
      BY <1>4, <1>6, <2>2
    <3>2. u \in Seq(Blocks)
      BY <1>6
    <3> HIDE DEF u
    <3>3. Load(u[1]) = <<>> /\ Load(u[2]) = <<>> /\ Load(u[3]) = payload
      BY <1>3, <1>4, <1>5, <2>2, <3>1
    <3>4. \A i \in 1 .. Len(u) - 1 : i = 1 \/ i = 2
      BY <3>1
    <3> QED
      BY <3>1, <3>2, <3>3, <3>4
  <2> QED
    BY <1>5, <2>1, <2>2
<1> HIDE DEF u
<1>8. sealed' = u /\ counter' \in Nat
  BY <1>1 DEF u
<1> QED
  BY <1>7, <1>8 DEF Chunk, BlocksOK

\* The blocks of a chunk carry the payload, those before the last one nothing.
LEMMA ChunkFollows ==
  ASSUME BlocksOK, Chunk, NEW last \in Nat, last <= Len(AllBytes), NEW a \in 0 .. last,
         Stands(payload, a), a + Len(payload) <= last
  PROVE  /\ Follows(sealed, a, a + Len(payload), last)
         /\ \A k \in 0 .. Len(sealed) - 1 :
              Take(sealed, k) \in Seq(Blocks) /\ Follows(Take(sealed, k), a, a, last)
<1> DEFINE l == Len(sealed)
<1>1. sealed \in Seq(Blocks) /\ l \in Nat /\ l >= 1 /\ a \in Nat /\ Len(payload) \in Nat
  BY DEF BlocksOK, Chunk, Stands
<1>2. ASSUME NEW k \in 0 .. l - 1
      PROVE  /\ Take(sealed, k) \in Seq(Blocks) /\ Follows(Take(sealed, k), a, a, last)
             /\ Take(sealed, k) = SubSeq(sealed, 1, k) /\ Len(SubSeq(sealed, 1, k)) = k
             /\ \A i \in 1 .. k : SubSeq(sealed, 1, k)[i] = sealed[i]
  <2> DEFINE s == SubSeq(sealed, 1, k)
  <2>1. k \in Nat /\ k < l
    BY <1>1
  <2>2. Take(sealed, k) = s
    BY <2>1 DEF Take
  <2>3. \A i \in 1 .. k : i \in 1 .. l /\ i \in 1 .. l - 1
    BY <1>1, <2>1
  <2>4. \A i \in 1 .. k : sealed[i] \in Blocks
    BY <1>1, <2>3
  <2>5. s \in Seq(Blocks) /\ Len(s) = k /\ \A i \in 1 .. k : s[i] = sealed[i]
    BY <1>1, <2>1, <2>4, SubSeqProperties
  <2>6. \A i \in 1 .. k : Load(sealed[i]) = <<>>
    BY <2>3 DEF Chunk
  <2> HIDE DEF s
  <2>7. \A i \in 1 .. Len(s) : Load(s[i]) = <<>>
    BY <2>5, <2>6
  <2>8. Follows(s, a, a, last)
    BY <2>5, <2>7, FollowsIdle
  <2> QED
    BY <2>2, <2>5, <2>8 DEF s
<1>3. Follows(sealed, a, a + Len(payload), last)
  <2> DEFINE s == SubSeq(sealed, 1, l - 1)
             b == sealed[l]
  <2>1. l - 1 \in 0 .. l - 1 /\ l \in 1 .. l
    BY <1>1
  <2>2. s \in Seq(Blocks) /\ Follows(s, a, a, last) /\ Len(s) = l - 1
        /\ \A i \in 1 .. l - 1 : s[i] = sealed[i]
    BY <1>2, <2>1
  <2>3. b \in Blocks /\ Load(b) = payload
    BY <1>1, <2>1 DEF Chunk
  <2> HIDE DEF s, b
  <2>4. Follows(<<b>>, a, a + Len(payload), last)
    BY <2>3, FollowsOne
  <2>5. <<b>> \in Seq(Blocks) /\ Len(<<b>>) = 1 /\ <<b>>[1] = b
    BY <2>3
  <2> DEFINE o == <<b>>
  <2>6. o \in Seq(Blocks) /\ Len(o) = 1 /\ o[1] = b /\ Follows(o, a, a + Len(payload), last)
    BY <2>4, <2>5
  <2> HIDE DEF o
  <2>7. Follows(s \o o, a, a + Len(payload), last)
    BY <2>2, <2>6, FollowsJoin
  <2>8. /\ s \o o \in Seq(Blocks) /\ Len(s \o o) = Len(s) + Len(o)
        /\ \A i \in 1 .. Len(s) + Len(o) : (s \o o)[i] = IF i <= Len(s) THEN s[i] ELSE o[i - Len(s)]
    BY <2>2, <2>6, ConcatProperties
  <2>9. Len(s) + Len(o) = l /\ Len(s \o o) = l
    BY <1>1, <2>2, <2>6, <2>8
  <2>10. ASSUME NEW i \in 1 .. l PROVE (s \o o)[i] = sealed[i]
    <3>1. CASE i <= l - 1
      <4>1. i \in 1 .. l - 1
        BY <1>1, <3>1
      <4> QED
        BY <2>2, <2>8, <2>9, <3>1, <4>1
    <3>2. CASE ~(i <= l - 1)
      <4>1. i = l /\ i - (l - 1) = 1
        BY <1>1, <3>2
      <4> QED
        BY <2>2, <2>6, <2>8, <2>9, <3>2, <4>1 DEF b
    <3> QED
      BY <3>1, <3>2
  <2>11. s \o o = sealed
    <3> DEFINE u == s \o o
    <3>1. u \in Seq(Blocks) /\ Len(u) = Len(sealed) /\ \A i \in 1 .. Len(u) : u[i] = sealed[i]
      BY <2>8, <2>9, <2>10
    <3> HIDE DEF u
    <3>2. u = sealed
      BY <1>1, <3>1, SeqEqual
    <3> QED
      BY <3>2 DEF u
  <2> QED
    BY <2>7, <2>11
<1> QED
  BY <1>2, <1>3

\* The write of a chunk: what was queued is under way, or the connection is done.
LEMMA SendFlows ==
  ASSUME Standing, BlocksOK, Chained, Chunk, Send,
         UNCHANGED <<written, readBuf, source, counter, reader, got, leftover>>
  PROVE  /\ Standing' /\ BlocksOK' /\ Chained' /\ sealed' = <<>> /\ payload' = <<>>
<1> DEFINE last == Len(written)
           q == Len(readBuf)
           a == last - q - Len(payload)
<1>1. /\ last \in Nat /\ q \in Nat /\ Len(payload) \in Nat /\ Len(payload) + q <= last
      /\ last <= Len(AllBytes) /\ Len(AllBytes) \in Nat
  BY StreamFits
<1>2. sealed' = <<>> /\ payload' = <<>> /\ Len(<<>>) = 0 /\ <<>> \in Seq(Blocks)
  BY EmptySeq DEF Send
<1>3. Standing'
  <2>1. last - q - 0 = last - q /\ last - q \in 0 .. Len(AllBytes)
    BY <1>1
  <2>2. Stands(<<>>, last - q - Len(<<>>))
    BY <1>2, <2>1, StandsNothing
  <2> QED
    BY <1>2, <2>2 DEF Standing
<1>4. a \in 0 .. last /\ a + Len(payload) <= last /\ Stands(payload, a)
      /\ a + Len(payload) \in 0 .. last /\ a + Len(payload) + q = last
  BY <1>1 DEF Standing
<1> HIDE DEF last, q, a
<1>5. cipherWire \in Seq(Blocks) /\ sealed \in Seq(Blocks)
  BY DEF BlocksOK
<1> DEFINE from == Len(got) + Len(leftover)
           now == Len(payload) + q
<1>6. reader # "error" => Reaches(cipherWire, from, last, now, fin = "open")
  BY DEF Chained, last, q
<1> HIDE DEF from
<1>7. CASE fin = "open" /\ cipherWire' = cipherWire \o sealed /\ UNCHANGED fin
  <2>1. cipherWire' \in Seq(Blocks)
    BY <1>5, <1>7, ConcatProperties
  <2>2. ASSUME reader # "error"
        PROVE  Reaches(cipherWire', from, last, q, TRUE)
    <3>1. PICK end \in 0 .. last :
            Follows(cipherWire, from, end, last) /\ (fin = "open" => end + now = last)
      BY <1>6, <2>2 DEF Reaches
    <3>2. end = a
      BY <1>1, <1>4, <1>7, <3>1
    <3>3. Follows(sealed, a, a + Len(payload), last)
      BY <1>1, <1>4, ChunkFollows
    <3>4. Follows(cipherWire \o sealed, from, a + Len(payload), last)
      BY <1>1, <1>5, <3>1, <3>2, <3>3, FollowsJoin
    <3> QED
      BY <1>4, <1>7, <3>4 DEF Reaches
  <2>3. reader' # "error" => Reaches(cipherWire', from, last, 0 + q, fin' = "open")
    <3>1. 0 + q = q
      BY <1>1
    <3> QED
      BY <1>7, <2>2, <3>1 DEF Reaches
  <2>4. Chained'
    BY <1>2, <2>3 DEF Chained, from, last, q
  <2> QED
    BY <1>2, <1>3, <2>1, <2>4 DEF BlocksOK
<1>8. CASE fin = "open" /\ fin' = "broken"
           /\ \E k \in 0 .. Len(sealed) - 1 : \E part \in {<<>>, <<<<"part">>>>} :
                cipherWire' = cipherWire \o Take(sealed, k) \o part
  <2>1. PICK k \in 0 .. Len(sealed) - 1 : \E part \in {<<>>, <<<<"part">>>>} :
          cipherWire' = cipherWire \o Take(sealed, k) \o part
    BY <1>8
  <2>2. PICK part \in {<<>>, <<<<"part">>>>} : cipherWire' = cipherWire \o Take(sealed, k) \o part
    BY <2>1
  <2> DEFINE s == Take(sealed, k)
             w == cipherWire \o s
  <2>3. s \in Seq(Blocks) /\ Follows(s, a, a, last)
    BY <1>1, <1>4, ChunkFollows DEF last
  <2>4. part \in Seq(Blocks) /\ \A i \in 1 .. Len(part) : Load(part[i]) = <<>>
    <3>1. CASE part = <<>>
      BY <1>2, <3>1
    <3>2. CASE part = <<<<"part">>>>
      <4> DEFINE z == <<"part">>
      <4>1. z \in Blocks /\ Load(z) = <<>> /\ part = <<z>>
        BY <3>2 DEF Blocks, Load
      <4> HIDE DEF z
      <4> QED
        BY <4>1
    <3> QED
      BY <3>1, <3>2
  <2> HIDE DEF s
  <2>5. w \in Seq(Blocks)
    BY <1>5, <2>3, ConcatProperties
  <2>6. cipherWire' = w \o part
    BY <2>2 DEF s
  <2>7. ASSUME reader # "error"
        PROVE  Reaches(cipherWire', from, last, q, FALSE)
    <3>1. PICK end \in 0 .. last :
            Follows(cipherWire, from, end, last) /\ (fin = "open" => end + now = last)
      BY <1>6, <2>7 DEF Reaches
    <3>2. end = a
      BY <1>1, <1>4, <1>8, <3>1
    <3>3. Follows(w, from, a, last)
      BY <1>1, <1>5, <2>3, <3>1, <3>2, FollowsJoin
    <3>4. Follows(part, a, a, last)
      BY <1>1, <1>4, <2>4, FollowsIdle DEF last
    <3> HIDE DEF w
    <3>5. Follows(w \o part, from, a, last)
      BY <1>1, <2>4, <2>5, <3>3, <3>4, FollowsJoin
    <3> QED
      BY <1>4, <2>6, <3>5 DEF Reaches
  <2>8. cipherWire' \in Seq(Blocks)
    <3> HIDE DEF w
    <3> QED
      BY <2>4, <2>5, <2>6, ConcatProperties
  <2>9. reader' # "error" => Reaches(cipherWire', from, last, 0 + q, fin' = "open")
    <3>1. 0 + q = q
      BY <1>1
    <3> QED
      BY <1>8, <2>7, <3>1 DEF Reaches
  <2>10. Chained'
    BY <1>2, <2>9 DEF Chained, from, last, q
  <2> QED
    BY <1>2, <1>3, <2>8, <2>10 DEF BlocksOK
<1>9. CASE fin # "open" /\ UNCHANGED <<cipherWire, fin>>
  <2>1. ASSUME reader # "error" PROVE Reaches(cipherWire, from, last, 0 + q, fin = "open")
    BY <1>6, <1>9, <2>1 DEF Reaches
  <2>2. Chained'
    BY <1>2, <1>9, <2>1 DEF Chained, from, last, q
  <2> QED
    BY <1>2, <1>3, <1>5, <1>9, <2>2 DEF BlocksOK
<1> QED
  BY <1>7, <1>8, <1>9 DEF Send

\* The flush of the timer.
LEMMA TimerFlows == ASSUME WriterInv, FlowInv, TimerFires \/ TimerSends PROVE FlowInv'
<1>1. CASE TimerFires
  <2>1. /\ timer = "set" /\ mu = "free" /\ caller \notin {"queued", "sealed"}
        /\ UNCHANGED <<caller, callVars, needFlush, payload, cipherWire, fin>>
        /\ UNCHANGED readerVars
    BY <1>1 DEF TimerFires, WriterInv, Locked
  <2>2. Standing' /\ Chained'
    BY <2>1 DEF FlowInv, Standing, Chained, callVars, readerVars
  <2>3. CASE needFlush /\ payload # <<>>
    <3>1. timer' = "sealed" /\ Seal
      BY <1>1, <2>3 DEF TimerFires
    <3>2. Chunk' /\ BlocksOK'
      BY <2>1, <3>1, SealChunk DEF FlowInv
    <3>3. Places'
      BY <2>1, <3>1, <3>2 DEF FlowInv, Places, callVars
    <3> QED
      BY <2>2, <3>2, <3>3 DEF FlowInv
  <2>4. CASE ~(needFlush /\ payload # <<>>)
    <3>1. timer' = "done" /\ UNCHANGED <<counter, sealed>>
      BY <1>1, <2>4 DEF TimerFires
    <3>2. BlocksOK'
      BY <2>1, <3>1 DEF FlowInv, BlocksOK
    <3>3. Places'
      BY <2>1, <3>1 DEF FlowInv, Places, Chunk, callVars
    <3> QED
      BY <2>2, <3>2, <3>3 DEF FlowInv
  <2> QED
    BY <2>3, <2>4
<1>2. CASE TimerSends
  <2>1. /\ timer = "sealed" /\ timer' = "done" /\ Send
        /\ UNCHANGED <<caller, readBuf, written, source, needFlush, counter, reader, got, leftover>>
    BY <1>2 DEF TimerSends, callVars, readerVars
  <2>2. /\ caller \notin {"queued", "sealed"} /\ caller \notin {"loop", "read", "sending"}
        /\ caller # "dialing"
    BY <2>1 DEF WriterInv, Locked, Unlocked
  <2>3. Standing /\ BlocksOK /\ Chained /\ Chunk
    BY <2>1 DEF FlowInv, Places
  <2>4. Standing' /\ BlocksOK' /\ Chained' /\ sealed' = <<>> /\ payload' = <<>>
    BY <2>1, <2>3, SendFlows
  <2>5. Places'
    BY <2>1, <2>2, <2>4 DEF FlowInv, Places
  <2> QED
    BY <2>4, <2>5 DEF FlowInv
<1> QED
  BY <1>1, <1>2

\* The flushes of the caller.
LEMMA SealFlows == ASSUME WriterInv, FlowInv, SealQueued \/ SealPayload PROVE FlowInv'
<1>1. /\ UNCHANGED <<timer, mu, callVars, needFlush, payload, cipherWire, fin>>
      /\ UNCHANGED readerVars
      /\ timer # "sealed"
  BY DEF SealQueued, SealPayload, WriterInv, Locked, Unlocked
<1>2. Standing' /\ Chained'
  BY <1>1 DEF FlowInv, Standing, Chained, callVars, readerVars
<1>3. sealed = <<>> /\ readBuf = <<>>
  BY <1>1 DEF FlowInv, Places, SealQueued, SealPayload
<1>4. CASE SealQueued /\ payload = <<>>
  <2>1. caller' = "sealed" /\ UNCHANGED <<counter, sealed>>
    BY <1>4 DEF SealQueued
  <2>2. BlocksOK' /\ Places'
    BY <1>1, <1>3, <1>4, <2>1 DEF FlowInv, BlocksOK, Places, callVars
  <2> QED
    BY <1>2, <2>2 DEF FlowInv
<1>5. CASE ~(SealQueued /\ payload = <<>>)
  <2>1. Seal /\ caller' \in {"sealed", "sending"}
    BY <1>5 DEF SealQueued, SealPayload
  <2>2. Chunk' /\ BlocksOK'
    BY <1>1, <2>1, SealChunk DEF FlowInv
  <2>3. Places'
    BY <1>1, <1>3, <2>1, <2>2 DEF FlowInv, Places, callVars
  <2> QED
    BY <1>2, <2>2, <2>3 DEF FlowInv
<1> QED
  BY <1>4, <1>5

\* And their writes.
LEMMA SendStepFlows == ASSUME WriterInv, FlowInv, SendQueued \/ SendPayload PROVE FlowInv'
<1>1. /\ caller \in {"sealed", "sending"} /\ caller' \in {"idle", "loop"} /\ timer' = timer
      /\ UNCHANGED <<readBuf, written, source, counter, reader, got, leftover>> /\ timer # "sealed"
  BY DEF SendQueued, SendPayload, AfterChunk, WriterInv, Locked, Unlocked, readerVars
<1>2. readBuf = <<>> /\ Standing /\ BlocksOK /\ Chained
  BY <1>1 DEF FlowInv, Places
<1>3. CASE SendQueued /\ sealed = <<>>
  <2>1. UNCHANGED <<cipherWire, fin, sealed, payload>>
    BY <1>3 DEF SendQueued
  <2>2. payload = <<>>
    <3>1. Len(sealed) = 0
      BY <1>3
    <3> QED
      BY <1>3, <3>1 DEF FlowInv, Places, SendQueued, Chunk
  <2>3. Standing' /\ BlocksOK' /\ Chained'
    BY <1>1, <1>2, <2>1 DEF Standing, BlocksOK, Chained
  <2>4. Places'
    BY <1>1, <1>2, <1>3, <2>1, <2>2 DEF Places
  <2> QED
    BY <2>3, <2>4 DEF FlowInv
<1>4. CASE ~(SendQueued /\ sealed = <<>>)
  <2>1. Send
    BY <1>4 DEF SendQueued, SendPayload
  <2>2. Chunk
    BY <1>4 DEF FlowInv, Places, SendQueued, SendPayload
  <2>3. Standing' /\ BlocksOK' /\ Chained' /\ sealed' = <<>> /\ payload' = <<>>
    BY <1>1, <1>2, <2>1, <2>2, SendFlows
  <2>4. Places'
    BY <1>1, <1>2, <2>3 DEF Places
  <2> QED
    BY <2>3, <2>4 DEF FlowInv
<1> QED
  BY <1>3, <1>4

\* The half-close.
LEMMA CloseFlows == ASSUME FlowInv, CloseWrite PROVE FlowInv'
<1>1. /\ UNCHANGED <<caller, timer, readBuf, source, written, needFlush, payload, counter, sealed>>
      /\ UNCHANGED <<cipherWire, reader, got, leftover>>
      /\ fin' # "open"
  BY DEF CloseWrite, callVars, bufVars, readerVars
<1>2. Standing' /\ BlocksOK' /\ Places'
  BY <1>1 DEF FlowInv, Standing, BlocksOK, Places, Chunk
<1>3. Chained'
  BY <1>1 DEF FlowInv, Chained, Reaches
<1> QED
  BY <1>2, <1>3 DEF FlowInv

\* What the reader does changes nothing of the writer's part.
LEMMA ReaderOnly ==
  ASSUME FlowInv, UNCHANGED <<caller, timer, mu, callVars, bufVars, fin>>,
         cipherWire' \in Seq(Blocks), Stands(got', 0), Stands(leftover', Len(got')),
         Len(got') + Len(leftover') <= Len(written),
         reader' # "error" =>
           Reaches(cipherWire', Len(got') + Len(leftover'), Len(written),
                   Len(payload) + Len(readBuf), fin = "open")
  PROVE  FlowInv'
<1>1. UNCHANGED <<caller, timer, readBuf, source, written, needFlush, payload, counter, sealed, fin>>
  BY DEF callVars, bufVars
<1>2. Standing' /\ BlocksOK' /\ Places'
  BY <1>1 DEF FlowInv, Standing, BlocksOK, Places, Chunk
<1>3. Chained'
  BY <1>1 DEF Chained
<1> QED
  BY <1>2, <1>3 DEF FlowInv

\* A block that is read carries what the reader gets next.
LEMMA BlockTaken ==
  ASSUME FlowInv, reader # "error", cipherWire # <<>>
  PROVE  LET load == Load(Head(cipherWire))
             from == Len(got) + Len(leftover)
         IN  /\ Tail(cipherWire) \in Seq(Blocks) /\ Head(cipherWire) \in Blocks
             /\ Stands(load, from) /\ from + Len(load) <= Len(written)
             /\ Reaches(Tail(cipherWire), from + Len(load), Len(written),
                        Len(payload) + Len(readBuf), fin = "open")
<1> DEFINE load == Load(Head(cipherWire))
           from == Len(got) + Len(leftover)
           last == Len(written)
           now == Len(payload) + Len(readBuf)
<1>1. cipherWire \in Seq(Blocks)
  BY DEF FlowInv, BlocksOK
<1>2. Tail(cipherWire) \in Seq(Blocks) /\ Head(cipherWire) \in Blocks
  BY <1>1, HeadTailProperties
<1>3. last \in Nat
  BY StreamFits DEF FlowInv
<1>4. Reaches(cipherWire, from, last, now, fin = "open")
  BY DEF FlowInv, Chained
<1> HIDE DEF from, last, now
<1>5. PICK end \in 0 .. last : /\ Follows(cipherWire, from, end, last)
                               /\ (fin = "open" => end + now = last)
  BY <1>4 DEF Reaches
<1>6. /\ Follows(Tail(cipherWire), from + Len(load), end, last)
      /\ Stands(load, from) /\ from + Len(load) \in 0 .. last
  BY <1>1, <1>3, <1>5, FollowsRest
<1> HIDE DEF load
<1>7. from + Len(load) <= last
  BY <1>3, <1>6
<1>8. Reaches(Tail(cipherWire), from + Len(load), last, now, fin = "open")
  BY <1>5, <1>6 DEF Reaches
<1> QED
  BY <1>2, <1>6, <1>7, <1>8 DEF load, from, last, now

\* The steps of the Reader.
LEMMA ReaderFlows == ASSUME FlowInv, Parity, ReaderStep PROVE FlowInv'
<1> DEFINE from == Len(got) + Len(leftover)
<1>1. UNCHANGED <<caller, timer, mu, callVars, bufVars, fin>>
  BY DEF ReaderStep
<1>2. /\ cipherWire \in Seq(Blocks) /\ Stands(got, 0) /\ Stands(leftover, Len(got))
      /\ from <= Len(written)
      /\ (reader # "error" => Reaches(cipherWire, from, Len(written),
                                      Len(payload) + Len(readBuf), fin = "open"))
  BY DEF FlowInv, Standing, BlocksOK, Chained
<1>3. Len(got) \in Nat /\ Len(leftover) \in Nat /\ Len(written) \in Nat /\ from \in Nat
  BY StreamFits DEF FlowInv
<1>4. CASE ReadSalt \/ ReadSize
  <2>1. /\ UNCHANGED <<leftover, got>> /\ reader # "error"
        /\ cipherWire' = IF cipherWire = <<>> THEN cipherWire ELSE Tail(cipherWire)
    BY <1>4 DEF ReadSalt, ReadSize
  <2>2. \/ reader' = "error"
        \/ cipherWire = <<>>
        \/ cipherWire # <<>> /\ Head(cipherWire)[1] # "payload"
    BY <1>4 DEF ReadSalt, ReadSize, Incoming, StreamEnded
  <2>3. cipherWire' \in Seq(Blocks)
    BY <1>2, <2>1, BlockTaken
  <2>4. ASSUME reader' # "error"
        PROVE  Reaches(cipherWire', from, Len(written), Len(payload) + Len(readBuf), fin = "open")
    <3>1. CASE cipherWire = <<>>
      BY <1>2, <2>1, <3>1
    <3>2. CASE cipherWire # <<>>
      <4>1. Load(Head(cipherWire)) = <<>>
        BY <2>2, <2>4, <3>2 DEF Load
      <4>2. Reaches(Tail(cipherWire), from + Len(<<>>), Len(written),
                    Len(payload) + Len(readBuf), fin = "open")
        BY <2>1, <3>2, <4>1, BlockTaken
      <4>3. from + Len(<<>>) = from
        BY <1>3
      <4> QED
        BY <2>1, <3>2, <4>2, <4>3
    <3> QED
      BY <3>1, <3>2
  <2> QED
    BY <1>1, <1>2, <2>1, <2>3, <2>4, ReaderOnly
<1>5. CASE ReleaseSlice
  <2>1. UNCHANGED <<cipherWire, leftover, got>> /\ reader # "error"
    BY <1>5 DEF ReleaseSlice
  <2> QED
    BY <1>1, <1>2, <2>1, ReaderOnly
<1>6. CASE ReadChunkPayload
  <2>1. /\ UNCHANGED got /\ reader = "payload" /\ leftover = <<>>
        /\ cipherWire' = IF cipherWire = <<>> THEN cipherWire ELSE Tail(cipherWire)
    BY <1>6 DEF ReadChunkPayload, Parity
  <2>2. cipherWire' \in Seq(Blocks)
    BY <1>2, <2>1, BlockTaken
  <2>3. CASE reader' = "error"
    <3>1. UNCHANGED leftover
      BY <1>6, <2>3 DEF ReadChunkPayload
    <3> QED
      BY <1>1, <1>2, <2>1, <2>2, <2>3, <3>1, ReaderOnly
  <2>4. CASE reader' # "error"
    <3>1. /\ cipherWire # <<>> /\ Head(cipherWire)[1] = "payload"
          /\ leftover' = Head(cipherWire)[3] /\ cipherWire' = Tail(cipherWire)
      BY <1>6, <2>1, <2>4 DEF ReadChunkPayload, Incoming
    <3>2. leftover' = Load(Head(cipherWire))
      BY <3>1 DEF Load
    <3>3. from = Len(got)
      BY <1>3, <2>1
    <3> HIDE DEF from
    <3>4. /\ Stands(leftover', from) /\ from + Len(leftover') <= Len(written)
          /\ Reaches(cipherWire', from + Len(leftover'), Len(written),
                     Len(payload) + Len(readBuf), fin = "open")
      BY <2>1, <3>1, <3>2, BlockTaken DEF from
    <3> QED
      BY <1>1, <1>2, <2>1, <2>2, <3>3, <3>4, ReaderOnly
  <2> QED
    BY <2>3, <2>4
<1>7. CASE CopyLeftover
  <2>1. PICK k \in 1 .. Len(leftover) :
          got' = got \o Take(leftover, k) /\ leftover' = Drop(leftover, k)
    BY <1>7 DEF CopyLeftover
  <2>2. UNCHANGED <<cipherWire, reader>>
    BY <1>7 DEF CopyLeftover
  <2>3. k \in 0 .. Len(leftover) /\ k \in Nat
    BY <1>3
  <2>4. /\ Stands(Take(leftover, k), Len(got)) /\ Len(Take(leftover, k)) = k
        /\ Stands(leftover', Len(got) + k) /\ Len(leftover') = Len(leftover) - k
    BY <1>2, <2>1, <2>3, StandsCut
  <2>5. 0 + Len(got) = Len(got)
    BY <1>3
  <2>6. Stands(got', 0) /\ Len(got') = Len(got) + k
    BY <1>2, <2>1, <2>4, <2>5, StandsJoin
  <2>7. Len(got') + Len(leftover') = from
    BY <1>3, <2>3, <2>4, <2>6
  <2> HIDE DEF from
  <2> QED
    BY <1>1, <1>2, <2>2, <2>4, <2>6, <2>7, ReaderOnly
<1> QED
  BY <1>4, <1>5, <1>6, <1>7 DEF ReaderStep

\* Nothing is under way at first.
LEMMA FlowInit == SSInit => FlowInv
<1> SUFFICES ASSUME SSInit PROVE FlowInv
  OBVIOUS
<1>1. /\ written = <<>> /\ source = <<>> /\ readBuf = <<>> /\ payload = <<>>
      /\ got = <<>> /\ leftover = <<>> /\ cipherWire = <<>> /\ sealed = <<>>
      /\ counter = 0 /\ caller = "dialing" /\ timer = "unset"
  BY DEF SSInit
<1>2. Len(<<>>) = 0 /\ 0 - 0 = 0 /\ 0 + 0 = 0 /\ 0 \in 0 .. 0 /\ 0 \in 0 .. Len(AllBytes)
  BY BytesType
<1>3. Standing
  BY <1>1, <1>2, StandsNothing DEF Standing
<1>4. BlocksOK /\ Places
  BY <1>1, EmptySeq DEF BlocksOK, Places
<1>5. Follows(<<>>, 0, 0, 0)
  BY <1>2, FollowsNone
<1>6. Chained
  BY <1>1, <1>2, <1>5 DEF Chained, Reaches
<1> QED
  BY <1>3, <1>4, <1>6 DEF FlowInv

\* Every step preserves it.
LEMMA FlowNextInv == WriterInv /\ Parity /\ FlowInv /\ [SSNext]_ssVars => FlowInv'
<1> SUFFICES ASSUME WriterInv, Parity, FlowInv, [SSNext]_ssVars PROVE FlowInv'
  OBVIOUS
<1>1. CASE UNCHANGED ssVars
  BY <1>1 DEF FlowInv, Standing, Places, BlocksOK, Chained, Chunk, ssVars, callVars, bufVars, readerVars
<1>2. CASE CallerStep
  BY <1>2, ReadBesideFlows, RelockFlows, SealFlows, SendStepFlows, ReadPayloadFlows DEF CallerStep
<1> QED
  BY <1>1, <1>2, DialFlows, TimerFlows, BeginFlows, CloseFlows, ReaderFlows DEF SSNext

\* Every step puts in more of the caller's bytes, hands out more of what was
\* put in, or does neither.
LEMMA StepIsThePipes ==
  ASSUME WriterInv, FlowInv, FlowInv', [SSNext]_ssVars
  PROVE  [Pipe!Put \/ Pipe!Get]_<<written, got>>
<1>1. /\ Stands(written, 0) /\ Stands(got, 0) /\ Stands(written', 0) /\ Stands(got', 0)
      /\ Stands(AllBytes, 0) /\ Len(written) \in Nat /\ Len(got) \in Nat
  BY StandsAll, StreamFits DEF FlowInv, Standing
<1>2. Len(written') <= Len(AllBytes) /\ Len(got') <= Len(written')
  <2>1. 0 + Len(written') <= Len(AllBytes) /\ Len(written') \in Nat
    BY <1>1 DEF Stands
  <2>2. Len(got') + Len(leftover') <= Len(written') /\ Len(got') \in Nat /\ Len(leftover') \in Nat
    BY DEF FlowInv, Standing, Stands
  <2> QED
    BY <2>1, <2>2
<1>3. ASSUME UNCHANGED got, Len(written) <= Len(written') PROVE Pipe!Put
  BY <1>1, <1>2, <1>3, StandsBegins DEF Pipe!Put
<1>4. ASSUME UNCHANGED written, Len(got) <= Len(got') PROVE Pipe!Get
  <2>1. Stands(got', 0) /\ Stands(written, 0) /\ Len(got') <= Len(written)
    BY <1>1, <1>2, <1>4
  <2> QED
    BY <1>1, <1>4, <2>1, StandsBegins DEF Pipe!Get
<1>5. CASE DialStream
  <2>1. Len(written) <= Len(written') /\ UNCHANGED got
    <3>1. written = <<>> /\ UNCHANGED got /\ written' = Address
      BY <1>5 DEF DialStream, FlowInv, Places, readerVars
    <3> QED
      BY <3>1, StandsAddress
  <2> QED
    BY <1>3, <2>1
<1>6. ASSUME NEW room \in Nat, NEW k \in 0 .. Len(Take(source, room)),
             source' = Drop(source, k), written' = written \o Take(source, k)
      PROVE  Len(written) <= Len(written')
  <2>1. Len(written') = Len(written) + k /\ k \in Nat
    BY <1>6, ReadTakes DEF FlowInv
  <2> QED
    BY <1>1, <2>1
<1>7. CASE ReadBesideFlush
  <2> DEFINE room == BufSize + Overhead - readAt
  <2>1. UNCHANGED got /\ room \in Nat
    BY <1>7, SizesAssumption DEF ReadBesideFlush, readerVars, WriterInv, Contents, Fits
  <2>2. PICK k \in 0 .. Len(Take(source, room)) :
          source' = Drop(source, k) /\ written' = written \o Take(source, k)
    BY <1>7 DEF ReadBesideFlush, ReadSource
  <2> HIDE DEF room
  <2> QED
    BY <1>3, <1>6, <2>1, <2>2
<1>8. CASE ReadPayload
  <2>1. PICK k \in 0 .. Len(Take(source, BufSize)) :
          source' = Drop(source, k) /\ written' = written \o Take(source, k)
    BY <1>8 DEF ReadPayload, ReadSource
  <2>2. UNCHANGED got /\ BufSize \in Nat
    BY <1>8, SizesAssumption DEF ReadPayload, readerVars
  <2> QED
    BY <1>3, <1>6, <2>1, <2>2
<1>9. CASE ReaderStep
  <2>1. UNCHANGED written
    BY <1>9 DEF ReaderStep, callVars
  <2>2. CASE CopyLeftover
    <3>1. PICK k \in 1 .. Len(leftover) : got' = got \o Take(leftover, k)
      BY <2>2 DEF CopyLeftover
    <3>2. k \in 0 .. Len(leftover) /\ k \in Nat
      BY StreamFits DEF FlowInv
    <3>3. Stands(Take(leftover, k), 0 + Len(got)) /\ Len(Take(leftover, k)) = k
      <4>1. 0 + Len(got) = Len(got)
        BY <1>1
      <4> QED
        BY <3>2, <4>1, StandsCut DEF FlowInv, Standing
    <3>4. Len(got') = Len(got) + k
      BY <1>1, <3>1, <3>3, StandsJoin
    <3>5. Len(got) <= Len(got')
      BY <1>1, <3>2, <3>4
    <3> QED
      BY <1>4, <2>1, <3>5
  <2>3. CASE ~CopyLeftover
    BY <1>9, <2>1, <2>3 DEF ReaderStep, ReadSalt, ReleaseSlice, ReadSize, ReadChunkPayload
  <2> QED
    BY <2>2, <2>3
<1>10. CASE TimerFires \/ TimerSends \/ BeginCopyFrom \/ CloseWrite
  BY <1>10 DEF TimerFires, TimerSends, BeginCopyFrom, CloseWrite, callVars, readerVars
<1>11. CASE Relock \/ SealQueued \/ SendQueued \/ SealPayload \/ SendPayload
  BY <1>11 DEF Relock, SealQueued, SendQueued, SealPayload, SendPayload, callVars, readerVars
<1>12. CASE UNCHANGED ssVars
  BY <1>12 DEF ssVars, callVars, readerVars
<1> QED
  BY <1>5, <1>7, <1>8, <1>9, <1>10, <1>11, <1>12 DEF SSNext, CallerStep

\* The connection implements the byte pipe: whatever the timer, the caller, the
\* breaks of the wire and the half-close do, and wherever the reads are cut, the
\* reader of the other end gets a prefix of what the caller handed in, in order.
THEOREM StreamIsAPipe == SSSpec => ImplementsPipe
<1>1. SSInit => Pipe!PipeInit
  BY DEF SSInit, Pipe!PipeInit
<1>2. WriterInv /\ FlowInv /\ FlowInv' /\ [SSNext]_ssVars => [Pipe!Put \/ Pipe!Get]_<<written, got>>
  BY StepIsThePipes
<1> QED
  BY <1>1, <1>2, SSInitInv, FlowInit, WriterNextInv, ReaderNextInv, FlowNextInv, PTL
     DEF SSSpec, ImplementsPipe, Pipe!PipeSpec
=============================================================================
