------------------------- MODULE ShadowsocksStream -------------------------
(* transport/shadowsocks: a connection to a proxy.  The dialer queues the   *)
(* target's address without sending it; it leaves with the caller's first   *)
(* data, or with the flush of a timer that runs beside the caller.  At the  *)
(* other end the Reader of the same package.                                *)
EXTENDS Integers, Sequences, SequencesExt

CONSTANTS Address, Data,    \* bytes of the target address, and of the caller
          BufSize,          \* payloadSizeMask
          Overhead          \* of the AEAD, per sealed block

ASSUME SizesAssumption == /\ BufSize \in Nat \ {0} /\ Overhead \in Nat \ {0}
                          /\ Len(Address) <= BufSize
                          /\ Address \in Seq(Range(Address))
                          /\ Data \in Seq(Range(Data))

VARIABLES caller, timer,    \* where the two threads are
          mu,               \* who holds Writer.mu
          needFlush,
          payload,          \* sw.buf's plaintext: sw.pending of its bytes
          readAt, readBuf,  \* region and content of the thread-safe read
          source,           \* what the caller's call has left to write
          srcEnd,           \* the read that was last of its source
          failed,           \* the call has met an error
          counter,          \* blocks sealed so far
          sealed,           \* the chunk a flush is writing
          written,          \* bytes of the stream handed to the writer
          cipherWire, fin,  \* blocks under way; "open", "closed" or "broken"
          reader, rcounter, slice, leftover, got   \* the Reader

callVars == <<readAt, readBuf, source, srcEnd, failed, written>>
bufVars == <<needFlush, payload, counter, sealed>>
readerVars == <<reader, rcounter, slice, leftover, got>>
ssVars == <<caller, timer, mu, callVars, bufVars, cipherWire, fin, readerVars>>

AllBytes == Address \o Data
Take(s, k) == SubSeq(s, 1, IF k < Len(s) THEN k ELSE Len(s))
Drop(s, k) == SubSeq(s, k + 1, Len(s))

SSInit ==
  /\ caller = "dialing" /\ timer = "unset" /\ mu = "free"
  /\ needFlush = FALSE /\ payload = <<>> /\ counter = 0 /\ sealed = <<>>
  /\ readAt = 0 /\ readBuf = <<>> /\ source = <<>> /\ srcEnd = FALSE
  /\ failed = FALSE /\ written = <<>>
  /\ cipherWire = <<>> /\ fin = "open"
  /\ reader = "salt" /\ rcounter = 0 /\ slice = FALSE
  /\ leftover = <<>> /\ got = <<>>

(* -------------------------------- flush --------------------------------- *)
\* flush, first half: the size and the payload are sealed in place, with the
\* salt before them in the first chunk.
Seal ==
  /\ sealed' = (IF counter = 0 THEN <<<<"salt">>>> ELSE <<>>)
                 \o <<<<"size", counter>>, <<"payload", counter + 1, payload>>>>
  /\ counter' = counter + 2

\* flush, second half: one write to the proxy, which sends the whole chunk,
\* or breaks the connection after some of it.
Send ==
  /\ \/ fin = "open" /\ cipherWire' = cipherWire \o sealed /\ UNCHANGED fin
     \/ /\ fin = "open" /\ fin' = "broken"
        /\ \E k \in 0 .. Len(sealed) - 1 : \E part \in {<<>>, <<<<"part">>>>} :
             cipherWire' = cipherWire \o Take(sealed, k) \o part
     \/ fin # "open" /\ UNCHANGED <<cipherWire, fin>>
  /\ sealed' = <<>> /\ payload' = <<>>

SendFailed == fin' # "open"

\* enqueue: as much as the buffer has room for.
Enqueued(data) == Take(data, BufSize - Len(payload))

\* LazyWrite of what the buffer has room for; more would be flushed in parts.
LazyWrite(data) == payload' = payload \o Enqueued(data) /\ needFlush' = TRUE

(* ------------------------------ dialer, timer --------------------------- *)
\* Fault: the address waits for the caller's data without a time limit.
DialStreamUntimed ==
  /\ caller = "dialing"
  /\ LazyWrite(Address) /\ written' = Address
  /\ caller' = "idle" /\ timer' = "done"
  /\ UNCHANGED <<mu, readAt, readBuf, source, srcEnd, failed, counter, sealed,
                 cipherWire, fin, readerVars>>

\* DialStream queues the address, which no buffer is too short for.
DialStream ==
  /\ caller = "dialing"
  /\ LazyWrite(Address) /\ written' = Address
  /\ caller' = "idle" /\ timer' = "set"
  /\ UNCHANGED <<mu, readAt, readBuf, source, srcEnd, failed, counter, sealed,
                 cipherWire, fin, readerVars>>

\* Fault: Flush goes by what is pending alone.
TimerFiresUnasked ==
  /\ timer = "set" /\ mu = "free"
  /\ IF payload # <<>>
     THEN timer' = "sealed" /\ mu' = "timer" /\ Seal
     ELSE timer' = "done" /\ UNCHANGED <<mu, counter, sealed>>
  /\ UNCHANGED <<caller, callVars, needFlush, payload, cipherWire, fin, readerVars>>

\* ClientDataWait is over: Flush takes the lock, and leaves it if there is
\* nothing left to it.
TimerFires ==
  /\ timer = "set" /\ mu = "free"
  /\ IF needFlush /\ payload # <<>>
     THEN timer' = "sealed" /\ mu' = "timer" /\ Seal
     ELSE timer' = "done" /\ UNCHANGED <<mu, counter, sealed>>
  /\ UNCHANGED <<caller, callVars, needFlush, payload, cipherWire, fin, readerVars>>

TimerSends ==
  /\ timer = "sealed" /\ Send
  /\ timer' = "done" /\ mu' = "free"
  /\ UNCHANGED <<caller, callVars, needFlush, counter, readerVars>>

(* ------------------------------- ReadFrom ------------------------------- *)
\* Write or ReadFrom begins: with a flush still allowed it reads once beside
\* the flush thread, into the part of the buffer that thread leaves alone.
BeginCopyFrom ==
  /\ caller = "idle" /\ mu = "free"
  /\ \E k \in 0 .. Len(Data) - (Len(written) - Len(Address)) :
       source' = SubSeq(AllBytes, Len(written) + 1, Len(written) + k)
  /\ srcEnd' = FALSE /\ failed' = FALSE
  /\ IF needFlush THEN caller' = "reading" /\ readAt' = Len(payload) + Overhead
                  ELSE caller' = "loop" /\ UNCHANGED readAt
  /\ UNCHANGED <<timer, mu, readBuf, written, bufVars, cipherWire, fin, readerVars>>

\* r.Read into a buffer of room bytes; the source's end comes with its last
\* bytes or by an empty read of its own.
ReadSource(room, into(_)) ==
  \E k \in 0 .. Len(Take(source, room)) :
    /\ into(Take(source, k))
    /\ source' = Drop(source, k) /\ written' = written \o Take(source, k)
    /\ srcEnd' \in BOOLEAN
    /\ (srcEnd' => source' = <<>>) /\ (k = 0 => srcEnd')

\* The read of the special case, outside the lock.
ReadBesideFlush ==
  /\ caller = "reading"
  /\ ReadSource(BufSize + Overhead - readAt, LAMBDA data : readBuf' = data)
  /\ caller' = "relock"
  /\ UNCHANGED <<timer, mu, readAt, failed, bufVars, cipherWire, fin, readerVars>>

\* Fault: what was read replaces what the timer has not sent yet.
RelockOver ==
  /\ caller = "relock" /\ mu = "free"
  /\ mu' = "caller" /\ caller' = "queued"
  /\ payload' = readBuf /\ readBuf' = <<>>
  /\ UNCHANGED <<timer, readAt, source, srcEnd, failed, written, needFlush,
                 counter, sealed, cipherWire, fin, readerVars>>

\* The lock again: what was read is queued behind what the timer left.
Relock ==
  /\ caller = "relock" /\ mu = "free"
  /\ mu' = "caller" /\ caller' = "queued"
  /\ payload' = payload \o Enqueued(readBuf) /\ readBuf' = <<>>
  /\ UNCHANGED <<timer, readAt, source, srcEnd, failed, written, needFlush,
                 counter, sealed, cipherWire, fin, readerVars>>

SealQueued ==
  /\ caller = "queued" /\ caller' = "sealed"
  /\ IF payload = <<>> THEN UNCHANGED <<counter, sealed>> ELSE Seal
  /\ UNCHANGED <<timer, mu, callVars, needFlush, payload, cipherWire, fin, readerVars>>

\* The rest of the call, once a chunk is out: on to the next read, or back.
AfterChunk == IF failed' \/ srcEnd THEN "idle" ELSE "loop"

SendQueued ==
  /\ caller = "sealed"
  /\ IF sealed = <<>> THEN UNCHANGED <<cipherWire, fin, sealed, payload, failed>>
                      ELSE Send /\ failed' = SendFailed
  /\ needFlush' = FALSE /\ mu' = "free"
  /\ caller' = AfterChunk
  /\ UNCHANGED <<timer, readAt, readBuf, source, srcEnd, written, counter,
                 readerVars>>

\* The main loop, without the lock: read into the whole buffer, flush.
ReadPayload ==
  /\ caller = "loop"
  /\ ReadSource(BufSize, LAMBDA data : payload' = data)
  /\ caller' = IF payload' # <<>> THEN "read" ELSE "idle"
  /\ UNCHANGED <<timer, mu, readAt, readBuf, failed, needFlush, counter, sealed,
                 cipherWire, fin, readerVars>>

SealPayload ==
  /\ caller = "read" /\ Seal /\ caller' = "sending"
  /\ UNCHANGED <<timer, mu, callVars, needFlush, payload, cipherWire, fin, readerVars>>

SendPayload ==
  /\ caller = "sending" /\ Send /\ failed' = SendFailed
  /\ caller' = AfterChunk
  /\ UNCHANGED <<timer, mu, readAt, readBuf, source, srcEnd, written, needFlush,
                 counter, readerVars>>

\* The wrapped connection's CloseWrite goes straight to the proxy connection.
CloseWrite ==
  /\ caller = "idle" /\ fin = "open"
  /\ fin' = "closed"
  /\ UNCHANGED <<caller, timer, mu, callVars, bufVars, cipherWire, readerVars>>

(* -------------------------------- Reader -------------------------------- *)
\* io.ReadFull of the next block: it came whole, or the stream ended.
Incoming(block) == cipherWire # <<>> /\ Head(cipherWire)[1] = block
StreamEnded == cipherWire = <<>> /\ fin # "open"
CutOff == Incoming("part")

\* init reads the salt.
ReadSalt ==
  /\ reader = "salt"
  /\ \/ Incoming("salt") /\ reader' = "chunk"
     \/ StreamEnded /\ reader' = "eof"
     \/ CutOff /\ reader' = "error"
  /\ cipherWire' = IF cipherWire = <<>> THEN cipherWire ELSE Tail(cipherWire)
  /\ UNCHANGED <<rcounter, slice, leftover, got>>

\* readMessage: a block sealed with another counter does not open.
Opens(block) == Head(cipherWire)[2] = rcounter

\* Fault: a chunk handed out keeps its slice.
ReleaseSliceNever ==
  /\ reader = "chunk" /\ leftover = <<>> /\ reader' = "size"
  /\ UNCHANGED <<slice, cipherWire, rcounter, leftover, got>>

\* ReadChunk begins, once the last chunk is handed out: that chunk's slice
\* goes back to the pool.
ReleaseSlice ==
  /\ reader = "chunk" /\ leftover = <<>>
  /\ slice' = FALSE /\ reader' = "size"
  /\ UNCHANGED <<cipherWire, rcounter, leftover, got>>

\* The size block, after which a slice is acquired for the payload.
ReadSize ==
  /\ reader = "size"
  /\ \/ /\ Incoming("size") /\ Opens("size")
        /\ reader' = "payload" /\ slice' = TRUE
     \/ /\ StreamEnded /\ reader' = "eof" /\ UNCHANGED slice
     \/ /\ CutOff \/ (Incoming("size") /\ ~Opens("size"))
        /\ reader' = "error" /\ UNCHANGED slice
  /\ rcounter' = IF Incoming("size") THEN rcounter + 1 ELSE rcounter
  /\ cipherWire' = IF cipherWire = <<>> THEN cipherWire ELSE Tail(cipherWire)
  /\ UNCHANGED <<leftover, got>>

\* The payload block; an end of the stream is unexpected here.
ReadChunkPayload ==
  /\ reader = "payload"
  /\ \/ /\ Incoming("payload") /\ Opens("payload")
        /\ leftover' = Head(cipherWire)[3] /\ reader' = "chunk"
        /\ UNCHANGED slice
     \/ /\ \/ StreamEnded \/ CutOff
           \/ Incoming("payload") /\ ~Opens("payload")
        /\ reader' = "error" /\ slice' = FALSE /\ UNCHANGED leftover
  /\ rcounter' = IF Incoming("payload") THEN rcounter + 1 ELSE rcounter
  /\ cipherWire' = IF cipherWire = <<>> THEN cipherWire ELSE Tail(cipherWire)
  /\ UNCHANGED got

\* Read copies some of the chunk; WriteTo all of it.
CopyLeftover ==
  /\ leftover # <<>>
  /\ \E k \in 1 .. Len(leftover) :
       /\ got' = got \o Take(leftover, k) /\ leftover' = Drop(leftover, k)
  /\ UNCHANGED <<cipherWire, reader, rcounter, slice>>

ReaderStep == /\ ReadSalt \/ ReleaseSlice \/ ReadSize \/ ReadChunkPayload \/ CopyLeftover
              /\ UNCHANGED <<caller, timer, mu, callVars, bufVars, fin>>

(* ------------------------------- behaviour ------------------------------ *)
CallerStep == ReadBesideFlush \/ Relock \/ SealQueued \/ SendQueued
                \/ ReadPayload \/ SealPayload \/ SendPayload

SSNext == DialStream \/ TimerFires \/ TimerSends \/ BeginCopyFrom
            \/ CallerStep \/ CloseWrite \/ ReaderStep

SSSpec == SSInit /\ [][SSNext]_ssVars

\* Threads and timers run, and a read returns if its source has something to
\* give; nobody makes the caller write, end its source or close.
SSFairness == /\ WF_ssVars(DialStream) /\ SF_ssVars(TimerFires \/ TimerSends)
              /\ SF_ssVars(CallerStep /\ (source = <<>> => caller \notin
                                                    {"reading", "loop"}))
              /\ WF_ssVars(ReaderStep)

SSFairSpec == SSSpec /\ SSFairness

(* ------------------------------ properties ------------------------------ *)
\* The buffer is one thread's at a time: while the caller reads and seals in
\* the main loop, which takes no lock, no flush of the timer is under way and
\* none can begin; and what the caller reads beside a flush lies behind the
\* bytes and the tag that flush is sealing, and finds room behind them later:
\* enqueue's count, which ReadFrom does not look at, is the whole of it.
BufferAlone ==
  /\ caller \in {"loop", "read", "sending"} => timer # "sealed" /\ ~needFlush
  /\ caller = "reading" => readAt >= Len(payload) + Overhead
  /\ caller \in {"queued", "sealed"} => timer # "sealed" /\ mu = "caller"
  /\ caller = "relock" => Enqueued(readBuf) = readBuf

\* The Reader says "end of stream" only at the end of a chunk, with all of it
\* handed out, and a cut inside a chunk is an error; before a slice of the
\* pool is acquired, and once the stream has ended, none is held (a second
\* Acquire panics, slicepool.go:75).
CleanEnd ==
  /\ reader = "eof" => rcounter % 2 = 0 /\ leftover = <<>> /\ cipherWire = <<>>
  /\ reader \in {"size", "eof", "error"} => ~slice

\* The stream is a byte pipe from the caller to the reader of the other end.
Pipe == INSTANCE BytePipe WITH Source <- AllBytes, put <- written, got <- got
ImplementsPipe == Pipe!PipeSpec

\* "If no client payload is received by this time, we connect without it"
\* (stream_dialer.go:60): the address arrives although nobody writes, and so
\* does every byte written, unless the connection breaks or is half-closed.
EverythingArrives ==
  \A k \in 1 .. Len(AllBytes) :
    Len(written) >= k ~> (Len(got) >= k \/ fin # "open")
=============================================================================
