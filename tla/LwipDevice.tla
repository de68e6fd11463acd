----------------------------- MODULE LwipDevice ----------------------------
(* The IP device of network/lwip2transport: packets that lwIP sends out are *)
(* lent to the goroutine in Read or WriteTo over two unbuffered channels,   *)
(* rdBuf for the packet and rdN for the answer, and done ends every wait;   *)
(* and the relay of one TCP connection of the device.                       *)
EXTENDS Naturals

CONSTANTS Outputs,     \* goroutines that may be in lwIP's output function
          InWrite,     \* one of them: the output called from within Write
          MaxOutputs   \* bound: packets that lwIP sends
ASSUME DeviceAssumption == InWrite \in Outputs /\ MaxOutputs \in Nat

Sides == {"left", "right"}
Other(d) == IF d = "left" THEN "right" ELSE "left"

VARIABLES done,        \* whether the done channel is closed
          closing,     \* Close has found it open
          out,         \* where each output call is
          outputs,     \* packets offered so far
          rd,          \* where the goroutine that reads the device is
          lent,        \* whose packet it holds, one at most
          source,      \* relay: what reading from each connection gives
          copy,        \* relay: the copy from each connection to the other
          writeShut, readShut, \* relay: half-closed ends of each connection
          relay        \* whether relay() runs or has returned

rendezvousVars == <<out, outputs, rd, lent>>
relayVars == <<source, copy, writeShut, readShut, relay>>
deviceVars == <<done, closing, rendezvousVars, relayVars>>

DeviceInit ==
  /\ done = FALSE /\ closing = FALSE
  /\ out = [o \in Outputs |-> "idle"] /\ outputs = 0
  /\ rd = "idle" /\ lent = {}
  /\ source = [d \in Sides |-> "data"] /\ copy = [d \in Sides |-> "copying"]
  /\ writeShut = {} /\ readShut = {} /\ relay = "running"

(* ------------------------- forwardOutgoingIPPacket ----------------------- *)
Outgoes(o, from, to) == out[o] \in from /\ out' = [out EXCEPT ![o] = to]

\* lwIP has a packet for the application. From within Write only if Write
\* found the device open.
ForwardOutgoingIPPacket(o) ==
  /\ outputs < MaxOutputs /\ (o = InWrite => ~done)
  /\ Outgoes(o, {"idle", "sent", "failed"}, "offering")
  /\ outputs' = outputs + 1
  /\ UNCHANGED <<done, closing, rd, lent, relayVars>>

ForwardSeesDone(o) ==
  /\ done /\ Outgoes(o, {"offering", "waiting"}, "failed")
  /\ UNCHANGED <<done, closing, outputs, rd, lent, relayVars>>

(* ----------------------------- Read, WriteTo ----------------------------- *)
CallRead ==
  /\ rd = "idle" /\ rd' \in {"reading", "writingTo"}
  /\ UNCHANGED <<done, closing, out, outputs, lent, relayVars>>

\* Fault: WriteTo answers before it has written the packet.
TakePacketAnswered(o) ==
  /\ rd \in {"reading", "writingTo"} /\ Outgoes(o, {"offering"}, "sent")
  /\ rd' = IF rd = "reading" THEN "copied" ELSE "sinking"
  /\ lent' = {o}
  /\ UNCHANGED <<done, closing, outputs, relayVars>>

\* A rendezvous on rdBuf; Read copies the packet at once.
TakePacket(o) ==
  /\ rd \in {"reading", "writingTo"} /\ Outgoes(o, {"offering"}, "waiting")
  /\ rd' = IF rd = "reading" THEN "copied" ELSE "sinking"
  /\ lent' = {o}
  /\ UNCHANGED <<done, closing, outputs, relayVars>>

\* WriteTo's writer takes the packet or fails.
SinkReturns ==
  /\ rd = "sinking" /\ rd' \in {"sunk", "sinkFailed"}
  /\ UNCHANGED <<done, closing, out, outputs, lent, relayVars>>

\* The rendezvous on rdN.  Read has no other way out of it; WriteTo has done.
AnswerPacket(o) ==
  /\ rd \in {"copied", "sunk", "sinkFailed"} /\ Outgoes(o, {"waiting"}, "sent")
  /\ rd' = IF rd = "sunk" THEN "writingTo" ELSE "idle"
  /\ lent' = {}
  /\ UNCHANGED <<done, closing, outputs, relayVars>>

ReadSeesDone ==
  /\ done /\ rd \in {"reading", "writingTo", "sunk", "sinkFailed"}
  /\ rd' = "idle" /\ lent' = {}
  /\ UNCHANGED <<done, closing, out, outputs, relayVars>>

(* --------------------------------- Close --------------------------------- *)
CloseChecks ==
  /\ ~done /\ ~closing /\ closing' = TRUE
  /\ UNCHANGED <<done, rendezvousVars, relayVars>>

CloseDone ==
  /\ closing /\ ~done /\ done' = TRUE
  /\ UNCHANGED <<closing, rendezvousVars, relayVars>>

(* ------------------- tcp.go: relay of one TCP connection ----------------- *)
\* What the peer of a connection does: it ends its stream, or the connection
\* breaks.
SourceEnds(d) ==
  /\ source[d] = "data" /\ \E e \in {"eof", "error"} : source' = [source EXCEPT ![d] = e]
  /\ UNCHANGED <<done, closing, rendezvousVars, copy, writeShut, readShut, relay>>

\* Fault: the copy closes both ways of both connections.
CopyOneWayClosesAll(d) ==
  /\ copy[d] = "copying"
  /\ \/ source[d] # "data" \/ source[Other(d)] = "error"
     \/ d \in readShut \/ Other(d) \in writeShut
  /\ copy' = [copy EXCEPT ![d] = "done"]
  /\ writeShut' = Sides /\ readShut' = Sides
  /\ UNCHANGED <<done, closing, rendezvousVars, source, relay>>

\* io.Copy from d ends, at the end of d or because the other takes no more;
\* then the other learns of the end and d's read side is released.
CopyOneWay(d) ==
  /\ copy[d] = "copying"
  /\ \/ source[d] # "data" \/ source[Other(d)] = "error"
     \/ d \in readShut \/ Other(d) \in writeShut
  /\ copy' = [copy EXCEPT ![d] = "done"]
  /\ writeShut' = writeShut \cup {Other(d)}
  /\ readShut' = readShut \cup {d}
  /\ UNCHANGED <<done, closing, rendezvousVars, source, relay>>

RelayReturns ==
  /\ relay = "running" /\ \A d \in Sides : copy[d] = "done"
  /\ relay' = "returned"
  /\ UNCHANGED <<done, closing, rendezvousVars, source, copy, writeShut, readShut>>

(* ------------------------------- behaviour ------------------------------- *)
OutputStep(o) == \/ ForwardOutgoingIPPacket(o) \/ ForwardSeesDone(o)
                 \/ TakePacket(o) \/ AnswerPacket(o)
RelayStep == \/ RelayReturns
             \/ \E d \in Sides : SourceEnds(d) \/ CopyOneWay(d)

DeviceNext ==
  \/ \E o \in Outputs : OutputStep(o)
  \/ CallRead \/ SinkReturns \/ ReadSeesDone
  \/ CloseChecks \/ CloseDone \/ RelayStep

\* Waits end when they can, and WriteTo's writer returns.
DeviceFairness ==
  /\ WF_deviceVars(SinkReturns) /\ WF_deviceVars(ReadSeesDone)
  /\ WF_deviceVars(CloseDone) /\ WF_deviceVars(RelayReturns)
  /\ \A o \in Outputs :
       WF_deviceVars(ForwardSeesDone(o)) /\ WF_deviceVars(AnswerPacket(o))
  /\ \A d \in Sides : WF_deviceVars(CopyOneWay(d))

DeviceSpec == DeviceInit /\ [][DeviceNext]_deviceVars
DeviceFairSpec == DeviceSpec /\ DeviceFairness

(* ------------------------------- properties ------------------------------ *)
\* Types of the device's and of the relay's state.
DeviceTypeOK ==
  /\ done \in BOOLEAN /\ closing \in BOOLEAN
  /\ out \in [Outputs -> {"idle", "offering", "waiting", "sent", "failed"}]
  /\ outputs \in 0 .. MaxOutputs
  /\ rd \in {"idle", "reading", "writingTo", "copied", "sinking", "sunk", "sinkFailed"}
  /\ lent \subseteq Outputs
  /\ source \in [Sides -> {"data", "eof", "error"}]
  /\ copy \in [Sides -> {"copying", "done"}]
  /\ writeShut \subseteq Sides /\ readShut \subseteq Sides
  /\ relay \in {"running", "returned"}

\* The packet that WriteTo's writer still reads belongs to an output call that
\* has not returned, so lwIP does not reuse its buffer, and each call is
\* answered for its own packet: until Close, which sends calls back while the
\* writer may be at work.
PacketLent ==
  done \/ /\ rd = "sinking" => \A o \in lent : out[o] = "waiting"
          /\ \A o \in Outputs : out[o] = "waiting" => lent = {o}

\* The copy from d ends only with the stream of d, or when a connection breaks.
CopyEndsWithStream ==
  \A d \in Sides : copy[d] = "copying" /\ copy'[d] = "done" =>
    source[d] # "data" \/ source[Other(d)] = "error"

\* Close lets every blocked output call, and the goroutine in WriteTo, go.  A
\* relay whose two streams have ended returns, each side told of the end; and
\* a peer that has ended its own stream still gets what the other sends.
DeviceEnds ==
  /\ done ~> /\ \A o \in Outputs : out[o] \notin {"offering", "waiting"}
             /\ rd \notin {"writingTo", "sinking", "sunk", "sinkFailed"}
  /\ (\A d \in Sides : source[d] # "data")
       ~> (relay = "returned" /\ writeShut = Sides)
  /\ [][CopyEndsWithStream]_deviceVars

\* The comment of Read and of IPDevice.Close: a closed device ends the
\* goroutine that is in Read.
CloseEndsRead == done ~> rd \notin {"reading", "copied"}
=============================================================================
