--------------------------- MODULE WebsocketConn ---------------------------
(* gorillaConn: a StreamConn over websocket.Conn, dialed by an endpoint or  *)
(* made of an HTTP request that asks for it.  Read and Write have a         *)
(* lock each; CloseRead, CloseWrite and the close handler write the errors  *)
(* that Read and Write look at without either lock.                         *)
EXTENDS Naturals

CONSTANTS MaxMessages   \* bound: messages of each side
ASSUME WebsocketAssumption == MaxMessages \in Nat

VARIABLES wsConn,        \* "none", "open", "failed" or "closed"
          incoming,      \* messages that the peer has sent
          peer,          \* "open", "closed" after its close frame, "gone" without
          wsError,       \* the error every later read of websocket.Conn has
          expired,       \* "no", "due" in CloseRead, "yes" with the deadline moved
          readErr,       \* what Read returns from now on
          pendingReader, \* "none", "data", or "end": its message is all read
          reading,       \* where the Read that holds readMu is: "idle", in a
                         \* "pending" reader, in NextReader ("next"), or in the
                         \* "first" read of the message it returned
          lastRead,      \* what the last Read returned
          sawEnd,        \* whether a Read ever returned readErr or wsError
          closeSent,     \* whether the close frame is on its way
          writeErr, lastWrite, written

websocketVars == <<wsConn, incoming, peer, wsError, expired, readErr, pendingReader, reading,
                   lastRead, sawEnd, closeSent, writeErr, lastWrite, written>>
writeVars == <<wsConn, closeSent, writeErr, lastWrite, written>>
readVars == <<incoming, peer, wsError, pendingReader, reading, lastRead, sawEnd>>

WebsocketInit ==
  /\ wsConn = "none" /\ incoming = 0 /\ peer = "open" /\ wsError = "none" /\ expired = "no"
  /\ readErr = "none" /\ pendingReader = "none" /\ reading = "idle"
  /\ lastRead = "none" /\ sawEnd = FALSE
  /\ closeSent = FALSE /\ writeErr = "none" /\ lastWrite = "none" /\ written = 0

(* ------------------------------- the connection -------------------------- *)
NewGorillaConn ==
  /\ wsConn = "none" /\ wsConn' \in {"open", "failed"}
  /\ UNCHANGED <<readVars, expired, readErr, closeSent, writeErr, lastWrite, written>>

\* The endpoint dials and shakes hands; a failure leaves no connection.
NewEndpoint == NewGorillaConn
Upgrade == NewGorillaConn

Held == wsConn \in {"open", "closed"}

\* Close, once its CloseRead and its CloseWrite have returned.
CloseConn ==
  /\ wsConn = "open" /\ readErr # "none" /\ expired = "yes" /\ writeErr # "none"
  /\ wsConn' = "closed"
  /\ UNCHANGED <<readVars, expired, readErr, closeSent, writeErr, lastWrite, written>>

(* -------------------------------- reading -------------------------------- *)
Unread == UNCHANGED <<incoming, wsError, expired, readErr, pendingReader>>

\* The Read under way returns.
ReadReturns(result, end) ==
  /\ reading' = "idle" /\ lastRead' = result /\ sawEnd' = (sawEnd \/ end)
  /\ UNCHANGED <<peer, writeVars>>

PeerSends ==
  /\ wsConn = "open" /\ peer = "open" /\ incoming < MaxMessages /\ incoming' = incoming + 1
  /\ UNCHANGED <<peer, wsError, expired, readErr, pendingReader, reading, lastRead,
                 sawEnd, writeVars>>
PeerCloses ==
  /\ wsConn = "open" /\ peer = "open" /\ peer' \in {"closed", "gone"}
  /\ UNCHANGED <<incoming, wsError, expired, readErr, pendingReader, reading, lastRead,
                 sawEnd, writeVars>>

\* Read, as far as the check of readErr and of a reader left by another Read.
Read ==
  /\ Held /\ reading = "idle"
  /\ IF readErr # "none" THEN ReadReturns(readErr, TRUE) /\ Unread
     ELSE /\ reading' = IF pendingReader = "none" THEN "next" ELSE "pending"
          /\ UNCHANGED <<peer, lastRead, sawEnd, writeVars>> /\ Unread

\* What websocket.Conn answers when nothing more can be read: an error that
\* stays, and after a close frame the EOF that the close handler stores over
\* whatever CloseRead has stored.
ConnFails ==
  \/ wsError # "none" /\ UNCHANGED <<wsError, readErr>>
  \/ wsError = "none" /\ expired = "yes" /\ wsError' = "timeout" /\ UNCHANGED readErr
  \/ wsError = "none" /\ wsConn = "closed" /\ wsError' = "ErrClosed" /\ UNCHANGED readErr
  \/ wsError = "none" /\ incoming = 0 /\ peer = "gone"
     /\ wsError' = "ErrClosed" /\ UNCHANGED readErr
  \/ wsError = "none" /\ incoming = 0 /\ peer = "closed"
     /\ wsError' = "EOF" /\ readErr' = "EOF"

ErrorOf == IF readErr' # "none" THEN readErr' ELSE wsError'

\* More of a message comes, if the peer sends it; the Read that looks at
\* readErr afterwards returns both.
MessageBytes ==
  /\ reading \in {"pending", "first"} /\ wsError = "none"
  /\ pendingReader = "data" /\ pendingReader' \in {"data", "end"}
  /\ ReadReturns("data", reading = "pending" /\ readErr # "none")
  /\ UNCHANGED <<incoming, wsError, expired, readErr>>

\* The reader has io.EOF: a pending message is done with, one that is empty
\* hands its io.EOF to the caller.
MessageEnds ==
  /\ pendingReader = "end"
  /\ \/ reading = "first" /\ ReadReturns("EOF", FALSE) /\ Unread
     \/ reading = "pending" /\ readErr # "none" /\ ReadReturns(readErr, TRUE) /\ Unread
     \/ /\ reading = "pending" /\ readErr = "none"
        /\ pendingReader' = "none" /\ reading' = "next"
        /\ UNCHANGED <<incoming, peer, wsError, expired, readErr, lastRead, sawEnd, writeVars>>

\* The rest of the message does not come; its reader is kept.
MessageFails ==
  /\ reading \in {"pending", "first"} /\ pendingReader = "data" /\ ConnFails
  /\ ReadReturns(IF reading = "pending" THEN ErrorOf ELSE wsError', TRUE)
  /\ UNCHANGED <<incoming, expired, pendingReader>>

\* NextReader has a message, which may be empty or not binary.
NextReaderMessage ==
  /\ reading = "next" /\ wsError = "none" /\ incoming > 0
  /\ incoming' = incoming - 1
  /\ \/ /\ readErr = "none" /\ pendingReader' \in {"data", "end"} /\ reading' = "first"
        /\ UNCHANGED <<peer, lastRead, sawEnd, writeVars>>
     \/ readErr = "none" /\ ReadReturns("notBinary", FALSE) /\ UNCHANGED pendingReader
     \/ readErr # "none" /\ ReadReturns(readErr, TRUE) /\ UNCHANGED pendingReader
  /\ UNCHANGED <<wsError, expired, readErr>>

NextReaderFails ==
  /\ reading = "next" /\ ConnFails /\ ReadReturns(ErrorOf, TRUE)
  /\ UNCHANGED <<incoming, expired, pendingReader>>

\* A deadline that the caller has set passes.
SetReadDeadline ==
  /\ Held /\ expired = "no" /\ expired' = "yes"
  /\ UNCHANGED <<readErr, readVars, writeVars>>

CloseRead ==
  /\ Held /\ readErr' = "ErrClosed" /\ expired' = IF expired = "yes" THEN "yes" ELSE "due"
  /\ UNCHANGED <<readVars, writeVars>>

\* Fault: CloseRead leaves the read deadline alone.
ExpireNothing ==
  /\ expired = "due" /\ expired' = "no"
  /\ UNCHANGED <<readErr, readVars, writeVars>>

ExpireDeadline ==
  /\ expired = "due" /\ expired' = "yes"
  /\ UNCHANGED <<readErr, readVars, writeVars>>

(* -------------------------------- writing -------------------------------- *)
\* Write: websocket.Conn sends nothing after its close frame.
Write ==
  /\ Held /\ written < MaxMessages
  /\ \/ ~closeSent /\ lastWrite' = "sent" /\ written' = written + 1
     \/ /\ closeSent /\ UNCHANGED written
        /\ lastWrite' = IF writeErr # "none" THEN writeErr ELSE "ErrCloseSent"
  /\ UNCHANGED <<wsConn, readVars, expired, readErr, closeSent, writeErr>>

\* CloseWrite: the close frame first, then the error that Write will return.
SendCloseFrame ==
  /\ Held /\ ~closeSent /\ closeSent' = TRUE
  /\ UNCHANGED <<wsConn, readVars, expired, readErr, writeErr, lastWrite, written>>
SetWriteErr ==
  /\ closeSent /\ writeErr = "none" /\ writeErr' = "ErrClosed"
  /\ UNCHANGED <<wsConn, readVars, expired, readErr, closeSent, lastWrite, written>>

WebsocketNext ==
  \/ NewEndpoint \/ Upgrade \/ CloseConn
  \/ PeerSends \/ PeerCloses \/ Read \/ MessageBytes \/ MessageEnds \/ MessageFails
  \/ NextReaderMessage \/ NextReaderFails \/ SetReadDeadline
  \/ CloseRead \/ ExpireDeadline \/ Write \/ SendCloseFrame \/ SetWriteErr

\* A Read that can go on does; nothing makes the peer send the rest of a
\* message.
WebsocketFairness ==
  /\ WF_websocketVars(MessageEnds \/ MessageFails \/ NextReaderMessage \/ NextReaderFails)
  /\ WF_websocketVars(ExpireDeadline)

WebsocketSpec == WebsocketInit /\ [][WebsocketNext]_websocketVars
WebsocketFairSpec == WebsocketSpec /\ WebsocketFairness

(* ------------------------------- properties ------------------------------ *)
\* Types of the connection's state.
WebsocketTypeOK ==
  /\ wsConn \in {"none", "open", "failed", "closed"}
  /\ incoming \in 0 .. MaxMessages /\ written \in 0 .. MaxMessages
  /\ peer \in {"open", "closed", "gone"} /\ expired \in {"no", "due", "yes"} /\ sawEnd \in BOOLEAN
  /\ wsError \in {"none", "timeout", "EOF", "ErrClosed"}
  /\ readErr \in {"none", "EOF", "ErrClosed"}
  /\ pendingReader \in {"none", "data", "end"} /\ reading \in {"idle", "pending", "next", "first"}
  /\ closeSent \in BOOLEAN /\ writeErr \in {"none", "ErrClosed"}

\* An error of the connection is final: after a Read that returned what
\* CloseRead, the close handler or websocket.Conn has stored no Read returns
\* data, in whatever state it left the pending message; and CloseRead wakes the
\* Read that waits for the peer, in the middle of a message too.  The io.EOF of
\* an empty message is no such error: Reads after it return data.
ReadEnds ==
  /\ [][reading # "idle" /\ reading' = "idle" /\ sawEnd => lastRead' # "data"]_websocketVars
  /\ (reading # "idle" /\ readErr # "none") ~> reading = "idle"
=============================================================================
