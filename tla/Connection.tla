----------------------------- MODULE Connection -----------------------------
(***************************************************************************)
(* One TCP connection (src/src/connection.cpp): the reads of the network   *)
(* thread, the writes both threads queue, the two timers and close.  Each  *)
(* method holds connectionLock from its first line to its last, so that it *)
(* is one step; the operations it starts on the socket and the timers end  *)
(* in later steps.  The socket and the timers are Boost.Asio's: closing    *)
(* the socket makes the operations in progress end with an error, and      *)
(* cancelling a timer that has expired does not take its handler back.     *)
(***************************************************************************)
EXTENDS Naturals, Sequences, SequencesExt

CONSTANTS
    Message,        (* what the server sends, each message once            *)
    ServerFirst,    (* the port's only service sends first (the game port) *)
    PeerMayStall    (* the peer may stop reading without disconnecting     *)

ASSUME ConnectionAssumption == ServerFirst \in BOOLEAN /\ PeerMayStall \in BOOLEAN

VARIABLES
    state,        (* "new", "open", or "gone" once the object is destroyed  *)
    closed,       (* Connection::closed                                     *)
    socketOpen,
    protocol,     (* the protocol is set                                    *)
    receivedFirst,
    readOp,       (* the async_read in progress: "none", "header", "body"   *)
    writeOp,      (* an async_write is in progress                          *)
    readArmed, writeArmed,  (* the timers                                   *)
    timeouts,     (* handlers of expired timers that have not run yet       *)
    messageQueue,
    given,     (* the messages send has queued, in order                 *)
    written,      (* those the peer has received                            *)
    releases,     (* Protocol::release tasks queued                         *)
    peer          (* "reading", "stalled", "silent" or "reset"              *)

connVars == <<state, closed, socketOpen, protocol, receivedFirst, readOp, writeOp,
              readArmed, writeArmed, timeouts, messageQueue, given, written,
              releases, peer>>

ConnectionTypeOK ==
    /\ state \in {"new", "open", "gone"}
    /\ {closed, socketOpen, protocol, receivedFirst, writeOp, readArmed, writeArmed}
         \subseteq BOOLEAN
    /\ readOp \in {"none", "header", "body"}
    /\ timeouts \in 0 .. 2
    /\ messageQueue \in Seq(Message)
    /\ given \in Seq(Message)
    /\ written \in Seq(Message)
    /\ releases \in 0 .. 1
    /\ peer \in {"reading", "stalled", "silent", "reset"}

ConnectionInit ==
    /\ state = "new"
    /\ closed = FALSE
    /\ socketOpen = TRUE
    /\ protocol = FALSE
    /\ receivedFirst = FALSE
    /\ readOp = "none"
    /\ writeOp = FALSE
    /\ readArmed = FALSE /\ writeArmed = FALSE
    /\ timeouts = 0
    /\ messageQueue = <<>> /\ given = <<>> /\ written = <<>>
    /\ releases = 0
    /\ peer = "reading"

-----------------------------------------------------------------------------
(* close and closeSocket, as the effect they have on a connection with the *)
(* queue q and the protocol p.  The mutants of this module are named for   *)
(* what they get wrong and stand before the definition they change.        *)

\* closeSocket: cancels the timers that are armed, r and w, unless something
\* else has closed the socket already.
SetTimers(r, w) ==
    LET cancelled == ~closed /\ socketOpen /\ ~socketOpen'
    IN  /\ readArmed' = (r /\ ~cancelled)
        /\ writeArmed' = (w /\ ~cancelled)

\* Release is posted only when the socket closes.
CloseEffectUnreleased(force, q, p) ==
    IF closed THEN UNCHANGED <<closed, releases, socketOpen>>
    ELSE /\ closed' = TRUE
         /\ releases' = IF p /\ force THEN releases + 1 ELSE releases
         /\ socketOpen' = (socketOpen /\ q # <<>> /\ ~force)

\* A closed connection returns early; otherwise the release of the protocol
\* is posted and the socket closed, unless messages are still being written
\* and nothing forces it.
CloseEffect(force, q, p) ==
    IF closed THEN UNCHANGED <<closed, releases, socketOpen>>
    ELSE /\ closed' = TRUE
         /\ releases' = IF p THEN releases + 1 ELSE releases
         /\ socketOpen' = (socketOpen /\ q # <<>> /\ ~force)

Stays == UNCHANGED <<closed, releases, socketOpen>>

-----------------------------------------------------------------------------
(* The network thread: reading.                                            *)

\* Connection::accept, with the protocol when the server sends first.
Accept ==
    /\ state = "new"
    /\ state' = "open"
    /\ protocol' = ServerFirst
    /\ readArmed' = TRUE
    /\ readOp' = "header"
    /\ UNCHANGED <<closed, socketOpen, receivedFirst, writeOp, writeArmed, timeouts,
                   messageQueue, given, written, releases, peer>>

ReadEnds(op) ==
    /\ readOp = op
    /\ socketOpen
    /\ peer \in {"reading", "stalled"}

\* The read timer is not started again for the body.
HeaderUntimed ==
    /\ ReadEnds("header") /\ ~closed
    /\ readArmed' = FALSE
    /\ readOp' = "body"
    /\ Stays
    /\ UNCHANGED <<state, protocol, receivedFirst, writeOp, writeArmed, timeouts,
                   messageQueue, given, written, peer>>

\* parseHeader with a size it accepts.
Header ==
    /\ ReadEnds("header") /\ ~closed
    /\ readArmed' = TRUE
    /\ readOp' = "body"
    /\ Stays
    /\ UNCHANGED <<state, protocol, receivedFirst, writeOp, writeArmed, timeouts,
                   messageQueue, given, written, peer>>

\* parseHeader: too many packets per second (no force), or a bad size.
HeaderRefused(force) ==
    /\ ReadEnds("header") /\ ~closed
    /\ readOp' = "none"
    /\ CloseEffect(force, messageQueue, protocol)
    /\ SetTimers(FALSE, writeArmed)
    /\ UNCHANGED <<state, protocol, receivedFirst, writeOp, timeouts, messageQueue,
                   given, written, peer>>

\* parsePacket whose message the protocol handles.  It waits for the next
\* header even if the protocol has closed the connection meanwhile.
Packet ==
    /\ ReadEnds("body") /\ ~closed
    /\ receivedFirst' = TRUE
    /\ protocol' = TRUE
    /\ \/ Stays
       \/ CloseEffect(FALSE, messageQueue, TRUE)
    /\ readArmed' = TRUE
    /\ writeArmed' = (writeArmed /\ ~(socketOpen /\ ~socketOpen'))
    /\ readOp' = "header"
    /\ UNCHANGED <<state, writeOp, timeouts, messageQueue, given, written, peer>>

\* parsePacket whose first message names no protocol of the port.
PacketUnknown ==
    /\ ReadEnds("body") /\ ~closed
    /\ ~receivedFirst /\ ~protocol
    /\ receivedFirst' = TRUE
    /\ readOp' = "none"
    /\ CloseEffect(TRUE, messageQueue, protocol)
    /\ SetTimers(FALSE, writeArmed)
    /\ UNCHANGED <<state, protocol, writeOp, timeouts, messageQueue, given,
                   written, peer>>

\* A read that ends after close: parseHeader and parsePacket return.
ReadAfterClose ==
    /\ readOp # "none" /\ ReadEnds(readOp) /\ closed
    /\ readOp' = "none"
    /\ readArmed' = FALSE
    /\ Stays
    /\ UNCHANGED <<state, protocol, receivedFirst, writeOp, writeArmed, timeouts,
                   messageQueue, given, written, peer>>

\* A read that ends with an error.
ReadError ==
    /\ readOp # "none"
    /\ ~socketOpen \/ peer = "reset"
    /\ readOp' = "none"
    /\ CloseEffect(TRUE, messageQueue, protocol)
    /\ SetTimers(FALSE, writeArmed)
    /\ UNCHANGED <<state, protocol, receivedFirst, writeOp, timeouts, messageQueue,
                   given, written, peer>>

-----------------------------------------------------------------------------
(* Writing.                                                                *)

\* send, from the dispatcher or from a handler of the protocol; it does
\* nothing once the connection is closed.
Send(m) ==
    /\ state = "open" /\ protocol
    /\ m \notin ToSet(given)
    /\ ~closed
    /\ messageQueue' = Append(messageQueue, m)
    /\ given' = Append(given, m)
    /\ writeOp' = TRUE
    /\ writeArmed' = IF messageQueue = <<>> THEN TRUE ELSE writeArmed
    /\ Stays
    /\ UNCHANGED <<state, protocol, receivedFirst, readOp, readArmed, timeouts,
                   written, peer>>

\* onWriteOperation after a complete write: the next message, or the end of
\* a connection that was closed meanwhile.
Written ==
    /\ writeOp /\ socketOpen
    /\ peer \in {"reading", "silent"}
    /\ written' = Append(written, Head(messageQueue))
    /\ messageQueue' = Tail(messageQueue)
    /\ writeOp' = (Tail(messageQueue) # <<>>)
    /\ IF Tail(messageQueue) # <<>>
       THEN writeArmed' = TRUE /\ UNCHANGED <<socketOpen, readArmed>>
       ELSE /\ writeArmed' = FALSE
            /\ socketOpen' = ~closed
            /\ readArmed' = (readArmed /\ ~closed)
    /\ UNCHANGED <<state, closed, protocol, receivedFirst, readOp, timeouts,
                   given, releases, peer>>

\* onWriteOperation with an error.
WriteError ==
    /\ writeOp
    /\ ~socketOpen \/ peer = "reset"
    /\ writeOp' = FALSE
    /\ messageQueue' = <<>>
    /\ CloseEffect(TRUE, <<>>, protocol)
    /\ SetTimers(readArmed, FALSE)
    /\ UNCHANGED <<state, protocol, receivedFirst, readOp, timeouts, given,
                   written, peer>>

\* close from the dispatcher: Protocol::disconnect.
Disconnect ==
    /\ state = "open" /\ protocol /\ ~closed
    /\ CloseEffect(FALSE, messageQueue, protocol)
    /\ SetTimers(readArmed, writeArmed)
    /\ UNCHANGED <<state, protocol, receivedFirst, readOp, writeOp, timeouts,
                   messageQueue, given, written, peer>>

\* ConnectionManager::closeAll, at shutdown: the sockets of the connections
\* it knows, which close takes out of it.
CloseAll ==
    /\ state = "open" /\ ~closed
    /\ socketOpen' = FALSE
    /\ UNCHANGED <<state, closed, protocol, receivedFirst, readOp, writeOp,
                   readArmed, writeArmed, timeouts, messageQueue, given,
                   written, releases, peer>>

-----------------------------------------------------------------------------
(* Timers, the peer and the end of the object.                             *)

ReadTimerExpires ==
    /\ readArmed /\ timeouts < 2
    /\ readArmed' = FALSE
    /\ timeouts' = timeouts + 1
    /\ Stays
    /\ UNCHANGED <<state, protocol, receivedFirst, readOp, writeOp, writeArmed,
                   messageQueue, given, written, peer>>

WriteTimerExpires ==
    /\ writeArmed /\ timeouts < 2
    /\ writeArmed' = FALSE
    /\ timeouts' = timeouts + 1
    /\ Stays
    /\ UNCHANGED <<state, protocol, receivedFirst, readOp, writeOp, readArmed,
                   messageQueue, given, written, peer>>

\* handleTimeout: the handler holds no reference to the connection.
HandleTimeout ==
    /\ timeouts > 0
    /\ timeouts' = timeouts - 1
    /\ IF state = "gone" THEN Stays ELSE CloseEffect(TRUE, messageQueue, protocol)
    /\ SetTimers(readArmed, writeArmed)
    /\ UNCHANGED <<state, protocol, receivedFirst, readOp, writeOp, messageQueue,
                   given, written, peer>>

\* The peer stops reading, stops sending, or disconnects.
PeerChanges ==
    /\ state = "open" /\ peer = "reading"
    /\ peer' \in {"silent", "reset"} \cup (IF PeerMayStall THEN {"stalled"} ELSE {})
    /\ Stays
    /\ UNCHANGED <<state, protocol, receivedFirst, readOp, writeOp, readArmed,
                   writeArmed, timeouts, messageQueue, given, written>>

\* The destructor closes the socket: nothing refers to the object any more,
\* close has taken it out of the ConnectionManager and no operation is left.
Destroy ==
    /\ state = "open" /\ closed
    /\ readOp = "none" /\ ~writeOp
    /\ state' = "gone"
    /\ socketOpen' = FALSE
    /\ readArmed' = FALSE /\ writeArmed' = FALSE
    /\ UNCHANGED <<closed, protocol, receivedFirst, readOp, writeOp, timeouts,
                   messageQueue, given, written, releases, peer>>

ReadStep ==
    \/ Header \/ Packet \/ PacketUnknown \/ ReadAfterClose
    \/ \E force \in BOOLEAN : HeaderRefused(force)

ConnectionNext ==
    \/ Accept \/ ReadStep \/ ReadError
    \/ \E m \in Message : Send(m)
    \/ Written \/ WriteError \/ Disconnect \/ CloseAll
    \/ ReadTimerExpires \/ WriteTimerExpires \/ HandleTimeout
    \/ PeerChanges \/ Destroy

\* The operating system reports errors and the completion of writes a peer
\* accepts, and timers expire.  A peer need not send anything.
ConnectionFairness ==
    /\ WF_connVars(ReadError) /\ WF_connVars(Written) /\ WF_connVars(WriteError)
    /\ WF_connVars(ReadTimerExpires) /\ WF_connVars(WriteTimerExpires)
    /\ WF_connVars(HandleTimeout) /\ WF_connVars(Destroy)

ConnectionSpec == ConnectionInit /\ [][ConnectionNext]_connVars /\ ConnectionFairness

-----------------------------------------------------------------------------
(* Properties.                                                             *)

\* One write at a time, of the oldest message that is queued, and what the
\* peer has received is what was sent, in order.
WritesInOrder ==
    /\ writeOp <=> messageQueue # <<>>
    /\ IsPrefix(written, given)
    /\ messageQueue # <<>> => written \o messageQueue = given

\* The protocol is released exactly once, when the connection closes, by
\* whichever of the threads and timers comes first.
ReleasedOnce == releases = IF closed /\ protocol THEN 1 ELSE 0

\* Both at once: of a connection that anything may close (Connection::close),
\* everything is delivered in order and let go of once.
DeliveredAndReleased == WritesInOrder /\ ReleasedOnce

\* A peer that stops sending is eventually disconnected, between any two
\* steps of a packet.
SilentPeerIsClosed == peer = "silent" ~> closed

\* "will be closed by the destructor or onWriteOperation": the socket of a
\* connection that was closed is eventually closed.
ClosedSocketCloses == closed ~> ~socketOpen

=============================================================================
