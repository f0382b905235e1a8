-------------------------- MODULE ConnectionProofs --------------------------
(***************************************************************************)
(* Proofs about one connection, for any messages and whichever side speaks *)
(* first: type correctness, that what the peer receives is what was sent,  *)
(* in order, and that the protocol is released once.                       *)
(***************************************************************************)
EXTENDS Connection, SequenceTheorems, TLAPS

\* Stronger than WritesInOrder: until the connection is closed, nothing that
\* was sent is lost, even when nothing is queued.
NothingDropped == ~closed => written \o messageQueue = given

\* Until accept nothing is in progress that could close the connection, so
\* that a protocol it is given then is not given to a closed one.
Untouched ==
    state = "new" =>
        /\ ~closed /\ readOp = "none" /\ ~writeOp
        /\ ~readArmed /\ ~writeArmed /\ timeouts = 0

ConnectionInv ==
    /\ ConnectionTypeOK
    /\ DeliveredAndReleased
    /\ NothingDropped
    /\ Untouched

-----------------------------------------------------------------------------
(* Sequences.                                                              *)

\* What was written and what is queued make up what was given.
LEMMA WrittenIsPrefix ==
  ASSUME NEW S, NEW s \in Seq(S), NEW t \in Seq(S)
  PROVE  IsPrefix(s, s \o t)
<1>1. /\ Len(s) \in Nat /\ Len(t) \in Nat /\ Len(s \o t) = Len(s) + Len(t)
      /\ \A i \in 1 .. Len(s) : (s \o t)[i] = s[i]
      /\ s \o t \in Seq(S)
  BY ConcatProperties, LenProperties
<1>2. SubSeq(s, 1, Len(s)) = SubSeq(s \o t, 1, Len(s))
  BY <1>1
<1> QED
  BY <1>1, <1>2 DEF IsPrefix

\* A message goes from the queue to the peer.
LEMMA MovedOver ==
  ASSUME NEW S, NEW s \in Seq(S), NEW t \in Seq(S), t # <<>>
  PROVE  /\ Append(s, Head(t)) \in Seq(S) /\ Tail(t) \in Seq(S)
         /\ Append(s, Head(t)) \o Tail(t) = s \o t
<1>1. /\ Head(t) \in S /\ Tail(t) \in Seq(S) /\ Head(t) = t[1] /\ Len(t) \in Nat \ {0}
      /\ Len(Tail(t)) = Len(t) - 1
      /\ \A i \in 1 .. Len(Tail(t)) : Tail(t)[i] = t[i + 1]
  BY HeadTailProperties, LenProperties, EmptySeq
<1>2. /\ Append(s, Head(t)) \in Seq(S) /\ Len(s) \in Nat
      /\ Len(Append(s, Head(t))) = Len(s) + 1
      /\ \A i \in 1 .. Len(s) : Append(s, Head(t))[i] = s[i]
      /\ Append(s, Head(t))[Len(s) + 1] = Head(t)
  BY <1>1, AppendProperties, LenProperties
<1> QED
  BY <1>1, <1>2, SMT

\* A message is queued.
LEMMA QueuedBehind ==
  ASSUME NEW S, NEW s \in Seq(S), NEW t \in Seq(S), NEW m \in S
  PROVE  s \o Append(t, m) = Append(s \o t, m) /\ Append(t, m) # <<>>
  BY AppendProperties, ConcatProperties, LenProperties, SMT

-----------------------------------------------------------------------------
(* What every step does to the order of the messages, and to the release.  *)

\* A step that neither queues nor writes, and opens nothing that was closed.
LEMMA OrderKept ==
  ASSUME WritesInOrder, NothingDropped,
         UNCHANGED <<messageQueue, given, written, writeOp>>,
         closed => closed'
  PROVE  WritesInOrder' /\ NothingDropped'
  BY DEF WritesInOrder, NothingDropped

\* close releases the protocol unless it has been released before.
LEMMA CloseReleases ==
  ASSUME ConnectionTypeOK, ReleasedOnce, NEW force \in BOOLEAN, NEW q,
         CloseEffect(force, q, protocol)
  PROVE  /\ closed' /\ socketOpen' \in BOOLEAN
         /\ releases' = IF protocol THEN 1 ELSE 0
<1>1. closed \in BOOLEAN /\ socketOpen \in BOOLEAN
  BY DEF ConnectionTypeOK
<1>2. CASE closed
  BY <1>1, <1>2 DEF CloseEffect, ReleasedOnce
<1>3. CASE ~closed
  <2>1. closed' = TRUE /\ releases' = IF protocol THEN releases + 1 ELSE releases
    BY <1>3 DEF CloseEffect
  <2>2. socketOpen' = (socketOpen /\ q # <<>> /\ ~force)
    BY <1>3 DEF CloseEffect
  <2> QED
    BY <1>3, <2>1, <2>2 DEF ReleasedOnce
<1> QED
  BY <1>2, <1>3

\* The timers are armed or not.
LEMMA TimersSet ==
  ASSUME NEW r \in BOOLEAN, NEW w \in BOOLEAN, SetTimers(r, w)
  PROVE  /\ readArmed' \in BOOLEAN /\ writeArmed' \in BOOLEAN
         /\ ~r => ~readArmed'
         /\ ~w => ~writeArmed'
  BY DEF SetTimers

-----------------------------------------------------------------------------
(* The invariant.                                                          *)

\* What a next state must show of each variable to be one of the types.
LEMMA TypesFlat ==
  ASSUME state \in {"new", "open", "gone"},
         closed \in BOOLEAN, socketOpen \in BOOLEAN, protocol \in BOOLEAN,
         receivedFirst \in BOOLEAN, writeOp \in BOOLEAN,
         readArmed \in BOOLEAN, writeArmed \in BOOLEAN,
         readOp \in {"none", "header", "body"}, timeouts \in 0 .. 2,
         messageQueue \in Seq(Message), given \in Seq(Message),
         written \in Seq(Message), releases \in 0 .. 1,
         peer \in {"reading", "stalled", "silent", "reset"}
  PROVE  ConnectionTypeOK
  BY DEF ConnectionTypeOK

LEMMA ConnectionStarts == ConnectionInit => ConnectionInv
<1> SUFFICES ASSUME ConnectionInit PROVE ConnectionInv
  OBVIOUS
<1>1. ConnectionTypeOK
  <2>1. <<>> \in Seq(Message)
    BY EmptySeq
  <2>2. messageQueue \in Seq(Message) /\ given \in Seq(Message) /\ written \in Seq(Message)
    BY <2>1 DEF ConnectionInit
  <2>3. /\ closed \in BOOLEAN /\ socketOpen \in BOOLEAN /\ protocol \in BOOLEAN
        /\ receivedFirst \in BOOLEAN /\ writeOp \in BOOLEAN
        /\ readArmed \in BOOLEAN /\ writeArmed \in BOOLEAN
    BY DEF ConnectionInit
  <2>4. /\ state \in {"new", "open", "gone"} /\ readOp \in {"none", "header", "body"}
        /\ timeouts \in 0 .. 2 /\ releases \in 0 .. 1
        /\ peer \in {"reading", "stalled", "silent", "reset"}
    BY DEF ConnectionInit
  <2> QED
    BY <2>2, <2>3, <2>4, TypesFlat
<1>2. IsPrefix(written, given) /\ written \o messageQueue = given
  <2>1. <<>> \in Seq(Message) /\ <<>> \o <<>> = <<>>
    BY EmptySeq, ConcatEmptySeq
  <2>2. IsPrefix(<<>>, <<>>)
    BY <2>1, WrittenIsPrefix
  <2> QED
    BY <2>1, <2>2 DEF ConnectionInit
<1>3. DeliveredAndReleased
  BY <1>2 DEF ConnectionInit, DeliveredAndReleased, WritesInOrder, ReleasedOnce
<1>4. NothingDropped /\ Untouched
  BY <1>2 DEF ConnectionInit, NothingDropped, Untouched
<1> QED
  BY <1>1, <1>3, <1>4 DEF ConnectionInv

LEMMA ConnectionStutters == ConnectionInv /\ UNCHANGED connVars => ConnectionInv'
<1> SUFFICES ASSUME ConnectionInv, UNCHANGED connVars PROVE ConnectionInv'
  OBVIOUS
<1>1. ConnectionTypeOK'
  BY DEF ConnectionInv, ConnectionTypeOK, connVars
<1>2. DeliveredAndReleased' /\ NothingDropped' /\ Untouched'
  BY DEF ConnectionInv, DeliveredAndReleased, WritesInOrder, ReleasedOnce,
         NothingDropped, Untouched, connVars
<1> QED
  BY <1>1, <1>2 DEF ConnectionInv

LEMMA ReadsAndTimers ==
  ASSUME ConnectionInv,
         \/ Header \/ ReadAfterClose \/ Accept \/ CloseAll \/ ReadTimerExpires
         \/ WriteTimerExpires \/ PeerChanges \/ Destroy
  PROVE  ConnectionInv'
<1> USE DEF ConnectionInv, DeliveredAndReleased, ReadEnds
<1>1. CASE Header
  <2>1. ConnectionTypeOK' /\ Untouched' /\ ReleasedOnce'
    BY <1>1 DEF Header, Stays, ConnectionTypeOK, Untouched, ReleasedOnce
  <2>2. WritesInOrder' /\ NothingDropped'
    BY <1>1, OrderKept DEF Header, Stays
  <2> QED
    BY <2>1, <2>2
<1>2. CASE ReadAfterClose
  <2>1. ConnectionTypeOK' /\ Untouched' /\ ReleasedOnce'
    BY <1>2 DEF ReadAfterClose, Stays, ConnectionTypeOK, Untouched, ReleasedOnce
  <2>2. WritesInOrder' /\ NothingDropped'
    BY <1>2, OrderKept DEF ReadAfterClose, Stays
  <2> QED
    BY <2>1, <2>2
<1>3. CASE Accept
  <2>1. ConnectionTypeOK' /\ Untouched' /\ ReleasedOnce'
    BY <1>3, ConnectionAssumption
       DEF Accept, ConnectionTypeOK, Untouched, ReleasedOnce
  <2>2. WritesInOrder' /\ NothingDropped'
    BY <1>3, OrderKept DEF Accept
  <2> QED
    BY <2>1, <2>2
<1>4. CASE CloseAll
  <2>1. ConnectionTypeOK' /\ Untouched' /\ ReleasedOnce'
    BY <1>4 DEF CloseAll, ConnectionTypeOK, Untouched, ReleasedOnce
  <2>2. WritesInOrder' /\ NothingDropped'
    BY <1>4, OrderKept DEF CloseAll
  <2> QED
    BY <2>1, <2>2
<1>5. CASE ReadTimerExpires
  <2>1. ConnectionTypeOK'
    <3>1. timeouts' \in 0 .. 2
      BY <1>5 DEF ReadTimerExpires, ConnectionTypeOK
    <3> QED
      BY <1>5, <3>1 DEF ReadTimerExpires, Stays, ConnectionTypeOK
  <2>2. Untouched' /\ ReleasedOnce'
    BY <1>5 DEF ReadTimerExpires, Stays, Untouched, ReleasedOnce
  <2>3. WritesInOrder' /\ NothingDropped'
    BY <1>5, OrderKept DEF ReadTimerExpires, Stays
  <2> QED
    BY <2>1, <2>2, <2>3
<1>6. CASE WriteTimerExpires
  <2>1. ConnectionTypeOK'
    <3>1. timeouts' \in 0 .. 2
      BY <1>6 DEF WriteTimerExpires, ConnectionTypeOK
    <3> QED
      BY <1>6, <3>1 DEF WriteTimerExpires, Stays, ConnectionTypeOK
  <2>2. Untouched' /\ ReleasedOnce'
    BY <1>6 DEF WriteTimerExpires, Stays, Untouched, ReleasedOnce
  <2>3. WritesInOrder' /\ NothingDropped'
    BY <1>6, OrderKept DEF WriteTimerExpires, Stays
  <2> QED
    BY <2>1, <2>2, <2>3
<1>7. CASE PeerChanges
  <2>1. ConnectionTypeOK' /\ Untouched' /\ ReleasedOnce'
    BY <1>7 DEF PeerChanges, Stays, ConnectionTypeOK, Untouched, ReleasedOnce
  <2>2. WritesInOrder' /\ NothingDropped'
    BY <1>7, OrderKept DEF PeerChanges, Stays
  <2> QED
    BY <2>1, <2>2
<1>8. CASE Destroy
  <2>1. ConnectionTypeOK' /\ Untouched' /\ ReleasedOnce'
    BY <1>8 DEF Destroy, ConnectionTypeOK, Untouched, ReleasedOnce
  <2>2. WritesInOrder' /\ NothingDropped'
    BY <1>8, OrderKept DEF Destroy
  <2> QED
    BY <2>1, <2>2
<1> QED
  BY <1>1, <1>2, <1>3, <1>4, <1>5, <1>6, <1>7, <1>8

\* The ways a connection is closed: by the network thread, by the dispatcher
\* and by a timer.
LEMMA Closes ==
  ASSUME ConnectionInv,
         \/ \E force \in BOOLEAN : HeaderRefused(force)
         \/ PacketUnknown \/ ReadError \/ Disconnect \/ HandleTimeout
  PROVE  ConnectionInv'
<1> USE DEF ConnectionInv, DeliveredAndReleased
<1>0. /\ closed \in BOOLEAN /\ socketOpen \in BOOLEAN /\ protocol \in BOOLEAN
      /\ readArmed \in BOOLEAN /\ writeArmed \in BOOLEAN
      /\ TRUE \in BOOLEAN /\ FALSE \in BOOLEAN
  BY DEF ConnectionTypeOK
<1>1. ASSUME NEW force \in BOOLEAN, HeaderRefused(force)
      PROVE  ConnectionInv'
  <2>1. CloseEffect(force, messageQueue, protocol) /\ SetTimers(FALSE, writeArmed)
    BY <1>1 DEF HeaderRefused
  <2>2. closed' /\ socketOpen' \in BOOLEAN /\ releases' = IF protocol THEN 1 ELSE 0
    BY <2>1, CloseReleases
  <2>3. readArmed' \in BOOLEAN /\ writeArmed' \in BOOLEAN
    BY <1>0, <2>1, TimersSet
  <2>4. ConnectionTypeOK'
    BY <1>1, <2>2, <2>3 DEF HeaderRefused, ConnectionTypeOK
  <2>5. ReleasedOnce' /\ Untouched'
    BY <1>1, <2>2 DEF HeaderRefused, ReadEnds, ReleasedOnce, Untouched
  <2>6. WritesInOrder' /\ NothingDropped'
    BY <1>1, <2>2, OrderKept DEF HeaderRefused
  <2> QED
    BY <2>4, <2>5, <2>6
<1>2. CASE PacketUnknown
  <2>1. CloseEffect(TRUE, messageQueue, protocol) /\ SetTimers(FALSE, writeArmed)
    BY <1>2 DEF PacketUnknown
  <2>2. closed' /\ socketOpen' \in BOOLEAN /\ releases' = IF protocol THEN 1 ELSE 0
    BY <1>0, <2>1, CloseReleases
  <2>3. readArmed' \in BOOLEAN /\ writeArmed' \in BOOLEAN
    BY <1>0, <2>1, TimersSet
  <2>4. ConnectionTypeOK'
    BY <1>2, <2>2, <2>3 DEF PacketUnknown, ConnectionTypeOK
  <2>5. ReleasedOnce' /\ Untouched'
    BY <1>2, <2>2 DEF PacketUnknown, ReadEnds, ReleasedOnce, Untouched
  <2>6. WritesInOrder' /\ NothingDropped'
    BY <1>2, <2>2, OrderKept DEF PacketUnknown
  <2> QED
    BY <2>4, <2>5, <2>6
<1>3. CASE ReadError
  <2>1. CloseEffect(TRUE, messageQueue, protocol) /\ SetTimers(FALSE, writeArmed)
    BY <1>3 DEF ReadError
  <2>2. closed' /\ socketOpen' \in BOOLEAN /\ releases' = IF protocol THEN 1 ELSE 0
    BY <1>0, <2>1, CloseReleases
  <2>3. readArmed' \in BOOLEAN /\ writeArmed' \in BOOLEAN
    BY <1>0, <2>1, TimersSet
  <2>4. ConnectionTypeOK'
    BY <1>3, <2>2, <2>3 DEF ReadError, ConnectionTypeOK
  <2>5. ReleasedOnce' /\ Untouched'
    BY <1>3, <2>2 DEF ReadError, ReleasedOnce, Untouched
  <2>6. WritesInOrder' /\ NothingDropped'
    BY <1>3, <2>2, OrderKept DEF ReadError
  <2> QED
    BY <2>4, <2>5, <2>6
<1>4. CASE Disconnect
  <2>1. CloseEffect(FALSE, messageQueue, protocol) /\ SetTimers(readArmed, writeArmed)
    BY <1>4 DEF Disconnect
  <2>2. closed' /\ socketOpen' \in BOOLEAN /\ releases' = IF protocol THEN 1 ELSE 0
    BY <1>0, <2>1, CloseReleases
  <2>3. readArmed' \in BOOLEAN /\ writeArmed' \in BOOLEAN
    BY <1>0, <2>1, TimersSet
  <2>4. ConnectionTypeOK'
    BY <1>4, <2>2, <2>3 DEF Disconnect, ConnectionTypeOK
  <2>5. ReleasedOnce' /\ Untouched'
    BY <1>4, <2>2 DEF Disconnect, ReleasedOnce, Untouched
  <2>6. WritesInOrder' /\ NothingDropped'
    BY <1>4, <2>2, OrderKept DEF Disconnect
  <2> QED
    BY <2>4, <2>5, <2>6
<1>5. CASE HandleTimeout
  <2>1. CASE state = "gone"
    <3>1. Stays /\ SetTimers(readArmed, writeArmed)
      BY <1>5, <2>1 DEF HandleTimeout
    <3>2. readArmed' \in BOOLEAN /\ writeArmed' \in BOOLEAN
      BY <1>0, <3>1, TimersSet
    <3>3. timeouts' \in 0 .. 2
      BY <1>5 DEF HandleTimeout, ConnectionTypeOK
    <3>4. ConnectionTypeOK'
      BY <1>5, <3>1, <3>2, <3>3 DEF HandleTimeout, Stays, ConnectionTypeOK
    <3>5. ReleasedOnce' /\ Untouched'
      BY <1>5, <2>1, <3>1 DEF HandleTimeout, Stays, ReleasedOnce, Untouched
    <3>6. WritesInOrder' /\ NothingDropped'
      BY <1>5, <3>1, OrderKept DEF HandleTimeout, Stays
    <3> QED
      BY <3>4, <3>5, <3>6
  <2>2. CASE state # "gone"
    <3>1. CloseEffect(TRUE, messageQueue, protocol) /\ SetTimers(readArmed, writeArmed)
      BY <1>5, <2>2 DEF HandleTimeout
    <3>2. closed' /\ socketOpen' \in BOOLEAN /\ releases' = IF protocol THEN 1 ELSE 0
      BY <1>0, <3>1, CloseReleases
    <3>3. readArmed' \in BOOLEAN /\ writeArmed' \in BOOLEAN
      BY <1>0, <3>1, TimersSet
    <3>4. timeouts' \in 0 .. 2
      BY <1>5 DEF HandleTimeout, ConnectionTypeOK
    <3>5. ConnectionTypeOK'
      BY <1>5, <3>2, <3>3, <3>4 DEF HandleTimeout, ConnectionTypeOK
    <3>6. ReleasedOnce'
      BY <1>5, <3>2 DEF HandleTimeout, ReleasedOnce
    <3>7. Untouched'
      BY <1>5 DEF HandleTimeout, ConnectionTypeOK, Untouched
    <3>8. WritesInOrder' /\ NothingDropped'
      BY <1>5, <3>2, OrderKept DEF HandleTimeout
    <3> QED
      BY <3>5, <3>6, <3>7, <3>8
  <2> QED
    BY <2>1, <2>2
<1> QED
  BY <1>1, <1>2, <1>3, <1>4, <1>5

\* A packet that is handled: its handler may close the connection.
LEMMA Handles == ConnectionInv /\ Packet => ConnectionInv'
<1> SUFFICES ASSUME ConnectionInv, Packet PROVE ConnectionInv'
  OBVIOUS
<1> USE DEF ConnectionInv, DeliveredAndReleased
<1>1. /\ closed \in BOOLEAN /\ socketOpen \in BOOLEAN /\ writeArmed \in BOOLEAN
      /\ ~closed /\ socketOpen /\ releases = 0 /\ protocol' = TRUE /\ readOp # "none"
  BY DEF Packet, ReadEnds, ConnectionTypeOK, ReleasedOnce
<1>2. \/ ~closed' /\ socketOpen' /\ releases' = 0
      \/ closed' /\ socketOpen' \in BOOLEAN /\ releases' = 1
  <2>1. CASE Stays
    BY <1>1, <2>1 DEF Stays
  <2>2. CASE CloseEffect(FALSE, messageQueue, TRUE)
    <3>1. /\ closed' = TRUE /\ releases' = IF TRUE THEN releases + 1 ELSE releases
          /\ socketOpen' = (socketOpen /\ messageQueue # <<>> /\ ~FALSE)
      BY <1>1, <2>2 DEF CloseEffect
    <3> QED
      BY <1>1, <3>1
  <2> QED
    BY <2>1, <2>2 DEF Packet
<1>3. socketOpen' \in BOOLEAN /\ closed' \in BOOLEAN
  <2>1. CASE Stays
    BY <1>1, <2>1 DEF Stays
  <2>2. CASE CloseEffect(FALSE, messageQueue, TRUE)
    BY <1>1, <2>2 DEF CloseEffect
  <2> QED
    BY <2>1, <2>2 DEF Packet
<1>4. writeArmed' \in BOOLEAN
  BY <1>1, <1>3 DEF Packet
<1>5. ConnectionTypeOK'
  BY <1>2, <1>3, <1>4 DEF Packet, ConnectionTypeOK
<1>6. ReleasedOnce' /\ Untouched'
  BY <1>1, <1>2 DEF Packet, ReleasedOnce, Untouched
<1>7. WritesInOrder' /\ NothingDropped'
  BY <1>1, OrderKept DEF Packet
<1> QED
  BY <1>5, <1>6, <1>7

\* A message is queued behind those that wait.
LEMMA Sends == \A m \in Message : ConnectionInv /\ Send(m) => ConnectionInv'
<1> SUFFICES ASSUME NEW m \in Message, ConnectionInv, Send(m) PROVE ConnectionInv'
  OBVIOUS
<1> USE DEF ConnectionInv, DeliveredAndReleased
<1>1. /\ messageQueue \in Seq(Message) /\ given \in Seq(Message)
      /\ written \in Seq(Message) /\ ~closed /\ written \o messageQueue = given
  BY DEF Send, ConnectionTypeOK, NothingDropped
<1>2. /\ messageQueue' = Append(messageQueue, m) /\ given' = Append(given, m)
      /\ written' = written /\ writeOp' = TRUE
  BY DEF Send
<1>3. /\ messageQueue' \in Seq(Message) /\ given' \in Seq(Message)
      /\ messageQueue' # <<>> /\ written' \o messageQueue' = given'
  BY <1>1, <1>2, QueuedBehind, AppendProperties
<1>4. IsPrefix(written', given')
  BY <1>1, <1>2, <1>3, WrittenIsPrefix
<1>5. WritesInOrder' /\ NothingDropped'
  BY <1>2, <1>3, <1>4 DEF WritesInOrder, NothingDropped
<1>6. ConnectionTypeOK'
  <2>1. writeArmed' \in BOOLEAN
    BY DEF Send, ConnectionTypeOK
  <2> QED
    BY <1>3, <2>1 DEF Send, Stays, ConnectionTypeOK
<1>7. ReleasedOnce' /\ Untouched'
  BY DEF Send, Stays, ReleasedOnce, Untouched
<1> QED
  BY <1>5, <1>6, <1>7

\* The oldest message that is queued reaches the peer.
LEMMA Writes == ConnectionInv /\ Written => ConnectionInv'
<1> SUFFICES ASSUME ConnectionInv, Written PROVE ConnectionInv'
  OBVIOUS
<1> USE DEF ConnectionInv, DeliveredAndReleased
<1>1. /\ messageQueue \in Seq(Message) /\ given \in Seq(Message)
      /\ written \in Seq(Message) /\ messageQueue # <<>>
      /\ written \o messageQueue = given
  BY DEF Written, ConnectionTypeOK, WritesInOrder
<1>2. /\ messageQueue' = Tail(messageQueue) /\ given' = given
      /\ written' = Append(written, Head(messageQueue))
  BY DEF Written
<1>3. /\ messageQueue' \in Seq(Message) /\ written' \in Seq(Message)
      /\ written' \o messageQueue' = given'
  <2>1. /\ Append(written, Head(messageQueue)) \in Seq(Message)
        /\ Tail(messageQueue) \in Seq(Message)
        /\ Append(written, Head(messageQueue)) \o Tail(messageQueue)
             = written \o messageQueue
    BY <1>1, MovedOver
  <2> QED
    BY <1>1, <1>2, <2>1, Zenon
<1>4. IsPrefix(written', given')
  BY <1>1, <1>2, <1>3, WrittenIsPrefix
<1>5. writeOp' = (messageQueue' # <<>>)
  BY <1>2 DEF Written
<1>6. WritesInOrder' /\ NothingDropped'
  BY <1>3, <1>4, <1>5 DEF WritesInOrder, NothingDropped
<1>7. writeOp' \in BOOLEAN /\ writeArmed' \in BOOLEAN /\ readArmed' \in BOOLEAN
      /\ socketOpen' \in BOOLEAN
  BY DEF Written, ConnectionTypeOK
<1>8. ConnectionTypeOK'
  BY <1>1, <1>2, <1>3, <1>7 DEF Written, ConnectionTypeOK
<1>9. ReleasedOnce' /\ Untouched'
  BY DEF Written, ReleasedOnce, Untouched
<1> QED
  BY <1>6, <1>8, <1>9

\* What is queued is given up with the connection.
LEMMA WritesFail == ConnectionInv /\ WriteError => ConnectionInv'
<1> SUFFICES ASSUME ConnectionInv, WriteError PROVE ConnectionInv'
  OBVIOUS
<1> USE DEF ConnectionInv, DeliveredAndReleased
<1>1. readArmed \in BOOLEAN /\ TRUE \in BOOLEAN /\ FALSE \in BOOLEAN
  BY DEF ConnectionTypeOK
<1>2. CloseEffect(TRUE, <<>>, protocol) /\ SetTimers(readArmed, FALSE)
  BY DEF WriteError
<1>3. closed' /\ socketOpen' \in BOOLEAN /\ releases' = IF protocol THEN 1 ELSE 0
  BY <1>1, <1>2, CloseReleases
<1>4. readArmed' \in BOOLEAN /\ writeArmed' \in BOOLEAN
  BY <1>1, <1>2, TimersSet
<1>5. messageQueue' \in Seq(Message)
  BY EmptySeq DEF WriteError
<1>6. ConnectionTypeOK'
  <2>1. /\ state' = state /\ protocol' = protocol /\ receivedFirst' = receivedFirst
        /\ readOp' = readOp /\ timeouts' = timeouts /\ given' = given
        /\ written' = written /\ peer' = peer
    BY DEF WriteError
  <2>2. writeOp' \in BOOLEAN
    BY DEF WriteError
  <2> QED
    BY <1>3, <1>4, <1>5, <2>1, <2>2 DEF ConnectionTypeOK
<1>7. ReleasedOnce' /\ Untouched'
  BY <1>3 DEF WriteError, ReleasedOnce, Untouched
<1>8. WritesInOrder' /\ NothingDropped'
  BY <1>3 DEF WriteError, WritesInOrder, NothingDropped
<1> QED
  BY <1>6, <1>7, <1>8

LEMMA ConnectionKeeps == ConnectionSpec => []ConnectionInv
<1>1. ConnectionInv /\ ConnectionNext => ConnectionInv'
  BY ReadsAndTimers, Closes, Handles, Sends, Writes, WritesFail
     DEF ConnectionNext, ReadStep
<1> QED
  BY <1>1, ConnectionStarts, ConnectionStutters, PTL DEF ConnectionSpec

-----------------------------------------------------------------------------
(* Theorems.                                                               *)

\* Every variable of a connection has its type, the protocol is released at
\* most once.
THEOREM ConnectionTypeCorrect == ConnectionSpec => []ConnectionTypeOK
<1>1. ConnectionInv => ConnectionTypeOK
  BY DEF ConnectionInv
<1> QED
  BY <1>1, ConnectionKeeps, PTL

\* Whatever closes the connection, and in whichever order reads, writes,
\* timers and errors end: what the peer has received is the beginning of what
\* send was given, in order, the rest of it is queued while it is written,
\* and the protocol is released once (Connection::close, ::send,
\* ::onWriteOperation).
THEOREM InOrderAndLetGoOnce == ConnectionSpec => []DeliveredAndReleased
<1>1. ConnectionInv => DeliveredAndReleased
  BY DEF ConnectionInv
<1> QED
  BY <1>1, ConnectionKeeps, PTL

\* Nothing send was given is lost before the connection is closed.
THEOREM NothingLostWhileOpen == ConnectionSpec => []NothingDropped
<1>1. ConnectionInv => NothingDropped
  BY DEF ConnectionInv
<1> QED
  BY <1>1, ConnectionKeeps, PTL

=============================================================================
