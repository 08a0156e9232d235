----------------------------- MODULE WriteQueue -----------------------------
(***************************************************************************)
(* The output of one connection: messages are queued by send and sendRaw   *)
(* and written to the socket by connectionWriteCallback, which sends the   *)
(* front of the queue until the socket takes no more and remembers in      *)
(* writePosition how much of the front was taken.                          *)
(*                                                                         *)
(* A message is the interval of the output stream it stands for, so that   *)
(* the order of bytes can be told without their values.  The callback is a *)
(* step for every send() of its loop; no other callback runs between them. *)
(***************************************************************************)
EXTENDS Integers, Sequences

CONSTANTS
    MaxQueueItems,  \* MAX_SEND_QUEUE_ITEMS (150)
    Lengths,        \* lengths of messages, of which none is empty
    MaxAccepted     \* bound on the bytes taken on, for TLC

ASSUME QueueAssumption ==
    /\ MaxQueueItems \in Nat /\ MaxAccepted \in Nat
    /\ Lengths \subseteq Nat \ {0}

VARIABLES
    writeQueue,     \* the messages not yet sent to their end
    writePosition,  \* how much of the front was sent
    writeEvent,     \* the write event is started
    closed,         \* prepareShutdownConnection was called
    writing,        \* connectionWriteCallback is running
    accepted,       \* bytes of all the messages queued so far
    received        \* bytes the client received in order, or Garbled

vars == <<writeQueue, writePosition, writeEvent, closed, writing, accepted,
          received>>

Message == [from : Nat, length : Nat \ {0}, raw : BOOLEAN]

\* The client got a byte that was not the next.
Garbled == -1

-----------------------------------------------------------------------------
(* Queueing *)

\* Mutated form of Queue: the write event is not started.
QueueOnly(n, raw) ==
    /\ writeQueue' =
           Append(writeQueue, [from |-> accepted, length |-> n, raw |-> raw])
    /\ accepted' = accepted + n
    /\ UNCHANGED <<writePosition, writeEvent, closed, writing, received>>

Queue(n, raw) ==
    /\ writeQueue' =
           Append(writeQueue, [from |-> accepted, length |-> n, raw |-> raw])
    /\ writeEvent' = TRUE
    /\ accepted' = accepted + n
    /\ UNCHANGED <<writePosition, closed, writing, received>>

\* A reply, an error, a ping or a broadcast.  A message for a connection
\* that is closed or has too many waiting is dropped.
Send(n) ==
    /\ ~writing /\ accepted + n <= MaxAccepted
    /\ ~closed /\ Len(writeQueue) <= MaxQueueItems
    /\ Queue(n, FALSE)

\* The reply to the handshake and to a websocket ping.
SendRaw(n) ==
    /\ ~writing /\ accepted + n <= MaxAccepted
    /\ ~closed
    /\ Queue(n, TRUE)

-----------------------------------------------------------------------------
(* connectionWriteCallback *)

\* prepareShutdownConnection, by whatever callback; the queue is left.
Shutdown ==
    /\ ~closed
    /\ closed' = TRUE /\ writeEvent' = FALSE
    /\ UNCHANGED <<writeQueue, writePosition, accepted, received>>

\* An error of the socket, or another callback that closes the connection.
CloseConnection == ~writing /\ Shutdown /\ UNCHANGED writing

\* The socket is writable.
WriteCallback ==
    /\ ~writing /\ ~closed /\ writeEvent
    /\ writing' = TRUE
    /\ UNCHANGED <<writeQueue, writePosition, writeEvent, closed, accepted,
                   received>>

Front == Head(writeQueue)
Unsent == Front.length - writePosition

\* send() is called with all that is unsent of the front.
CallSend == writing /\ writeQueue # <<>>

\* The client receives n bytes from the write position on.
Transmit(n) ==
    received' = IF received = Front.from + writePosition
                THEN received + n ELSE Garbled

\* The socket took n bytes of it, which ends the callback.
SendPart(n) ==
    /\ CallSend
    /\ n < Unsent
    /\ Transmit(n)
    /\ writePosition' = writePosition + n
    /\ writing' = FALSE
    /\ UNCHANGED <<writeQueue, writeEvent, closed, accepted>>

\* Mutated form of SendAll: the position is kept for the next message.
SendAllOn ==
    /\ CallSend
    /\ Transmit(Unsent)
    /\ writeQueue' = Tail(writeQueue)
    /\ UNCHANGED <<writePosition, writing, writeEvent, closed, accepted>>

\* The socket took it all, and the loop goes on.
SendAll ==
    /\ CallSend
    /\ Transmit(Unsent)
    /\ writeQueue' = Tail(writeQueue) /\ writePosition' = 0
    /\ UNCHANGED <<writing, writeEvent, closed, accepted>>

\* Mutated form of SendNothing: the write event is stopped whenever the
\* callback returns.
SendNothingStops ==
    /\ CallSend
    /\ writing' = FALSE /\ writeEvent' = FALSE
    /\ UNCHANGED <<writeQueue, writePosition, closed, accepted, received>>

\* The socket would block.
SendNothing ==
    /\ CallSend
    /\ writing' = FALSE
    /\ UNCHANGED <<writeQueue, writePosition, writeEvent, closed, accepted,
                   received>>

SendFails == CallSend /\ Shutdown /\ writing' = FALSE

\* Everything is sent.
Drained ==
    /\ writing /\ writeQueue = <<>>
    /\ writeEvent' = FALSE /\ writing' = FALSE
    /\ UNCHANGED <<writeQueue, writePosition, closed, accepted, received>>

-----------------------------------------------------------------------------
(* The specification *)

Init ==
    /\ writeQueue = <<>> /\ writePosition = 0
    /\ writeEvent = FALSE /\ closed = FALSE /\ writing = FALSE
    /\ accepted = 0 /\ received = 0

\* Sizes that do not fit are excluded by the guards of the actions.
SendSome == \E n \in 1..MaxAccepted : SendPart(n)

Next ==
    \/ \E n \in Lengths : Send(n) \/ SendRaw(n)
    \/ CloseConnection
    \/ WriteCallback \/ SendSome \/ SendAll \/ SendNothing \/ SendFails
    \/ Drained

Spec == Init /\ [][Next]_vars

\* The loop calls the callback when the socket is writable, a callback runs
\* to its end, and the client reads: its socket takes data again and again.
Fairness ==
    /\ WF_vars(WriteCallback)
    /\ WF_vars(SendSome \/ SendAll \/ SendNothing \/ SendFails \/ Drained)
    /\ SF_vars(SendSome \/ SendAll)

-----------------------------------------------------------------------------
(* Properties *)

\* The variables keep their types, and the position is within the front.
TypeOK ==
    /\ writeQueue \in Seq(Message)
    /\ writePosition \in Nat
    /\ writeEvent \in BOOLEAN /\ closed \in BOOLEAN /\ writing \in BOOLEAN
    /\ accepted \in Nat
    /\ received \in Nat \cup {Garbled}

\* What the queue holds is exactly what the client has yet to receive: its
\* messages are contiguous in the stream, from the client's next byte on.
QueueIsUnsent ==
    /\ writeQueue = <<>> => received = accepted /\ writePosition = 0
    /\ writeQueue # <<>> =>
        /\ received = Front.from + writePosition
        /\ writePosition < Front.length
    /\ \A i \in 1..Len(writeQueue) :
        writeQueue[i].from + writeQueue[i].length =
            IF i = Len(writeQueue) THEN accepted ELSE writeQueue[i + 1].from

\* An open connection that has something to send has its write event
\* started: no message is stuck in the queue until the next one.
NothingStuck == ~closed /\ writeQueue # <<>> => writeEvent

\* Messages other than the replies to pings and the handshake wait in a
\* queue of at most MaxQueueItems others.
QueueLimit ==
    \A i \in 1..Len(writeQueue) : ~writeQueue[i].raw => i <= MaxQueueItems + 1

\* What send, sendRaw and the callback keep of the queue at all times.
QueueOK == TypeOK /\ QueueIsUnsent /\ NothingStuck /\ QueueLimit

\* The connection implements the stream of bytes: the client receives them
\* in order, whatever the socket takes at a time and whatever is dropped.
Stream == INSTANCE ByteStream WITH open <- ~closed
ImplementsByteStream == Stream!Spec

\* A client that reads receives every message that was queued, unless the
\* connection is closed first.
Delivery ==
    \A k \in 1..MaxAccepted : accepted >= k ~> (received >= k \/ closed)
=============================================================================
