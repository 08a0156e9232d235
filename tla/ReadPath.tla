------------------------------ MODULE ReadPath ------------------------------
(***************************************************************************)
(* The input of one connection: handshakeCallback collects the client's    *)
(* request, then connectionReadCallback collects websocket frames in       *)
(* readBuffer, in whatever pieces the socket delivers them, and runs the   *)
(* commands they carry.                                                    *)
(*                                                                         *)
(* A frame is its kind and the length of its payload.  The buffer is the   *)
(* number of bytes it holds, counted from the start of the oldest frame    *)
(* that was not taken from it.  The client waits for the reply to its      *)
(* handshake, as the websocket protocol demands, and may send frames while *)
(* a callback runs; no other callback of the connection does.              *)
(***************************************************************************)
EXTENDS Integers, Sequences

CONSTANTS
    SingleByteLength,   \* wsSingleByteLength (125)
    LongestTwoByte,     \* the longest payload a two byte length tells (0xFFFF)
    MaxFrameSize,       \* wsMaximumClientFrameSize (0x80000)
    MaxReadBuffer,      \* MAX_CONNECTION_READ_BUFFER (0x100000)
    MaxHandshakeBuffer, \* MAX_HANDSHAKE_READ_BUFFER (0x2000)
    RecvSize,           \* bytes one recv() asks for (8192)
    MaxRepeat,          \* commands one callback may run (9)
    RequestSizes,       \* lengths of handshake requests
    Frames,             \* the frames clients send
    MaxSending          \* bound on the frames under way, for TLC

VARIABLES
    protocol,       \* "unknown" until the handshake is done, then "hybi"
    request,        \* length of the client's handshake request
    sending,        \* frames sent and not yet taken from the buffer
    unread,         \* bytes the socket has for recv()
    buffered,       \* size of readBuffer
    inSync,         \* the buffer starts where a frame starts
    reading,        \* commands the running callback may still run
    readEvent,      \* the read event is started
    closed,         \* prepareShutdownConnection was called
    stop,           \* why the last callback returned
    taken           \* parity of the number of frames taken

vars == <<protocol, request, sending, unread, buffered, inSync, reading,
          readEvent, closed, stop, taken>>

HeaderSize == 2
MaskingKeySize == 4
MinMessage == 3

Opcode == {"text", "ping", "pong", "close", "other"}
Frame == [opcode : Opcode, masked : BOOLEAN, length : Nat]

\* The buffer has room for the longest frame, and for more.
InputAssumption ==
    /\ SingleByteLength \in Nat /\ LongestTwoByte \in Nat /\ MaxFrameSize \in Nat
    /\ MaxReadBuffer \in Nat /\ MaxFrameSize + 14 <= MaxReadBuffer
    /\ MaxHandshakeBuffer \in Nat /\ RecvSize \in Nat
    /\ MaxRepeat \in Nat \ {0}
    /\ RequestSizes \subseteq Nat /\ Frames \subseteq Frame

\* Bytes of the length that follow the header.
LengthSize(n) ==
    IF n <= SingleByteLength THEN 0 ELSE IF n <= LongestTwoByte THEN 2 ELSE 8

MaskSize(f) == IF f.masked THEN MaskingKeySize ELSE 0

FrameSize(f) == HeaderSize + LengthSize(f.length) + MaskSize(f) + f.length

-----------------------------------------------------------------------------
(* The client *)

ClientSends(f) ==
    /\ protocol = "hybi" /\ ~closed /\ Len(sending) < MaxSending
    /\ sending' = Append(sending, f)
    /\ unread' = unread + FrameSize(f)
    /\ UNCHANGED <<protocol, request, buffered, inSync, reading, readEvent,
                   closed, stop, taken>>

-----------------------------------------------------------------------------
(* Hybi::receive *)

\* What receive makes of the buffer when f is the frame at its start.
Receive(f) ==
    IF buffered < HeaderSize THEN "incomplete"
    ELSE IF ~f.masked \/ f.opcode = "other" THEN "error"
    ELSE IF f.opcode = "close" THEN "close"
    ELSE IF buffered < HeaderSize + LengthSize(f.length) THEN "incomplete"
    ELSE IF f.length > MaxFrameSize THEN "error"
    ELSE IF buffered < FrameSize(f) THEN "incomplete"
    ELSE IF f.opcode = "text" THEN "ok" ELSE "ping_pong"

\* The frame is cut off the buffer.
Take(f) ==
    LET size == HeaderSize + LengthSize(f.length) + MaskingKeySize + f.length
    IN  /\ buffered' = buffered - size
        /\ inSync' = (inSync /\ size = FrameSize(f))
        /\ sending' = Tail(sending)
        /\ taken' = 1 - taken

-----------------------------------------------------------------------------
(* The callbacks *)

\* prepareShutdownConnection, for whatever reason.
Shutdown(why) ==
    /\ closed' = TRUE /\ readEvent' = FALSE
    /\ reading' = 0 /\ stop' = why
    /\ UNCHANGED <<protocol, request, sending, unread, buffered, inSync, taken>>

Readable == readEvent /\ ~closed /\ reading = 0

\* The buffer was too large when the callback started.
Overflows(limit) == buffered > limit

\* n bytes are received.
Recv(n) ==
    n <= unread /\ unread' = unread - n /\ buffered' = buffered + n

\* Acceptor::accept of the first size bytes of the request: incomplete
\* before its empty line, and bad without the headers of a websocket.
Accept(size) == IF size < request THEN {"incomplete"} ELSE {"hybi", "bad"}

\* A proxy that passes no valid address is refused like a bad request.
Handshake(n) ==
    /\ Readable /\ protocol = "unknown" /\ ~Overflows(MaxHandshakeBuffer)
    /\ n <= unread /\ unread' = unread - n
    /\ \E version \in Accept(buffered + n) :
        \/ /\ version = "incomplete"
           /\ buffered' = buffered + n
           /\ UNCHANGED <<protocol, readEvent, closed, stop>>
        \/ /\ version = "hybi"
           /\ protocol' = "hybi" /\ buffered' = 0
           /\ UNCHANGED <<readEvent, closed, stop>>
        \/ /\ version # "incomplete"
           /\ closed' = TRUE /\ readEvent' = FALSE /\ stop' = "error"
           /\ UNCHANGED <<protocol, buffered>>
    /\ UNCHANGED <<request, sending, inSync, reading, taken>>

ReadCallback(n) ==
    /\ Readable /\ protocol = "hybi" /\ ~Overflows(MaxReadBuffer)
    /\ Recv(n)
    /\ reading' = MaxRepeat
    /\ UNCHANGED <<protocol, request, sending, inSync, readEvent, closed, stop,
                   taken>>

\* Mutated form of BufferFull: a full buffer is closed before it overflows.
BufferFullEarly ==
    /\ Readable /\ unread > 0
    /\ Overflows(IF protocol = "hybi" THEN MaxReadBuffer - RecvSize
                 ELSE MaxHandshakeBuffer)
    /\ Shutdown("overflow")

BufferFull ==
    /\ Readable /\ unread > 0
    /\ Overflows(IF protocol = "hybi" THEN MaxReadBuffer
                 ELSE MaxHandshakeBuffer)
    /\ Shutdown("overflow")

\* The client closed the connection, or it failed.
RecvFails == Readable /\ Shutdown("error")

\* The loop of connectionReadCallback finds something in the buffer.
Looping == reading > 0 /\ ~closed /\ buffered > 0 /\ sending # <<>>
Received == Receive(Head(sending))

Return(why) == reading' = 0 /\ stop' = why

\* The loop ends with the buffer empty or the limit reached.
NextTurn ==
    IF buffered' = 0 THEN Return("drained")
    ELSE IF reading = 1 THEN Return("limit")
    ELSE reading' = reading - 1 /\ UNCHANGED stop

Incomplete ==
    /\ Looping /\ Received = "incomplete"
    /\ Return("incomplete")
    /\ UNCHANGED <<protocol, request, sending, unread, buffered, inSync,
                   readEvent, closed, taken>>

\* Mutated form of PingPong: the frame is left in the buffer.
PingPongLeft ==
    /\ Looping /\ Received = "ping_pong"
    /\ Return("ping_pong")
    /\ UNCHANGED <<protocol, request, sending, unread, buffered, inSync,
                   readEvent, closed, taken>>

\* A pong is dropped and a ping answered.  The callback returns, whatever
\* else the buffer holds.
PingPong ==
    /\ Looping /\ Received = "ping_pong"
    /\ Take(Head(sending))
    /\ Return("ping_pong")
    /\ UNCHANGED <<protocol, request, unread, readEvent, closed>>

\* A frame that is refused, or a message that is too short.
Refuse ==
    /\ Looping
    /\ \/ Received \in {"error", "close"}
       \/ Received = "ok" /\ Head(sending).length < MinMessage
    /\ Shutdown("error")

\* Mutated form of Command: the callback runs one command only.
CommandOnce(delay) ==
    /\ Looping /\ Received = "ok" /\ Head(sending).length >= MinMessage
    /\ Take(Head(sending))
    /\ IF buffered' = 0 THEN Return("drained") ELSE Return("incomplete")
    /\ readEvent' = (readEvent /\ ~delay)
    /\ UNCHANGED <<protocol, request, unread, closed>>

\* A command runs; some of them call setDelayClose, which stops the event
\* and not the loop.
Command(delay) ==
    /\ Looping /\ Received = "ok" /\ Head(sending).length >= MinMessage
    /\ Take(Head(sending))
    /\ NextTurn
    /\ readEvent' = (readEvent /\ ~delay)
    /\ UNCHANGED <<protocol, request, unread, closed>>

\* The timer of setDelayClose.
DelayedClose ==
    /\ ~readEvent /\ ~closed /\ reading = 0
    /\ Shutdown("delay")

-----------------------------------------------------------------------------
(* The specification *)

Init ==
    /\ protocol = "unknown" /\ request \in RequestSizes
    /\ sending = <<>> /\ unread = request /\ buffered = 0 /\ inSync = TRUE
    /\ reading = 0 /\ readEvent = TRUE /\ closed = FALSE
    /\ stop = "drained" /\ taken = 0

Loop ==
    \/ Incomplete \/ PingPong \/ Refuse
    \/ \E delay \in BOOLEAN : Command(delay)

Arrival == \E n \in 1..RecvSize : Handshake(n) \/ ReadCallback(n)

Next ==
    \/ \E f \in Frames : ClientSends(f)
    \/ Arrival \/ BufferFull \/ RecvFails
    \/ Loop \/ DelayedClose

Spec == Init /\ [][Next]_vars

\* A callback runs to its end, and is called while the socket has data.  A
\* client keeps sending: one that does not answer the server's pings is
\* closed by the idle timer.
Fairness ==
    /\ WF_vars(Loop) /\ WF_vars(Arrival) /\ WF_vars(BufferFull)
    /\ WF_vars(\E f \in Frames : ClientSends(f))
    /\ WF_vars(DelayedClose)

-----------------------------------------------------------------------------
(* Properties *)

TypeOK ==
    /\ protocol \in {"unknown", "hybi"} /\ request \in RequestSizes
    /\ sending \in Seq(Frame)
    /\ unread \in Nat /\ buffered \in Nat
    /\ inSync \in BOOLEAN /\ readEvent \in BOOLEAN /\ closed \in BOOLEAN
    /\ reading \in 0..MaxRepeat
    /\ stop \in {"drained", "incomplete", "limit", "ping_pong", "error",
                 "overflow", "delay"}
    /\ taken \in {0, 1}

\* Whatever the pieces the frames arrive in, receive looks for a frame
\* where one starts, and takes it once all of it has arrived.
Synchronized == inSync

\* Between callbacks, an open connection holds a whole frame, or one that
\* must be refused, only when the last callback returned early: it had run
\* all the commands it may, or answered a ping or dropped a pong.
BacklogIsExcused ==
    (Readable /\ protocol = "hybi" /\ buffered > 0
        /\ Received # "incomplete") => stop \in {"limit", "ping_pong"}

\* The buffer never grows by more than one recv() beyond its limit.
BufferBound ==
    buffered <= RecvSize + (IF protocol = "hybi" THEN MaxReadBuffer
                            ELSE MaxHandshakeBuffer)

\* What the callbacks keep of the buffer, whatever the client sends.
InputOK == TypeOK /\ Synchronized /\ BacklogIsExcused /\ BufferBound

\* A connection is closed for the size of its buffer only when it sent
\* more than one frame ahead: a frame of any allowed length can be read.
OverflowIsBacklog ==
    [][stop' = "overflow" /\ stop # "overflow" /\ protocol = "hybi"
        => Received # "incomplete"]_vars

\* A client that keeps sending has its oldest frame taken, or is closed.
Progress ==
    \A p \in {0, 1} :
        (sending # <<>> /\ taken = p) ~> (taken # p \/ closed)
=============================================================================
