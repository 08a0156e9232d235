---------------------------- MODULE InputOutput -----------------------------
(***************************************************************************)
(* What passes between a client and the handlers: the queue of the output  *)
(* (WriteQueue), the input (ReadPath) and the bytes of the frames          *)
(* (Framing).  Queue and input may each close the connection, and each has *)
(* the other's doing so among its own steps.                               *)
(*                                                                         *)
(* ReadPath counts bytes and Framing tells them apart, so each has limits  *)
(* of its own scale: ShortPayload and LongestPayload are the               *)
(* SingleByteLength and MaxFrameSize of Framing.                           *)
(***************************************************************************)
EXTENDS WriteQueue

CONSTANTS
    SingleByteLength, LongestTwoByte, MaxFrameSize, MaxReadBuffer,
    MaxHandshakeBuffer, RecvSize, MaxRepeat, RequestSizes, Frames, MaxSending,
    Base, ByteXor(_, _), ShortPayload, LongestPayload, MaskingKeys, MaxLength

VARIABLES
    protocol, request, sending, unread, buffered, inSync, reading, readEvent,
    readClosed, stop, taken,
    payload, key

R == INSTANCE ReadPath WITH closed <- readClosed

F == INSTANCE Framing
        WITH SingleByteLength <- ShortPayload, MaxFrameSize <- LongestPayload

\* What the callbacks keep of the read buffer (ReadPath).
InputOK == R!InputOK

\* A connection is closed for the size of its buffer only when it sent more
\* than one frame ahead (ReadPath).
OverflowIsBacklog == R!OverflowIsBacklog

\* Each side reads what the other wrote, in whatever parts (Framing).
FramesOK == F!FramesOK
=============================================================================
