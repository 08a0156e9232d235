------------------------------ MODULE Framing ------------------------------
(***************************************************************************)
(* The bytes of websocket frames: Hybi::receive takes the frames clients   *)
(* send, Hybi::sendMessage makes those the server sends, and a client      *)
(* makes and takes them as the standard says.                              *)
(*                                                                         *)
(* Everything is scaled by the number of values of a byte: payloads of up  *)
(* to SingleByteLength bytes tell their length in the header, longer ones  *)
(* of fewer than Base * Base in two bytes, the others in eight.            *)
(***************************************************************************)
EXTENDS Integers, Sequences

CONSTANTS
    Base,               \* values of a byte (256)
    ByteXor(_, _),      \* exclusive or of two bytes
    SingleByteLength,   \* wsSingleByteLength (125)
    MaxFrameSize,       \* wsMaximumClientFrameSize (0x80000)
    MaskingKeys,        \* the masking keys of the clients
    MaxLength           \* the longest payload

VARIABLES
    payload,    \* the bytes of a message
    key         \* the masking key of a frame

vars == <<payload, key>>

Byte == 0..Base - 1
MaskingKeySize == 4

TwoByteLength == SingleByteLength + 1       \* the hint of a two byte length
EightByteLength == SingleByteLength + 2     \* the hint of an eight byte one

\* Of the exclusive or only this is used: what is masked twice is as it was.
\* sendMessage keeps a length in an unsigned int, of four bytes.
FramingAssumption ==
    /\ {Base, SingleByteLength, MaxFrameSize, MaxLength} \subseteq Nat
    /\ Base > 0
    /\ MaxLength < Base * Base * Base * Base
    /\ \A a, b \in Byte : ByteXor(a, b) \in Byte /\ ByteXor(ByteXor(a, b), b) = a
    /\ \A k \in MaskingKeys : k \in Seq(Byte) /\ Len(k) = MaskingKeySize

\* The bytes from the i-th to the j-th, as many as there are.
Piece(s, i, j) == SubSeq(s, i, IF j <= Len(s) THEN j ELSE Len(s))

Take(s, n) == Piece(s, 1, n)
Drop(s, n) == SubSeq(s, n + 1, Len(s))

\* The number that bytes tell, most significant first.
Number(bytes) ==
    LET n[i \in 0..Len(bytes)] ==
            IF i = 0 THEN 0 ELSE n[i - 1] * Base + bytes[i]
    IN  n[Len(bytes)]

Mask(bytes, k) ==
    [i \in DOMAIN bytes |-> ByteXor(bytes[i], k[((i - 1) % MaskingKeySize) + 1])]

-----------------------------------------------------------------------------
(* Hybi::sendMessage *)

\* A length shifted to the right, by up to seven bytes.
Shifted(n) ==
    LET s[k \in 0..7] == IF k = 0 THEN n ELSE s[k - 1] \div Base
    IN  s

\* The i-th of the bytes that tell a length.
LengthPiece(n, i, size) == Shifted(n)[size - i] % Base

LengthPieces(n, size) == [i \in 1..size |-> LengthPiece(n, i, size)]

SendMessage(opcode, input) ==
    LET n == Len(input)
    IN  <<opcode>>
        \o (IF n <= SingleByteLength THEN <<n>>
            ELSE IF n <= Base * Base - 1
            THEN <<TwoByteLength>> \o LengthPieces(n, 2)
            ELSE <<EightByteLength>> \o LengthPieces(n, 8))
        \o input

-----------------------------------------------------------------------------
(* Hybi::receive *)

\* Mutated form of Unmask: the key goes on where the length ends.
UnmaskShifted(msg, n) ==
    Mask(SubSeq(msg, MaskingKeySize + 1, MaskingKeySize + n),
         SubSeq(msg, 2, MaskingKeySize + 1))

\* The n bytes of the payload after the masking key.
Unmask(msg, n) ==
    Mask(SubSeq(msg, MaskingKeySize + 1, MaskingKeySize + n),
         Take(msg, MaskingKeySize))

Result(result, output, rest) ==
    [result |-> result, output |-> output, input |-> rest]

Refusal(result, input) == Result(result, <<>>, input)

\* What is made of an input buffer.  The opcode stands for the first byte,
\* and the bit that tells a masked frame is given apart.
Receive(masked, input) ==
    LET hint == input[2]
        lengthsize == IF hint <= SingleByteLength THEN 0
                      ELSE IF hint = EightByteLength THEN 8 ELSE 2
        start == 2 + lengthsize
        n == IF lengthsize = 0 THEN hint ELSE Number(SubSeq(input, 3, start))
        end == start + MaskingKeySize + n
    IN  IF Len(input) < 2 THEN Refusal("incomplete", input)
        ELSE IF ~masked THEN Refusal("error", input)
        ELSE IF input[1] = "close" THEN Refusal("close", input)
        ELSE IF input[1] = "other" THEN Refusal("error", input)
        ELSE IF Len(input) < start THEN Refusal("incomplete", input)
        ELSE IF n > MaxFrameSize THEN Refusal("error", input)
        ELSE IF Len(input) < end THEN Refusal("incomplete", input)
        ELSE Result(input[1], Unmask(Drop(input, start), n), Drop(input, end))

\* The answer to a ping is made of its payload.
Pong(masked, input) == SendMessage("pong", Receive(masked, input).output)

-----------------------------------------------------------------------------
(* A client, by the standard *)

ClientFrame(opcode, data, k) ==
    LET frame == SendMessage(opcode, data)
        header == Take(frame, Len(frame) - Len(data))
    IN  header \o k \o Mask(data, k)

\* The payload of a frame from the server, and what follows it.
ClientReads(frame) ==
    LET size == IF frame[2] <= SingleByteLength THEN 0
                ELSE IF frame[2] = TwoByteLength THEN 2 ELSE 8
        n == IF size = 0 THEN frame[2] ELSE Number(Piece(frame, 3, 2 + size))
    IN  Result(frame[1], Piece(frame, 3 + size, 2 + size + n),
               Drop(frame, 2 + size + n))

-----------------------------------------------------------------------------
(* The inputs: payloads that grow, under some keys *)

Init == payload = <<>> /\ key \in MaskingKeys

Grow(b) ==
    /\ Len(payload) < MaxLength
    /\ payload' = Append(payload, b)
    /\ UNCHANGED key

Next == \E b \in Byte : Grow(b)

Spec == Init /\ [][Next]_vars

-----------------------------------------------------------------------------
(* Properties *)

Allowed == Len(payload) <= MaxFrameSize
Frame(opcode) == ClientFrame(opcode, payload, key)

\* A client reads what sendMessage made of a message, and nothing is left.
ClientUnderstands ==
    ClientReads(SendMessage("text", payload)) = Result("text", payload, <<>>)

\* The server reads what a client sent and leaves the bytes that follow;
\* a payload that is too long is refused.
ServerUnderstands ==
    \A rest \in {<<>>, <<"text", 0>>} :
        Receive(TRUE, Frame("text") \o rest) =
            IF Allowed THEN Result("text", payload, rest)
            ELSE Refusal("error", Frame("text") \o rest)

\* No part of a frame is taken for the whole, and what has arrived stays.
PartsAreIncomplete ==
    \A n \in 2..Len(Frame("text")) - 1 :
        LET part == Take(Frame("text"), n)
        IN  Allowed => Receive(TRUE, part) = Refusal("incomplete", part)

\* A client that sent a ping reads its payload back.
PongAnswers ==
    Allowed => ClientReads(Pong(TRUE, Frame("ping"))).output = payload

\* Each side reads what the other wrote, in whatever parts it arrives.
FramesOK ==
    ClientUnderstands /\ ServerUnderstands /\ PartsAreIncomplete /\ PongAnswers
=============================================================================
