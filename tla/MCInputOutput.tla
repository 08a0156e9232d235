--------------------------- MODULE MCInputOutput ---------------------------
(***************************************************************************)
(* InputOutput for TLC, with the bytes of the frames (Framing) and the Lua *)
(* tables that are made of them (JsonLua).  The four share no variable, so *)
(* each is checked while the others rest: "part" is the one that moves.    *)
(*                                                                         *)
(* One, two and eight byte lengths are told by payloads of 3, 4 and 5      *)
(* bytes in ReadPath; 6 bytes are refused, 2 are too short.                *)
(***************************************************************************)
EXTENDS InputOutput, FiniteSets, Bitwise

VARIABLES
    part,
    arguments, held, sent

-----------------------------------------------------------------------------
(* The input: texts of every length, and pings *)

Masked(opcode, length) ==
    [opcode |-> opcode, masked |-> TRUE, length |-> length]

MCFrames ==
    {Masked("text", n) : n \in {2, 4, 5, 6}} \cup {Masked("ping", 3)}

ASSUME InputAssumption == R!InputAssumption

-----------------------------------------------------------------------------
(* The bytes of the frames *)

MCByteXor(a, b) == a ^^ b
MCMaskingKeys == {<<0, 0, 0, 0>>, <<0, 1, 2, 3>>, <<3, 3, 0, 1>>}

ASSUME FramingAssumption == F!FramingAssumption

\* Payloads of any bytes at first, and of one pattern where they get long.
Pattern ==
    Len(payload) >= ShortPayload + 2 =>
        payload'[Len(payload')] = Len(payload) % Base

-----------------------------------------------------------------------------
(* Documents three levels deep, two fields or items wide at the top *)

Prefix == "array_"
Scalar ==
    {[t |-> "integer", v |-> 1], [t |-> "string", v |-> "s"],
     [t |-> "null", v |-> ""]}
Keys == {<<"a">>, <<Prefix, "a">>, <<>>}

Objects(keys, values) ==
    {[t |-> "object", v |-> v] :
        v \in UNION {[some -> values] :
                        some \in {k \in SUBSET keys : Cardinality(k) <= 2}}}
Arrays(values, n) ==
    {[t |-> "array", v |-> v] : v \in UNION {[1 .. k -> values] : k \in 0 .. n}}

Small ==
    Scalar \cup Arrays(Scalar, 2)
        \cup Objects({<<"a">>, <<Prefix, "a">>}, Scalar)
Deep ==
    Arrays(Small, 1)
        \cup Objects({<<"a">>}, Small) \cup Objects({<<Prefix, "a">>}, Small)

Documents ==
    Objects(Keys, Small)
        \cup Objects({<<"a">>}, Deep) \cup Objects({<<Prefix, "a">>}, Deep)

J == INSTANCE JsonLua WITH received <- arguments

-----------------------------------------------------------------------------
(* One part at a time *)

input ==
    <<protocol, request, sending, unread, buffered, inSync, reading, readEvent,
      readClosed, stop, taken>>
frames == <<payload, key>>
documents == <<arguments, held, sent>>

Rest == [t |-> "object", v |-> [k \in {} |-> 0]]

MCInit ==
    /\ part \in {"output", "input", "frames", "documents"}
    /\ Init /\ R!Init /\ F!Init
    /\ IF part = "documents" THEN J!Init
       ELSE arguments = Rest /\ held = J!None /\ sent = J!None
    /\ part # "input" => request = 4
    /\ part # "frames" => key = <<0, 0, 0, 0>>

MCNext ==
    \/ part = "output" /\ Next /\ UNCHANGED <<part, input, frames, documents>>
    \/ part = "input" /\ R!Next /\ UNCHANGED <<part, vars, frames, documents>>
    \/ /\ part = "frames" /\ F!Next /\ Pattern
       /\ UNCHANGED <<part, vars, input, documents>>
    \/ part = "documents" /\ J!Next /\ UNCHANGED <<part, vars, input, frames>>

MCSpec ==
    /\ MCInit
    /\ [][MCNext]_<<part, vars, input, frames, documents>>
    /\ []<>(part # "output") \/ Fairness
    /\ []<>(part # "input") \/ R!Fairness

-----------------------------------------------------------------------------
(* Properties of ReadPath and JsonLua *)

\* A client that keeps sending has its frames taken, or is closed (ReadPath).
Progress == R!Progress

\* Handlers pass on what they got, the plain documents and no others
\* (JsonLua).
DocumentsOK == J!DocumentsOK
=============================================================================
