----------------------------- MODULE ByteStream -----------------------------
(***************************************************************************)
(* What a connection promises of its output: a stream of bytes, numbered   *)
(* from 0, of which the client receives ever more, in order, none left out *)
(* and none twice, until the connection is closed.                         *)
(***************************************************************************)
EXTENDS Integers

VARIABLES
    accepted,   \* bytes the server took on to send
    received,   \* bytes the client has received
    open        \* the connection is open

vars == <<accepted, received, open>>

Init == accepted = 0 /\ received = 0 /\ open = TRUE

\* The server takes on more bytes.
Accept ==
    /\ open
    /\ accepted' > accepted
    /\ UNCHANGED <<received, open>>

\* The client receives more of the bytes taken on.
Deliver ==
    /\ open
    /\ received' \in (received + 1)..accepted
    /\ UNCHANGED <<accepted, open>>

Close == open /\ open' = FALSE /\ UNCHANGED <<accepted, received>>

Next == Accept \/ Deliver \/ Close

Spec == Init /\ [][Next]_vars
=============================================================================
