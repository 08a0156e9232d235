---------------------------- MODULE RequestReply ----------------------------
(***************************************************************************)
(* What a service that works for the event loop promises: a request is     *)
(* taken on at most once, and answered at most once or lost, in any order. *)
(***************************************************************************)

CONSTANT Request

VARIABLES
    asked,      \* requests taken on
    answered,   \* requests whose answer was delivered
    lost        \* requests that will never be answered

vars == <<asked, answered, lost>>

Init == asked = {} /\ answered = {} /\ lost = {}

Ask(r) == r \notin asked /\ asked' = asked \cup {r} /\ UNCHANGED <<answered, lost>>

Pending == asked \ (answered \cup lost)

Answer(r) ==
    r \in Pending /\ answered' = answered \cup {r} /\ UNCHANGED <<asked, lost>>

\* Several may be lost at once.
Lose ==
    /\ \E some \in SUBSET Pending : some # {} /\ lost' = lost \cup some
    /\ UNCHANGED <<asked, answered>>

Next == Lose \/ \E r \in Request : Ask(r) \/ Answer(r)

Spec == Init /\ [][Next]_vars
=============================================================================
