------------------------------ MODULE MCUsers -------------------------------
(***************************************************************************)
(* Conversation for TLC: two characters of one account, and a reader of    *)
(* lists.  None of the modules changes what another keeps, so each is      *)
(* checked while the others rest: "part" is the one that moves.            *)
(***************************************************************************)
EXTENDS Conversation, TLC

CONSTANTS
    x, y, z, X,         \* names to ignore, and x with a capital
    alice, bob, account

VARIABLE part

MCLowerOf == x :> x @@ y :> y @@ z :> z @@ X :> x
MCAccountOf == alice :> account @@ bob :> account

ASSUME MessagesAssumption == M!MessagesAssumption
ASSUME ListsAssumption == L!ListsAssumption

messages ==
    <<users, members, chatMode, timers, throttled, timerMap, hellban, bits, now, silenced,
      slipped, sent, heard>>
lists == <<type, cache, listTimers, clock, since, until, answer>>

\* Bound: a login is answered while the character has no other connection.
LoginsOfTheAbsent == \A u \in User : bits[u] # "none" => u \notin users

MCInit ==
    /\ part \in {"ignores", "messages", "lists"}
    /\ Init /\ M!Init /\ L!Init
    /\ part # "ignores" => stored = {}
    /\ part # "lists" => \A r \in Room : type[r] = "none"

MCNext ==
    \/ part = "ignores" /\ Next /\ UNCHANGED <<part, messages, lists>>
    \/ part = "messages" /\ M!Next /\ LoginsOfTheAbsent' /\ UNCHANGED <<part, vars, lists>>
    \/ part = "lists" /\ L!Next /\ UNCHANGED <<part, vars, messages>>

MCSpec == MCInit /\ [][MCNext]_<<part, vars, messages, lists>>

\* The two characters; no other part has them.
Symmetry == Permutations({alice, bob})
=============================================================================
