--------------------------- MODULE NameRegistry ---------------------------
(***************************************************************************)
(* What the server promises about the names its users appear under: a name *)
(* has one owner, who loses it by leaving after it was closed, or to a     *)
(* newcomer's login, and then it is told to close too; an address has at   *)
(* most Limit names.                                                       *)
(***************************************************************************)
EXTENDS Integers, FiniteSets

CONSTANTS Client, NoClient, Name, Address, Limit

VARIABLES
    owner,      \* the client that has a name, or NoClient
    standing,   \* how far a client is from its arrival to its departure
    address     \* where it comes from

vars == <<owner, standing, address>>

Present == {c \in Client : standing[c] \in {"open", "closing"}}
NamesOf(c) == {n \in Name : owner[n] = c}
NamesFrom(a) == {n \in Name : owner[n] # NoClient /\ address[owner[n]] = a}

Init ==
    /\ owner = [n \in Name |-> NoClient]
    /\ standing = [c \in Client |-> "absent"]
    /\ address \in [Client -> Address]

\* Those of T that are open are told to close.
Dismissed(T) ==
    [c \in Client |-> IF c \in T /\ standing[c] = "open" THEN "closing"
                                                       ELSE standing[c]]

Arrive(c, a) ==
    /\ standing[c] = "absent"
    /\ standing' = [standing EXCEPT ![c] = "open"]
    /\ address' = [address EXCEPT ![c] = a]
    /\ UNCHANGED owner

\* A newcomer turns out to come from another address.
Readdress(c, a) ==
    /\ c \in Present /\ NamesOf(c) = {}
    /\ address' = [address EXCEPT ![c] = a]
    /\ UNCHANGED <<owner, standing>>

Dismiss(T) ==
    /\ UNCHANGED <<owner, address>>
    /\ standing' = Dismissed(T)

Close(c) ==
    /\ c \in Present
    /\ standing' = [standing EXCEPT ![c] = "closed"]
    /\ UNCHANGED <<owner, address>>

Leave(c) ==
    /\ standing[c] = "closed"
    /\ standing' = [standing EXCEPT ![c] = "absent"]
    /\ owner' = [n \in Name |-> IF owner[n] = c THEN NoClient ELSE owner[n]]
    /\ UNCHANGED address

\* c's login costs the owner of n that name, and is refused all the same.
Evict(c, n) ==
    /\ c \in Present /\ owner[n] # NoClient
    /\ Cardinality(NamesFrom(address[c])) < Limit
    /\ owner' = [owner EXCEPT ![n] = NoClient]
    /\ standing' = Dismissed({c, owner[n]})
    /\ UNCHANGED address

\* c, which has no name yet, gets the name n; it may have to close at once.
Take(c, n, closing) ==
    /\ c \in Present /\ NamesOf(c) = {}
    /\ Cardinality(NamesFrom(address[c])) < Limit
    /\ owner' = [owner EXCEPT ![n] = c]
    /\ standing' = Dismissed({owner[n]} \cup IF closing THEN {c} ELSE {})
    /\ UNCHANGED address

Next ==
    \/ \E T \in SUBSET Client : Dismiss(T)
    \/ \E c \in Client :
        \/ Close(c) \/ Leave(c)
        \/ \E a \in Address : Arrive(c, a) \/ Readdress(c, a)
        \/ \E n \in Name :
            Evict(c, n) \/ \E closing \in BOOLEAN : Take(c, n, closing)

Spec == Init /\ [][Next]_vars
=============================================================================
