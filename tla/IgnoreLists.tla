----------------------------- MODULE IgnoreLists -----------------------------
(***************************************************************************)
(* The ignore list of an account.  Every connection of the account has a   *)
(* copy, which its commands (IGN) change and then hand to the others;      *)
(* Redis has the copy of the last one that changed, and a login is given   *)
(* what the site had when it answered: commands of other connections may   *)
(* come between the answer and its use.  The clients do the ignoring, each *)
(* with the list it was told.                                              *)
(*                                                                         *)
(* One account.  A name of the site's list may have capitals (Upper); what *)
(* the commands add and remove is in lower case.  The site answers with    *)
(* what Redis had at some time before the login ends, be it because the    *)
(* answer was long under way or because a request to Redis was; every      *)
(* request is carried out (RedisQueue has their loss).  Names of           *)
(* operators, which cannot be added, are left out.                         *)
(***************************************************************************)
EXTENDS Integers, FiniteSets

CONSTANTS
    Con,          \* connections of the account
    Lower, Upper, \* names in lower case, and with capitals
    LowerOf,      \* string.lower
    MAX_IGNORES

Name == Lower \cup Upper

ASSUME NameAssumption ==
    /\ LowerOf \in [Name -> Lower]
    /\ \A x \in Lower : LowerOf[x] = x
ASSUME MaxAssumption == MAX_IGNORES \in Nat

VARIABLES
    online,         \* connections that are logged in
    ignores,        \* the copy of each
    stored,         \* Redis: the account's list
    identifying,    \* connections whose login has an answer that is under way
    array_ignores,  \* the list in that answer
    client,         \* the list each client was told, in lower case
    kept            \* history: names added by a command that no answer under
                    \* way was without, and not removed since

vars == <<online, ignores, stored, identifying, array_ignores, client, kept>>

-----------------------------------------------------------------------------

Lowered(set) == {LowerOf[x] : x \in set}

\* The site answers the request that the login of c made.
Answer(c) ==
    /\ c \notin online \cup identifying
    /\ identifying' = identifying \cup {c}
    /\ array_ignores' = [array_ignores EXCEPT ![c] = stored]
    /\ UNCHANGED <<online, ignores, stored, client, kept>>

\* The answer is used, or it comes too late.
Answered(c) ==
    /\ c \in identifying
    /\ identifying' = identifying \ {c}
    /\ array_ignores' = [array_ignores EXCEPT ![c] = {}]

\* ident_callback: setIgnores of a connection that has none, and "init".
Login(c) ==
    /\ Answered(c)
    /\ online' = online \cup {c}
    /\ ignores' = [ignores EXCEPT ![c] = array_ignores[c]]
    /\ client' = [client EXCEPT ![c] = Lowered(array_ignores[c])]
    /\ UNCHANGED <<stored, kept>>

\* The connection was closed meanwhile, or the login is refused.
LoginFails(c) == Answered(c) /\ UNCHANGED <<online, ignores, stored, client, kept>>

Disconnect(c) ==
    /\ c \in online
    /\ online' = online \ {c}
    /\ ignores' = [ignores EXCEPT ![c] = {}]
    /\ client' = [client EXCEPT ![c] = {}]
    /\ UNCHANGED <<stored, identifying, array_ignores, kept>>

\* Mutated form of Propagated: to the connection itself only.
PropagatedNot(c, list) == [ignores EXCEPT ![c] = list]

\* propagateIgnoreList: what setIgnores makes of every copy, c's being list.
\* It only ever inserts.
Propagated(c, list) ==
    [d \in Con |-> IF d \notin online THEN {} ELSE IF d = c THEN list ELSE ignores[d] \cup list]

\* IGN add: addIgnore, and the account's clients are told.
IgnAdd(c, name) ==
    /\ c \in online
    /\ Cardinality(ignores[c]) < MAX_IGNORES
    /\ LET list == ignores[c] \cup {LowerOf[name]} IN
         /\ ignores' = Propagated(c, list)
         /\ stored' = list
         /\ kept' = kept \cup {n \in {LowerOf[name]} :
                                 \A d \in identifying : n \in array_ignores[d]}
    /\ client' = [d \in Con |-> IF d \in online THEN client[d] \cup {LowerOf[name]} ELSE {}]
    /\ UNCHANGED <<online, identifying, array_ignores>>

\* IGN delete of a name: the other copies keep it.
IgnDelete(c, name) ==
    /\ c \in online
    /\ LET list == ignores[c] \ {LowerOf[name]} IN
         /\ ignores' = Propagated(c, list)
         /\ stored' = list
    /\ kept' = kept \ {LowerOf[name]}
    /\ client' = [d \in Con |-> client[d] \ {LowerOf[name]}]
    /\ UNCHANGED <<online, identifying, array_ignores>>

\* IGN delete of "*": the names are removed one by one, and put back into
\* every copy, this one included; its client is told of it each time.
IgnDeleteAll(c) ==
    /\ c \in online
    /\ ignores' = Propagated(c, ignores[c])
    /\ stored' = IF ignores[c] = {} THEN stored
                 ELSE ignores[c] \ Lowered(ignores[c])
    /\ kept' = {}
    /\ client' = [client EXCEPT ![c] = Lowered(ignores[c])]
    /\ UNCHANGED <<online, identifying, array_ignores>>

-----------------------------------------------------------------------------

Init ==
    /\ online = {}
    /\ ignores = [c \in Con |-> {}]
    /\ stored \in {s \in SUBSET Name : Cardinality(s) <= MAX_IGNORES}
    /\ identifying = {} /\ array_ignores = [c \in Con |-> {}]
    /\ client = [c \in Con |-> {}]
    /\ kept = {}

Next == \E c \in Con :
    \/ Answer(c) \/ Login(c) \/ LoginFails(c) \/ Disconnect(c) \/ IgnDeleteAll(c)
    \/ \E name \in Name : IgnAdd(c, name) \/ IgnDelete(c, name)

Spec == Init /\ [][Next]_vars

-----------------------------------------------------------------------------
(* Properties *)

TypeOK ==
    /\ online \subseteq Con /\ identifying \subseteq Con \ online
    /\ ignores \in [Con -> SUBSET Name] /\ array_ignores \in [Con -> SUBSET Name]
    /\ client \in [Con -> SUBSET Lower]
    /\ stored \subseteq Name /\ kept \subseteq Lower
    /\ \A c \in Con \ online : ignores[c] = {}

\* Whatever connections of the account add and remove, and whichever of them
\* wrote last, somebody who was put on the list and not taken off it is in
\* every copy, and at the next login, whose answer may be under way.  The
\* exception: a name that was added while the answer to a login was under
\* way, and is not in that answer.  The new connection does not have it, and
\* its next command writes the list to Redis without it.
IgnoredStayIgnored ==
    /\ kept \subseteq stored
    /\ \A c \in online : kept \subseteq ignores[c]
    /\ \A c \in identifying : kept \subseteq array_ignores[c]

\* A client never ignores somebody whom the server has not got in the copy
\* of its connection, so the user can always see and remove the name.
ClientsNotAhead == \A c \in online : client[c] \subseteq Lowered(ignores[c])

\* What an account's connections, its clients and Redis have of its list.
IgnoresOK == TypeOK /\ IgnoredStayIgnored /\ ClientsNotAhead
=============================================================================
