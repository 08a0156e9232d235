------------------------------ MODULE RoomLists ------------------------------
(***************************************************************************)
(* The lists of rooms a client may ask for: the public channels (CHA) and  *)
(* the private ones that were opened (ORS).  A list is made at most every  *)
(* CACHE seconds and everyone who asks in between is sent the last one, so *)
(* it shows rooms that are closed or gone and misses new ones.             *)
(*                                                                         *)
(* Only the names in a list are modelled, not titles and numbers of users. *)
(***************************************************************************)
EXTENDS Integers

CONSTANTS
    Room, User,
    CACHE,      \* seconds a list is used for
    FLOOD,      \* seconds between two requests of one connection
    MaxTime     \* bound of the clock

ListsAssumption == CACHE \in Nat /\ FLOOD \in Nat /\ MaxTime \in Nat

VARIABLES
    type,      \* type of the channel, or "none"
    cache,     \* the last list of each kind, and until when it is used
    timers,    \* when the connection last asked for each kind
    now,
    since,     \* history: since when the room has its type
    until,     \* history: until when it had each type, if it has it no longer
    answer     \* the list the last step sent

vars == <<type, cache, timers, now, since, until, answer>>

List == {"CHA", "ORS"}
Type == {"public", "pubprivate", "private"}
Wanted == [CHA |-> "public", ORS |-> "pubprivate"]
None == <<>>
Never == -CACHE - FLOOD - 1

-----------------------------------------------------------------------------

\* A room changes its type: one that is made, opened, closed or destroyed.
SetType(r, t) ==
    /\ type' = [type EXCEPT ![r] = t]
    /\ since' = [since EXCEPT ![r] = now]
    /\ until' = [until EXCEPT ![r] = IF type[r] = "none" THEN @ ELSE [@ EXCEPT ![type[r]] = now]]
    /\ answer' = None
    /\ UNCHANGED <<cache, timers, now>>

CreateChannel(r) == type[r] = "none" /\ SetType(r, "public")

CreatePrivateChannel(r) == type[r] = "none" /\ SetType(r, "private")

SetPublic(r, bepublic) ==
    /\ type[r] \in {"private", "pubprivate"}
    /\ LET t == IF bepublic THEN "pubprivate" ELSE "private"
       IN  type[r] # t /\ SetType(r, t)

\* destroyChannel, and removeUnusedChannels of one that is empty.
DestroyChannel(r) == type[r] # "none" /\ SetType(r, "none")

Tick ==
    /\ now < MaxTime /\ now' = now + 1
    /\ answer' = None
    /\ UNCHANGED <<type, cache, timers, since, until>>

\* Mutated form of CacheName: one cache for both lists.
CacheNameOne(list) == "CHA"

\* The static variables of sendCHA and of sendORS.
CacheName(list) == list

Fresh(list) == cache[CacheName(list)].time > now

Rooms(list) == {r \in Room : type[r] = Wanted[list]}

Throttled(u, list) == timers[u][list] > now - FLOOD

\* CHA and ORS: sendCHA, sendORS.
Ask(u, list) ==
    /\ ~Throttled(u, list)
    /\ timers' = [timers EXCEPT ![u][list] = now]
    /\ LET c == CacheName(list) IN
         IF Fresh(list)
         THEN /\ answer' = [user |-> u, list |-> list, rooms |-> cache[c].rooms]
              /\ UNCHANGED cache
         ELSE /\ answer' = [user |-> u, list |-> list, rooms |-> Rooms(list)]
              /\ cache' = [cache EXCEPT ![c] = [time |-> now + CACHE, rooms |-> Rooms(list)]]
    /\ UNCHANGED <<type, now, since, until>>

-----------------------------------------------------------------------------

\* The channels of the server's files are there at the start.
Init ==
    /\ type \in [Room -> {"none"} \cup Type]
    /\ cache = [list \in List |-> [time |-> Never, rooms |-> {}]]
    /\ timers = [u \in User |-> [list \in List |-> Never]]
    /\ now = 0
    /\ since = [r \in Room |-> Never]
    /\ until = [r \in Room |-> [t \in Type |-> Never]]
    /\ answer = None

Next ==
    \/ \E r \in Room :
         \/ CreateChannel(r) \/ CreatePrivateChannel(r) \/ DestroyChannel(r)
         \/ \E bepublic \in BOOLEAN : SetPublic(r, bepublic)
    \/ \E u \in User, list \in List : Ask(u, list)
    \/ Tick

Spec == Init /\ [][Next]_vars

-----------------------------------------------------------------------------
(* Properties *)

TypeOK ==
    /\ type \in [Room -> {"none"} \cup Type]
    /\ \A list \in List :
         /\ cache[list].time \in {Never} \cup CACHE .. MaxTime + CACHE
         /\ cache[list].rooms \subseteq Room
    /\ timers \in [User -> [List -> {Never} \cup 0 .. MaxTime]]
    /\ since \in [Room -> {Never} \cup 0 .. MaxTime]

Answered == answer # None

\* A room somebody is shown in a list has the type of the list, or had it
\* less than CACHE seconds ago: a room that was closed is not shown longer.
ListedNotLong ==
    Answered => \A r \in answer.rooms :
        \/ type[r] = Wanted[answer.list]
        \/ until[r][Wanted[answer.list]] > now - CACHE

\* A room that has had the type for CACHE seconds is in every list sent.
OpenRoomsAreListed ==
    Answered => \A r \in Room :
        type[r] = Wanted[answer.list] /\ since[r] <= now - CACHE => r \in answer.rooms

\* What the lists show, at most CACHE seconds late.
ListsOK == TypeOK /\ ListedNotLong /\ OpenRoomsAreListed
=============================================================================
