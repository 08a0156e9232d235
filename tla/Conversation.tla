---------------------------- MODULE Conversation -----------------------------
(***************************************************************************)
(* What users get from each other: the ignore list of an account           *)
(* (IgnoreLists), messages (Messages) and the lists of rooms (RoomLists).  *)
(* The three run in one server, side by side: none changes what another    *)
(* keeps.                                                                  *)
(***************************************************************************)
EXTENDS IgnoreLists

CONSTANTS
    User, Account, AccountOf, MSG_FLOOD, LRP_FLOOD,
    LastTime,       \* bound of the clock of Messages
    Reader,         \* who asks for lists of rooms
    Room, CACHE, FLOOD,
    ListTime        \* bound of the clock of RoomLists

VARIABLES
    users, members, chatMode, timers, throttled, timerMap, hellban, bits, now, silenced,
    slipped, sent, heard

M == INSTANCE Messages WITH online <- users, MaxTime <- LastTime

VARIABLES type, cache, listTimers, clock, since, until, answer

L == INSTANCE RoomLists
        WITH User <- Reader, timers <- listTimers, now <- clock, MaxTime <- ListTime

\* Messages are spaced, and those of the silenced unheard (Messages).
MessagesOK == M!MessagesOK

\* The lists of rooms are right, at most CACHE seconds late (RoomLists).
ListsOK == L!ListsOK
=============================================================================
