---------------------------- MODULE Connections ----------------------------
(***************************************************************************)
(* The life of a client connection in the chat server's event loop:        *)
(* accept, websocket handshake, commands, login through the login thread,  *)
(* eviction by a second login of the same character, delayed close,        *)
(* shutdown and clean-up; with the tables of ServerState that own the      *)
(* connection objects (connectionMap, connectionCountMap,                  *)
(* unidentifiedList, staffCallTargets) and two views other parties keep of *)
(* who is online: the clients' (NLN and FLN broadcasts) and Redis'.        *)
(*                                                                         *)
(* The loop is single threaded, so a libev callback is one action.  The    *)
(* one exception is connectionReadCallback, which runs up to MaxRepeat     *)
(* commands of one connection; while it does, reader names the connection  *)
(* and no other callback runs.  Payloads, channel membership, the write    *)
(* queue and time are left out: a timer is the purpose it was armed for.   *)
(***************************************************************************)
EXTENDS Integers, FiniteSets

CONSTANTS
    Conn,           \* addresses of ConnectionInstance objects
    NoConn,         \* the null pointer
    Name,           \* lower-cased character names
    NoName,         \* the empty string
    Ip,             \* client addresses
    LoadBalancers,  \* validLBs, the addresses trusted to pass X-Real-IP
    IpMax,          \* max_per_ip of the startup configuration
    MaxUsers,       \* maxusers of the startup configuration
    MaxLoginSlots,  \* capacity of the login thread's request queue
    MaxRepeat,      \* commands one read callback may run (9 in the code)
    Faults          \* which ways a Lua handler may be aborted half way

ASSUME SentinelAssumption == NoConn \notin Conn /\ NoName \notin Name
ASSUME FiniteAssumption == IsFiniteSet(Conn) /\ IsFiniteSet(Name)
ASSUME AddressAssumption == LoadBalancers \subseteq Ip /\ Ip # {}
ASSUME LimitAssumption ==
    /\ IpMax \in Nat /\ MaxUsers \in Nat /\ MaxLoginSlots \in Nat
    /\ MaxRepeat \in Nat \ {0}
ASSUME FaultAssumption == Faults \subseteq {"lua_timeout", "staffroom_rst"}

VARIABLES
    con,                \* the fields of every connection object
    login,              \* how far the login request of a connection is
    connectionMap,      \* ServerState: identified connection of a name
    connectionCountMap, \* ServerState: identified connections of an address
    unidentifiedList,   \* ServerState: connections without a character
    userCount,          \* ServerState: number of identified connections
    staffCallTargets,   \* ServerState: connections sent staff calls
    announced,          \* names the clients were told are online
    redisOnline,        \* names in the Redis set of online users
    staffRoomPrivate,   \* the staff room is of type CT_PRIVATE
    reader,             \* connection whose read callback is running
    repeat              \* commands it may still run

tables == <<connectionMap, connectionCountMap, unidentifiedList, userCount,
            staffCallTargets>>
views == <<announced, redisOnline>>
loopState == <<reader, repeat>>
vars == <<con, login, tables, views, staffRoomPrivate, loopState>>

-----------------------------------------------------------------------------
(* ConnectionInstance *)

\* What the timer is armed for: the idle time-out, the delayed close after
\* setDelayClose, the clean-up of a closed connection; or it is stopped, or
\* deleted together with the other events.
Timer == {"idle", "delay", "reap", "stopped", "deleted"}
ReadEvent == {"handshake", "read", "stopped", "deleted"}

ConnectionInstance ==
    [closed : BOOLEAN, delayClose : BOOLEAN,
     identified : BOOLEAN, authStarted : BOOLEAN,
     characterName : Name \cup {NoName}, clientAddress : Ip,
     readEvent : ReadEvent, timerEvent : Timer, pingEvent : BOOLEAN]

\* The fields listenCallback gives a new connection accepted from address a.
NewConnection(a) ==
    [closed |-> FALSE, delayClose |-> FALSE,
     identified |-> FALSE, authStarted |-> FALSE,
     characterName |-> NoName, clientAddress |-> a,
     readEvent |-> "handshake", timerEvent |-> "idle", pingEvent |-> FALSE]

\* Mutated form of SetDelayClose: the timer is left as it is.
SetDelayCloseOnly(k) ==
    [k EXCEPT !.delayClose = TRUE, !.readEvent = "stopped"]

SetDelayClose(k) ==
    [k EXCEPT !.delayClose = TRUE, !.readEvent = "stopped",
              !.timerEvent = "delay"]

\* The fields prepareShutdownConnection changes.
MarkClosed(k) ==
    [k EXCEPT !.closed = TRUE, !.readEvent = "stopped",
              !.pingEvent = FALSE, !.timerEvent = "reap"]

\* shutdownConnection: every event is stopped and deleted.
DeleteEvents(k) ==
    [k EXCEPT !.readEvent = "deleted", !.timerEvent = "deleted",
              !.pingEvent = FALSE]

\* Mutated form of Closef: the connection stays identified.
ClosefIdentified(k) == SetDelayClose(k)

\* The fields u.closef changes.
Closef(k) == [SetDelayClose(k) EXCEPT !.identified = FALSE]

\* The fields u.setIdent changes.
SetIdent(k, n) == [k EXCEPT !.identified = TRUE, !.characterName = n]

\* processLogin starts the ping timer whenever ident_callback returned.
StartPing(k, returned) == [k EXCEPT !.pingEvent = @ \/ returned]

-----------------------------------------------------------------------------
(* ServerState *)

MappedNames == {n \in Name : connectionMap[n] # NoConn}
Mapped == {connectionMap[n] : n \in MappedNames}
Held(c) == c \in unidentifiedList \cup Mapped
Referenced(c) == Held(c) \/ login[c] # "none" \/ c \in staffCallTargets

\* connectionCountMap after removeConnection of one connection from a.
\* A count that reaches zero is erased, and an absent count reads as zero.
CountMinus(counts, a) ==
    [counts EXCEPT ![a] = IF @ <= 1 THEN 0 ELSE @ - 1]
CountPlus(counts, a) == [counts EXCEPT ![a] = @ + 1]

\* removeConnection(n), which looks the connection up by name.
RemoveConnection(n) ==
    IF connectionMap[n] = NoConn
    THEN UNCHANGED <<connectionMap, connectionCountMap, userCount,
                     staffCallTargets>>
    ELSE /\ connectionMap' = [connectionMap EXCEPT ![n] = NoConn]
         /\ connectionCountMap' =
                CountMinus(connectionCountMap,
                           con[connectionMap[n]].clientAddress)
         /\ userCount' = userCount - 1
         /\ staffCallTargets' = staffCallTargets \ {connectionMap[n]}

-----------------------------------------------------------------------------
(* Closing a connection *)

\* prepareShutdownConnection(c) for a connection that is not closed.  An
\* identified one first runs pre_disconnect, which broadcasts FLN (an error
\* it raises afterwards is swallowed), and takes its name out of Redis.
PrepareShutdown(c) ==
    /\ con' = [con EXCEPT ![c] = MarkClosed(@)]
    /\ IF con[c].identified
       THEN /\ announced' = announced \ {con[c].characterName}
            /\ redisOnline' = redisOnline \ {con[c].characterName}
       ELSE UNCHANGED views
    /\ UNCHANGED <<login, tables, staffRoomPrivate>>

-----------------------------------------------------------------------------
(* Accept and handshake *)

InLoop == reader = NoConn

\* The object is allocated at an address no pointer refers to any more.
ListenCallback(c) ==
    /\ InLoop
    /\ ~Referenced(c)
    /\ \E a \in Ip : con' = [con EXCEPT ![c] = NewConnection(a)]
    /\ unidentifiedList' = unidentifiedList \cup {c}
    /\ UNCHANGED <<login, connectionMap, connectionCountMap, userCount,
                   staffCallTargets, views, staffRoomPrivate, loopState>>

\* The handshake succeeds.  Behind a load balancer the client's address is
\* the one its header names.
HandshakeDone(c) ==
    /\ InLoop
    /\ ~con[c].closed /\ con[c].readEvent = "handshake"
    /\ \E a \in Ip :
        /\ con[c].clientAddress \notin LoadBalancers => a = con[c].clientAddress
        /\ con' = [con EXCEPT ![c].clientAddress = a, ![c].readEvent = "read"]
    /\ UNCHANGED <<login, tables, views, staffRoomPrivate, loopState>>

\* The handshake fails: socket error or end of file, a header that is too
\* long or malformed, a load balancer's header without a valid address.
HandshakeFailed(c) ==
    /\ InLoop
    /\ ~con[c].closed /\ con[c].readEvent = "handshake"
    /\ PrepareShutdown(c)
    /\ UNCHANGED loopState

-----------------------------------------------------------------------------
(* connectionReadCallback *)

\* Data arrived: the loop over the messages in the read buffer begins.
ReadCallback(c) ==
    /\ InLoop
    /\ ~con[c].closed /\ con[c].readEvent = "read"
    /\ reader' = c /\ repeat' = MaxRepeat
    /\ UNCHANGED <<con, login, tables, views, staffRoomPrivate>>

\* Socket error, end of file or an oversized read buffer.
ReadFailed(c) ==
    /\ InLoop
    /\ ~con[c].closed /\ con[c].readEvent = "read"
    /\ PrepareShutdown(c)
    /\ UNCHANGED loopState

\* The buffer is empty, holds an incomplete message or a ping or pong, or
\* the callback has run its share of commands.
ReadReturn ==
    /\ ~InLoop
    /\ reader' = NoConn /\ repeat' = 0
    /\ UNCHANGED <<con, login, tables, views, staffRoomPrivate>>

\* A websocket error or close frame, or a message below three characters.
ReadClose ==
    /\ ~InLoop /\ repeat > 0
    /\ PrepareShutdown(reader)
    /\ reader' = NoConn /\ repeat' = 0

\* The loop goes on whatever the command did, even when it has marked the
\* connection for a delayed close.
NextCommand ==
    /\ ~InLoop /\ repeat > 0
    /\ repeat' = repeat - 1
    /\ UNCHANGED reader

QueuedLogins == {c \in Conn : login[c] = "queued"}

\* IDN that is passed to the login thread.
IdentCommand ==
    /\ NextCommand
    /\ ~con[reader].identified /\ ~con[reader].authStarted
    /\ Cardinality(MappedNames) < MaxUsers
    /\ Cardinality(QueuedLogins) < MaxLoginSlots
    /\ con' = [con EXCEPT ![reader].authStarted = TRUE]
    /\ login' = [login EXCEPT ![reader] = "queued"]
    /\ UNCHANGED <<tables, views, staffRoomPrivate>>

\* IDN that is refused: repeated, server full, malformed, no login slot (or
\* the queue's lock not had in time).  authStarted is set before the later
\* checks, and an identified connection has it set already.
IdentCommandRefused ==
    /\ NextCommand
    /\ con' = [con EXCEPT ![reader] =
                  [SetDelayClose(@) EXCEPT !.authStarted = TRUE]]
    /\ UNCHANGED <<login, tables, views, staffRoomPrivate>>

\* Any command that needs a character, from a connection without one.
CommandRequiresIdent ==
    /\ NextCommand
    /\ ~con[reader].identified
    /\ con' = [con EXCEPT ![reader] = SetDelayClose(@)]
    /\ UNCHANGED <<login, tables, views, staffRoomPrivate>>

\* A command without an effect on connections: PIN, FKS, ZZZ, VAR or, for
\* an identified connection, most Lua handlers.
CommandOther ==
    /\ NextCommand
    /\ UNCHANGED <<con, login, tables, views, staffRoomPrivate>>

\* u.close on each connection of T: KIK closes the one it names, TMO the
\* connections of an account, an abusive dice roll the sender itself.
CloseAll(T) == con' = [c \in Conn |-> IF c \in T THEN SetDelayClose(con[c])
                                                 ELSE con[c]]

CommandCloses(T) ==
    /\ NextCommand
    /\ con[reader].identified
    /\ CloseAll(T)
    /\ UNCHANGED <<login, tables, views, staffRoomPrivate>>

\* RST on the staff room by an admin or global moderator.
CommandResetStaffRoom ==
    /\ NextCommand
    /\ "staffroom_rst" \in Faults
    /\ con[reader].identified
    /\ staffRoomPrivate' = ~staffRoomPrivate
    /\ UNCHANGED <<con, login, tables, views>>

\* KIK and CDL from the web site over the RTB socket.
RtbCloses(T) ==
    /\ InLoop
    /\ CloseAll(T)
    /\ UNCHANGED <<login, tables, views, staffRoomPrivate, loopState>>

-----------------------------------------------------------------------------
(* connectionWriteCallback and connectionTimerCallback *)

\* The socket refuses the data.  Only a connection past the handshake has
\* been sent anything.
WriteFailed(c) ==
    /\ InLoop
    /\ ~con[c].closed /\ con[c].readEvent # "handshake"
    /\ PrepareShutdown(c)
    /\ UNCHANGED loopState

Armed(c) == con[c].timerEvent \in {"idle", "delay", "reap"}

\* A closed connection is cleaned up: its events are deleted and the table
\* that owns it lets go of it, an identified one by its name.
TimerReaps(c) ==
    /\ InLoop
    /\ Armed(c) /\ con[c].closed
    /\ con' = [con EXCEPT ![c] = DeleteEvents(@)]
    /\ \/ /\ con[c].identified
          /\ RemoveConnection(con[c].characterName)
          /\ UNCHANGED unidentifiedList
       \/ /\ ~con[c].identified
          /\ unidentifiedList' = unidentifiedList \ {c}
          /\ UNCHANGED <<connectionMap, connectionCountMap, userCount,
                         staffCallTargets>>
    /\ UNCHANGED <<login, views, staffRoomPrivate, loopState>>

\* The second after setDelayClose is over.
TimerDelayOver(c) ==
    /\ InLoop
    /\ Armed(c) /\ ~con[c].closed /\ con[c].delayClose
    /\ PrepareShutdown(c)
    /\ UNCHANGED loopState

\* The connection was silent for too long.
TimerIdleOver(c) ==
    /\ InLoop
    /\ Armed(c) /\ ~con[c].closed /\ ~con[c].delayClose
    /\ PrepareShutdown(c)
    /\ UNCHANGED loopState

\* It was not, and ev_timer_again arms the timer for what is left; nothing
\* changes unless exactly nothing is left, when ev_timer_again stops it.
TimerStops(c) ==
    /\ InLoop
    /\ Armed(c) /\ ~con[c].closed /\ ~con[c].delayClose
    /\ con' = [con EXCEPT ![c].timerEvent = "stopped"]
    /\ UNCHANGED <<login, tables, views, staffRoomPrivate, loopState>>

-----------------------------------------------------------------------------
(* The login thread *)

\* It takes a request off its queue and hands it to the HTTP client.
LoginThreadTakes(c) ==
    /\ login[c] = "queued"
    /\ login' = [login EXCEPT ![c] = "sent"]
    /\ UNCHANGED <<con, tables, views, staffRoomPrivate, loopState>>

\* An answer or a failure is put on the reply queue and the loop woken.
LoginThreadReplies(c) ==
    /\ login[c] = "sent"
    /\ login' = [login EXCEPT ![c] = "replied"]
    /\ UNCHANGED <<con, tables, views, staffRoomPrivate, loopState>>

\* The HTTP client's queue was locked for too long: the request is lost and
\* what it refers to, its connection included, is never freed.
LoginThreadLeaks(c) ==
    /\ login[c] = "queued"
    /\ login' = [login EXCEPT ![c] = "leaked"]
    /\ UNCHANGED <<con, tables, views, staffRoomPrivate, loopState>>

\* The HTTP client had no handle for the request and drops it.
HttpClientDrops(c) ==
    /\ login[c] = "sent"
    /\ login' = [login EXCEPT ![c] = "none"]
    /\ UNCHANGED <<con, tables, views, staffRoomPrivate, loopState>>

-----------------------------------------------------------------------------
(* processWakeupCallback takes every reply off the queue; an action is one *)
(* turn of its loop, as a reply may as well arrive just after the others   *)
(* were taken.  The answer decides how far ident_callback gets.            *)

TakeReply(c) ==
    /\ InLoop
    /\ login[c] = "replied"
    /\ login' = [login EXCEPT ![c] = "none"]
    /\ UNCHANGED <<staffRoomPrivate, loopState>>

\* The connection was closed while its login was under way.
ReplyTooLate(c) ==
    /\ TakeReply(c)
    /\ con[c].closed
    /\ UNCHANGED <<con, tables, views>>

Refuse(k, returned) == SetDelayClose(StartPing(k, returned))

\* Refused before ident_callback changes anything: no answer, not JSON, an
\* error in the answer, or too many connections from the address.
LoginRefused(c, returned) ==
    /\ TakeReply(c)
    /\ ~con[c].closed
    /\ con' = [con EXCEPT ![c] = Refuse(@, returned)]
    /\ UNCHANGED <<tables, views>>

\* Mutated form of MayProceed: the limit is compared the wrong way.
MayProceedAtLimit(c) ==
    /\ ~con[c].closed
    /\ connectionCountMap[con[c].clientAddress] <= IpMax

\* Once past those checks the login evicts the connection that has the
\* character: pre_disconnect, then u.closef.
MayProceed(c) ==
    /\ ~con[c].closed
    /\ connectionCountMap[con[c].clientAddress] < IpMax

Old(n) == connectionMap[n]

\* pre_disconnect ends with c.removeInvite on the staff room, which raises
\* an error unless that is a private channel; and the time hook may abort
\* any handler.
EvictionCompletes(n) == Old(n) = NoConn \/ staffRoomPrivate

Evicted(n) ==
    [d \in Conn |-> IF d = Old(n) THEN Closef(con[d]) ELSE con[d]]
EvictedCounts(n) ==
    IF Old(n) = NoConn THEN connectionCountMap
    ELSE CountMinus(connectionCountMap, con[Old(n)].clientAddress)

\* Mutated form of EvictedUsers: the old connection is still counted.
EvictedUsersKept(n) == userCount

EvictedUsers(n) == IF Old(n) = NoConn THEN userCount ELSE userCount - 1

\* Mutated form of EvictedUnidentified: the old connection is dropped.
EvictedNowhere(n) == unidentifiedList

EvictedUnidentified(n) == unidentifiedList \cup ({Old(n)} \ {NoConn})

EvictedStaff(n) == staffCallTargets \ {Old(n)}

\* Aborted between pre_disconnect and u.closef: everyone was told that the
\* old connection left, and it stays.
LoginAbortedInEviction(c, n) ==
    /\ TakeReply(c)
    /\ MayProceed(c)
    /\ Old(n) # NoConn
    /\ "lua_timeout" \in Faults \/ ~staffRoomPrivate
    /\ con' = [con EXCEPT ![c] = Refuse(@, FALSE)]
    /\ announced' = announced \ {n}
    /\ UNCHANGED <<tables, redisOnline>>

\* Refused after the eviction: the account is banned or timed out.
LoginRefusedAfterEviction(c, n, returned) ==
    /\ TakeReply(c)
    /\ MayProceed(c) /\ EvictionCompletes(n)
    /\ returned \/ "lua_timeout" \in Faults
    /\ con' = [Evicted(n) EXCEPT ![c] = Refuse(@, returned)]
    /\ connectionMap' = [connectionMap EXCEPT ![n] = NoConn]
    /\ connectionCountMap' = EvictedCounts(n)
    /\ userCount' = EvictedUsers(n)
    /\ unidentifiedList' = EvictedUnidentified(n)
    /\ staffCallTargets' = EvictedStaff(n)
    /\ announced' = IF Old(n) = NoConn THEN announced ELSE announced \ {n}
    /\ UNCHANGED redisOnline

\* The eviction followed by u.setIdent, which gives c the name n; k is what
\* the rest of ident_callback makes of c, staff whether it is a target of
\* staff calls.
Identify(c, n, k, staff) ==
    /\ TakeReply(c)
    /\ MayProceed(c) /\ EvictionCompletes(n)
    /\ ~con[c].identified
    /\ con' = [Evicted(n) EXCEPT ![c] = k]
    /\ connectionMap' = [connectionMap EXCEPT ![n] = c]
    /\ connectionCountMap' = CountPlus(EvictedCounts(n), con[c].clientAddress)
    /\ userCount' = EvictedUsers(n) + 1
    /\ unidentifiedList' = EvictedUnidentified(n) \ {c}
    /\ staffCallTargets' =
           IF staff THEN EvictedStaff(n) \cup {c} ELSE EvictedStaff(n)
    /\ redisOnline' = redisOnline \cup {n}

\* Refused after u.setIdent: a zero account or character id, a banned or
\* timed-out account; or the handler was aborted before it announced c.
LoginRefusedAfterIdent(c, n, returned) ==
    /\ returned \/ "lua_timeout" \in Faults
    /\ Identify(c, n, Refuse(SetIdent(con[c], n), returned), FALSE)
    /\ announced' = IF Old(n) = NoConn THEN announced ELSE announced \ {n}

\* Aborted after the NLN broadcast: by the time hook, or because a member
\* of staff cannot be invited to a staff room that is not private.
LoginAbortedAfterAnnounce(c, n, staff) ==
    /\ "lua_timeout" \in Faults \/ ~staffRoomPrivate
    /\ Identify(c, n, Refuse(SetIdent(con[c], n), FALSE), staff)
    /\ announced' = announced \cup {n}

\* The login succeeds.  Operators and super-cops become targets of staff
\* calls and, like the other staff, join the staff room.
LoginAccepted(c, n, staff) ==
    /\ staff => staffRoomPrivate
    /\ Identify(c, n, StartPing(SetIdent(con[c], n), TRUE), staff)
    /\ announced' = announced \cup {n}

\* idleTasksCallback replaces the Redis set by the names in the map.
IdleTasks ==
    /\ InLoop
    /\ redisOnline' = MappedNames
    /\ UNCHANGED <<con, login, tables, announced, staffRoomPrivate, loopState>>

-----------------------------------------------------------------------------
(* The specification *)

Init ==
    /\ con = [c \in Conn |->
                DeleteEvents([NewConnection(CHOOSE a \in Ip : TRUE)
                                EXCEPT !.closed = TRUE])]
    /\ login = [c \in Conn |-> "none"]
    /\ connectionMap = [n \in Name |-> NoConn]
    /\ connectionCountMap = [a \in Ip |-> 0]
    /\ unidentifiedList = {}
    /\ userCount = 0
    /\ staffCallTargets = {}
    /\ announced = {}
    /\ redisOnline = {}
    /\ staffRoomPrivate = TRUE
    /\ reader = NoConn
    /\ repeat = 0

SocketStep(c) ==
    \/ ListenCallback(c) \/ HandshakeDone(c) \/ HandshakeFailed(c)
    \/ ReadCallback(c) \/ ReadFailed(c) \/ WriteFailed(c)

CommandStep ==
    \/ ReadReturn \/ ReadClose
    \/ IdentCommand \/ IdentCommandRefused \/ CommandRequiresIdent
    \/ CommandOther \/ CommandResetStaffRoom

\* Connections of the map are marked for a delayed close, again if they were.
KickStep(T) == CommandCloses(T) \/ RtbCloses(T)

TimerStep(c) ==
    \/ TimerReaps(c) \/ TimerDelayOver(c) \/ TimerIdleOver(c) \/ TimerStops(c)

LoginThreadStep(c) ==
    \/ LoginThreadTakes(c) \/ LoginThreadReplies(c)
    \/ LoginThreadLeaks(c) \/ HttpClientDrops(c)

LoginReplyStep(c) ==
    \/ ReplyTooLate(c)
    \/ \E returned \in BOOLEAN : LoginRefused(c, returned)
    \/ \E n \in Name :
        \/ LoginAbortedInEviction(c, n)
        \/ \E returned \in BOOLEAN :
            \/ LoginRefusedAfterEviction(c, n, returned)
            \/ LoginRefusedAfterIdent(c, n, returned)
        \/ \E staff \in BOOLEAN :
            \/ LoginAbortedAfterAnnounce(c, n, staff)
            \/ LoginAccepted(c, n, staff)

Next ==
    \/ \E c \in Conn : \/ SocketStep(c) \/ TimerStep(c)
                       \/ LoginThreadStep(c) \/ LoginReplyStep(c)
    \/ CommandStep
    \/ \E T \in SUBSET Mapped : KickStep(T)
    \/ IdleTasks

Spec == Init /\ [][Next]_vars

-----------------------------------------------------------------------------
(* Fairness: a read callback returns, and the loop serves a timer that is  *)
(* due before it polls again, unless the timer is armed anew meanwhile: a  *)
(* timer may be put off for ever by kicks, and by nothing else.            *)

Kick(c) == \E T \in SUBSET Mapped : c \in T /\ KickStep(T)
CloseTimer(c) == TimerReaps(c) \/ TimerDelayOver(c)

FairSpec ==
    /\ Spec
    /\ WF_vars(ReadReturn)
    /\ \A c \in Conn : []<><<Kick(c)>>_vars \/ SF_vars(CloseTimer(c))

-----------------------------------------------------------------------------
(* Properties *)

\* The variables keep their types.
TypeOK ==
    /\ con \in [Conn -> ConnectionInstance]
    /\ login \in [Conn -> {"none", "queued", "sent", "replied", "leaked"}]
    /\ connectionMap \in [Name -> Conn \cup {NoConn}]
    /\ connectionCountMap \in [Ip -> Nat]
    /\ unidentifiedList \subseteq Conn
    /\ userCount \in Int
    /\ staffCallTargets \subseteq Conn
    /\ announced \subseteq Name
    /\ redisOnline \subseteq Name
    /\ staffRoomPrivate \in BOOLEAN
    /\ reader \in Conn \cup {NoConn}
    /\ repeat \in 0..MaxRepeat

\* The destructor's "[BUG] Deleting a connection not marked as closed" is
\* never reached: a connection that is not closed is owned by a table.
OpenIsOwned == \A c \in Conn : ~con[c].closed => Held(c)

\* No event can fire for a freed connection: an event that is still active
\* belongs to a connection that a table owns (the race connectionTimerCallback
\* is written to avoid).
EventsAreOwned ==
    \A c \in Conn :
        \/ Armed(c) \/ con[c].readEvent \in {"handshake", "read"}
        \/ con[c].pingEvent
        => Held(c)

\* The connection whose commands are being run is open.
ReaderIsOpen == reader # NoConn => ~con[reader].closed

\* What the tables own, and Lua can therefore reach, still has its events:
\* u.close on it never dereferences a deleted timer.
OwnedHasEvents ==
    \A c \in Conn :
        Held(c) => con[c].timerEvent # "deleted" /\ con[c].readEvent # "deleted"

\* The map and the connections agree: the connection found under a name is
\* identified by that name, and an identified connection is found under its
\* name until it is cleaned up.  Cleaning up by name is only right because
\* of this.
MapAgrees ==
    /\ \A n \in MappedNames :
        LET k == con[connectionMap[n]] IN k.identified /\ k.characterName = n
    /\ \A c \in Conn :
        con[c].identified /\ con[c].timerEvent # "deleted"
            => /\ con[c].characterName \in Name
               /\ connectionMap[con[c].characterName] = c
    /\ Mapped \cap unidentifiedList = {}

\* connectionCountMap and userCount are the numbers of connections in the
\* map, from each address and altogether.
CountsAgree ==
    /\ userCount = Cardinality(MappedNames)
    /\ \A a \in Ip :
        connectionCountMap[a] =
            Cardinality({n \in MappedNames :
                            con[connectionMap[n]].clientAddress = a})

\* max_per_ip is never exceeded, although logins are answered out of order
\* and a load balancer's clients get their address in the handshake.
IpLimit == \A a \in Ip : connectionCountMap[a] <= IpMax

\* Staff calls go to connections of the map only ("or connections get
\* leaked", ServerState::removeConnection).
StaffAreMapped == staffCallTargets \subseteq Mapped

\* A connection that is closing has a timer armed for it, so that it will be
\* cleaned up, and no longer reads.
ClosingIsArmed ==
    \A c \in Conn :
        Held(c) /\ (con[c].closed \/ con[c].delayClose)
            => /\ con[c].timerEvent \in {"delay", "reap"}
               /\ con[c].readEvent = "stopped"

\* What the server counts is what there is, and within the limit.
CountsOK == CountsAgree /\ IpLimit

\* No connection is freed while something may still use it, and none is kept
\* that nothing will close: the tables own what is open, what has events and
\* what is about to close.
MemoryOK ==
    /\ TypeOK /\ OpenIsOwned /\ EventsAreOwned /\ OwnedHasEvents
    /\ ClosingIsArmed /\ StaffAreMapped /\ ReaderIsOpen

\* Redis knows every identified connection that is not closed, although the
\* connection it evicted was the last to add or remove the same name.
RedisKnows ==
    \A c \in Conn :
        con[c].identified /\ ~con[c].closed
            => con[c].characterName \in redisOnline

\* A user whose departure is broadcast is disconnected: what the error a
\* second login sends to the first connection says, "You have been
\* disconnected because this character has been logged in at another
\* location."
ToldIsDisconnected ==
    [][\A n \in announced \ announced' :
        LET c == connectionMap[n] IN
        c # NoConn => con'[c].closed \/ con'[c].delayClose]_vars

\* A connection loses its name only when it is cleaned up after its socket
\* was closed, or when it is evicted; then it is being closed and owned by
\* unidentifiedList.  No clean-up takes the name from another connection.
NameIsKept ==
    [][\A n \in MappedNames :
        LET c == connectionMap[n] IN
        connectionMap'[n] # c =>
            \/ con[c].closed /\ con'[c].timerEvent = "deleted"
            \/ con'[c].delayClose /\ c \in unidentifiedList']_vars

\* How far a connection is from accept to clean-up.
Standing(c) ==
    IF ~Held(c) THEN "absent"
    ELSE IF con[c].closed THEN "closed"
    ELSE IF con[c].delayClose THEN "closing" ELSE "open"

\* The event loop keeps the names as a registry promises: no step of a
\* login, an eviction, a kick or a clean-up, in whatever order they come,
\* leaves a name with two owners, takes it from one that stays, gives a
\* second name to a connection or one too many to an address.
Registry ==
    INSTANCE NameRegistry
    WITH Client <- Conn, NoClient <- NoConn, Address <- Ip, Limit <- IpMax,
         owner <- connectionMap,
         standing <- [c \in Conn |-> Standing(c)],
         address <- [c \in Conn |-> con[c].clientAddress]
ImplementsRegistry == Registry!Spec

\* Every connection that is closing is cleaned up, unless it is kicked over
\* and over again.
Cleanup ==
    \A c \in Conn :
        <>[][~Kick(c)]_vars =>
            ((con[c].closed \/ con[c].delayClose) ~> ~Held(c))
=============================================================================
