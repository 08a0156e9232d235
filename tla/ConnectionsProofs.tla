------------------------- MODULE ConnectionsProofs -------------------------
(***************************************************************************)
(* Proofs about Connections, for any number of connections, names and      *)
(* addresses: first the ownership of connection objects and the map, then  *)
(* the counts, what Redis knows and how a name is lost, then that the loop *)
(* implements NameRegistry.                                                *)
(***************************************************************************)
EXTENDS Connections, FiniteSetTheorems, TLAPS

-----------------------------------------------------------------------------
(* The inductive invariant.  Sound(k, held) is what the ownership           *)
(* invariants say of one connection with the fields k.                      *)

Sound(k, held) ==
    /\ ~k.closed => held
    /\ \/ k.timerEvent \in {"idle", "delay", "reap"}
       \/ k.readEvent \in {"handshake", "read"}
       \/ k.pingEvent
       => held
    /\ held => k.timerEvent # "deleted" /\ k.readEvent # "deleted"
    /\ held /\ (k.closed \/ k.delayClose)
        => k.timerEvent \in {"delay", "reap"} /\ k.readEvent = "stopped"

AllSound == \A c \in Conn : Sound(con[c], Held(c))

Ownership == AllSound /\ MapAgrees /\ StaffAreMapped
IndInv == TypeOK /\ Ownership /\ ReaderIsOpen

\* The conjuncts of the inductive invariant that the runs check by name.
LEMMA OwnershipParts ==
    ASSUME Ownership
    PROVE  /\ OpenIsOwned /\ EventsAreOwned /\ OwnedHasEvents
           /\ MapAgrees /\ StaffAreMapped /\ ClosingIsArmed
BY DEF Ownership, AllSound, Sound, OpenIsOwned, EventsAreOwned, Armed,
       OwnedHasEvents, ClosingIsArmed

-----------------------------------------------------------------------------
(* What the operations on one connection do to its fields. *)

SameIdentity(k, r) ==
    /\ r.identified = k.identified
    /\ r.characterName = k.characterName

LEMMA SetDelayCloseFacts ==
    ASSUME NEW k \in ConnectionInstance
    PROVE  LET r == SetDelayClose(k) IN
           /\ r \in ConnectionInstance
           /\ r.closed = k.closed /\ r.delayClose
           /\ r.timerEvent = "delay" /\ r.readEvent = "stopped"
           /\ SameIdentity(k, r)
           /\ Sound(r, TRUE)
BY DEF SetDelayClose, ConnectionInstance, Timer, ReadEvent, SameIdentity, Sound

LEMMA MarkClosedFacts ==
    ASSUME NEW k \in ConnectionInstance
    PROVE  LET r == MarkClosed(k) IN
           /\ r \in ConnectionInstance
           /\ r.closed /\ r.timerEvent = "reap" /\ r.readEvent = "stopped"
           /\ SameIdentity(k, r)
           /\ Sound(r, TRUE)
BY DEF MarkClosed, ConnectionInstance, Timer, ReadEvent, SameIdentity, Sound

LEMMA DeleteEventsFacts ==
    ASSUME NEW k \in ConnectionInstance
    PROVE  LET r == DeleteEvents(k) IN
           /\ r \in ConnectionInstance
           /\ r.closed = k.closed /\ r.timerEvent = "deleted"
           /\ SameIdentity(k, r)
           /\ k.closed => Sound(r, FALSE)
BY DEF DeleteEvents, ConnectionInstance, Timer, ReadEvent, SameIdentity, Sound

LEMMA NewConnectionFacts ==
    ASSUME NEW a \in Ip
    PROVE  LET r == NewConnection(a) IN
           /\ r \in ConnectionInstance
           /\ ~r.closed /\ ~r.identified /\ r.timerEvent = "idle"
           /\ Sound(r, TRUE)
BY DEF NewConnection, ConnectionInstance, Timer, ReadEvent, Sound

LEMMA ClosefFacts ==
    ASSUME NEW k \in ConnectionInstance
    PROVE  LET r == Closef(k) IN
           /\ r \in ConnectionInstance
           /\ r.closed = k.closed /\ ~r.identified /\ r.timerEvent = "delay"
           /\ r.delayClose
           /\ Sound(r, TRUE)
BY DEF Closef, SetDelayClose, ConnectionInstance, Timer, ReadEvent, Sound

LEMMA SetIdentFacts ==
    ASSUME NEW k \in ConnectionInstance, NEW n \in Name
    PROVE  LET r == SetIdent(k, n) IN
           /\ r \in ConnectionInstance
           /\ r.closed = k.closed
           /\ r.identified /\ r.characterName = n
           /\ r.timerEvent = k.timerEvent
           /\ Sound(k, TRUE) => Sound(r, TRUE)
BY DEF SetIdent, ConnectionInstance, Timer, ReadEvent, Sound

LEMMA StartPingFacts ==
    ASSUME NEW k \in ConnectionInstance, NEW b \in BOOLEAN
    PROVE  LET r == StartPing(k, b) IN
           /\ r \in ConnectionInstance
           /\ r.closed = k.closed
           /\ r.timerEvent = k.timerEvent
           /\ SameIdentity(k, r)
           /\ Sound(k, TRUE) => Sound(r, TRUE)
BY DEF StartPing, ConnectionInstance, Timer, ReadEvent, SameIdentity, Sound

LEMMA RefuseFacts ==
    ASSUME NEW k \in ConnectionInstance, NEW b \in BOOLEAN
    PROVE  LET r == Refuse(k, b) IN
           /\ r \in ConnectionInstance
           /\ r.closed = k.closed /\ r.timerEvent = "delay"
           /\ SameIdentity(k, r)
           /\ Sound(r, TRUE)
<1> DEFINE p == StartPing(k, b)
<1>1. p \in ConnectionInstance /\ p.closed = k.closed /\ SameIdentity(k, p)
  BY StartPingFacts
<1>2. LET r == SetDelayClose(p) IN
      /\ r \in ConnectionInstance
      /\ r.closed = p.closed /\ r.timerEvent = "delay"
      /\ SameIdentity(p, r)
      /\ Sound(r, TRUE)
  <2> HIDE DEF p
  <2> QED BY <1>1, SetDelayCloseFacts
<1> QED
  BY <1>1, <1>2 DEF Refuse, SameIdentity

-----------------------------------------------------------------------------
(* Steps that leave the tables alone. *)

\* Steps that leave the connections alone as well.
LEMMA NothingMoves ==
    ASSUME Ownership, UNCHANGED <<con, tables>>
    PROVE  Ownership'
BY DEF Ownership, AllSound, Sound, MapAgrees, StaffAreMapped, Held, Mapped,
       MappedNames, tables

\* Connections that stay where they are owned and keep their identity may
\* change in any sound way.
LEMMA LocalStep ==
    ASSUME TypeOK, Ownership, UNCHANGED tables,
           con' \in [Conn -> ConnectionInstance],
           \A c \in Conn : /\ Sound(con'[c], Held(c))
                           /\ SameIdentity(con[c], con'[c])
                           /\ con'[c].timerEvent # "deleted"
                                => con[c].timerEvent # "deleted"
    PROVE  Ownership'
<1>1. /\ connectionMap' = connectionMap /\ unidentifiedList' = unidentifiedList
      /\ staffCallTargets' = staffCallTargets
  BY DEF tables
<1>2. MappedNames' = MappedNames /\ Mapped' = Mapped
  BY <1>1 DEF MappedNames, Mapped
<1>3. \A c \in Conn : Held(c)' <=> Held(c)
  BY <1>1, <1>2 DEF Held
<1>4. AllSound'
  BY <1>3 DEF AllSound, Sound
<1>5. MapAgrees'
  BY <1>1, <1>2 DEF MapAgrees, Ownership, SameIdentity, TypeOK, Mapped, MappedNames
<1>6. StaffAreMapped'
  BY <1>1, <1>2 DEF StaffAreMapped, Ownership
<1> QED
  BY <1>4, <1>5, <1>6 DEF Ownership

\* In particular one connection may.
LEMMA UpdateOne ==
    ASSUME TypeOK, Ownership, UNCHANGED tables,
           NEW c \in Conn, Held(c),
           NEW r \in ConnectionInstance, con' = [con EXCEPT ![c] = r],
           Sound(r, TRUE), SameIdentity(con[c], r)
    PROVE  con' \in [Conn -> ConnectionInstance] /\ Ownership'
<1>1. con \in [Conn -> ConnectionInstance]
  BY DEF TypeOK
<1>2. con' \in [Conn -> ConnectionInstance]
  BY <1>1
<1>3. con[c].timerEvent # "deleted"
  BY DEF Ownership, AllSound, Sound
<1>4. ASSUME NEW d \in Conn
      PROVE  /\ Sound(con'[d], Held(d))
             /\ SameIdentity(con[d], con'[d])
             /\ con'[d].timerEvent # "deleted" => con[d].timerEvent # "deleted"
  <2>1. CASE d = c
    <3>1. con'[d] = r
      BY <1>1, <2>1
    <3>2. Sound(r, Held(d))
      BY <2>1 DEF Sound
    <3> QED BY <3>1, <3>2, <2>1, <1>3
  <2>2. CASE d # c
    <3>1. con'[d] = con[d]
      BY <1>1, <2>2
    <3> QED BY <3>1 DEF Ownership, AllSound, SameIdentity
  <2> QED BY <2>1, <2>2
<1> QED
  BY <1>2, <1>4, LocalStep

\* u.close on connections of the map.
LEMMA CloseAllStep ==
    ASSUME TypeOK, Ownership, UNCHANGED tables,
           NEW T \in SUBSET Mapped, CloseAll(T)
    PROVE  /\ con' \in [Conn -> ConnectionInstance]
           /\ \A c \in Conn : con'[c].closed = con[c].closed
           /\ Ownership'
<1>1. con \in [Conn -> ConnectionInstance]
  BY DEF TypeOK
<1>2. ASSUME NEW d \in Conn
      PROVE  /\ con'[d] \in ConnectionInstance
             /\ con'[d].closed = con[d].closed
             /\ Sound(con'[d], Held(d))
             /\ SameIdentity(con[d], con'[d])
             /\ con'[d].timerEvent # "deleted" => con[d].timerEvent # "deleted"
  <2>1. CASE d \in T
    <3>1. con'[d] = SetDelayClose(con[d])
      BY <2>1 DEF CloseAll
    <3>2. Held(d)
      BY <2>1 DEF Held
    <3>3. con[d].timerEvent # "deleted"
      BY <3>2 DEF Ownership, AllSound, Sound
    <3>4. con[d] \in ConnectionInstance
      BY <1>1
    <3>5. Sound(con'[d], TRUE)
      BY <3>1, <3>4, SetDelayCloseFacts
    <3>6. Sound(con'[d], Held(d))
      BY <3>2, <3>5 DEF Sound
    <3> QED BY <3>1, <3>3, <3>4, <3>6, SetDelayCloseFacts
  <2>2. CASE d \notin T
    <3>1. con'[d] = con[d]
      BY <2>2 DEF CloseAll
    <3> QED BY <3>1, <1>1 DEF Ownership, AllSound, SameIdentity
  <2> QED BY <2>1, <2>2
<1>3. con' \in [Conn -> ConnectionInstance]
  BY <1>2 DEF CloseAll
<1> QED
  BY <1>2, <1>3, LocalStep

\* An open connection can be marked for a delayed close.
LEMMA OpenUpdate ==
    ASSUME TypeOK, Ownership, UNCHANGED tables,
           NEW c \in Conn, ~con[c].closed,
           NEW r \in ConnectionInstance, con' = [con EXCEPT ![c] = r],
           Sound(r, TRUE), SameIdentity(con[c], r)
    PROVE  con' \in [Conn -> ConnectionInstance] /\ Ownership'
<1>1. Held(c)
  BY DEF Ownership, AllSound, Sound
<1> QED
  BY <1>1, UpdateOne

LEMMA PrepareShutdownStep ==
    ASSUME TypeOK, Ownership, NEW c \in Conn, ~con[c].closed,
           PrepareShutdown(c),
           reader' \in Conn \cup {NoConn}, repeat' \in 0..MaxRepeat
    PROVE  TypeOK' /\ Ownership'
<1>1. con[c] \in ConnectionInstance
  BY DEF TypeOK
<1>2. con' = [con EXCEPT ![c] = MarkClosed(con[c])] /\ UNCHANGED tables
  BY DEF PrepareShutdown
<1>3. con' \in [Conn -> ConnectionInstance] /\ Ownership'
  BY <1>1, <1>2, MarkClosedFacts, OpenUpdate
<1>4. announced' \subseteq Name /\ redisOnline' \subseteq Name
  BY DEF PrepareShutdown, TypeOK, views
<1> QED
  BY <1>3, <1>4 DEF TypeOK, PrepareShutdown, tables

-----------------------------------------------------------------------------
(* Callbacks of the loop outside a read callback. *)

LEMMA AcceptStep ==
    ASSUME IndInv, NEW c \in Conn, ListenCallback(c)
    PROVE  IndInv'
<1>1. PICK a \in Ip : con' = [con EXCEPT ![c] = NewConnection(a)]
  BY DEF ListenCallback
<1> DEFINE r == NewConnection(a)
<1>2. /\ r \in ConnectionInstance /\ ~r.closed /\ ~r.identified
      /\ r.timerEvent = "idle" /\ Sound(r, TRUE)
  BY NewConnectionFacts
<1>3. con \in [Conn -> ConnectionInstance]
  BY DEF IndInv, TypeOK
<1>4. con' \in [Conn -> ConnectionInstance] /\ con'[c] = r
      /\ \A d \in Conn \ {c} : con'[d] = con[d]
  <2> HIDE DEF r
  <2> QED BY <1>1, <1>2, <1>3 DEF r
<1>5. /\ UNCHANGED <<login, connectionMap, connectionCountMap, userCount,
                     staffCallTargets, announced, redisOnline,
                     staffRoomPrivate, reader, repeat>>
      /\ unidentifiedList' = unidentifiedList \cup {c}
      /\ ~Held(c)
      /\ reader = NoConn
  BY DEF ListenCallback, views, loopState, Referenced, InLoop
<1>6. TypeOK'
  BY <1>4, <1>5 DEF IndInv, TypeOK
<1>7. Mapped' = Mapped /\ MappedNames' = MappedNames
  BY <1>5 DEF Mapped, MappedNames
<1>8. \A d \in Conn : Held(d)' <=> d = c \/ Held(d)
  BY <1>5, <1>7 DEF Held
<1>9. AllSound'
  BY <1>2, <1>4, <1>8 DEF AllSound, Sound, IndInv, Ownership
<1>10. MapAgrees'
  <2>1. c \notin Mapped
    BY <1>5 DEF Held
  <2>2. \A n \in MappedNames : connectionMap[n] # c /\ connectionMap[n] \in Conn
    BY <2>1 DEF Mapped, MappedNames, IndInv, TypeOK
  <2> QED BY <1>2, <1>4, <1>5, <1>7, <2>1, <2>2 DEF MapAgrees, IndInv, Ownership
<1>11. StaffAreMapped'
  BY <1>5, <1>7 DEF StaffAreMapped, IndInv, Ownership
<1> QED
  BY <1>5, <1>6, <1>9, <1>10, <1>11 DEF IndInv, Ownership, ReaderIsOpen

LEMMA HandshakeStep ==
    ASSUME IndInv, NEW c \in Conn, HandshakeDone(c)
    PROVE  IndInv'
<1>1. PICK a \in Ip :
        con' = [con EXCEPT ![c].clientAddress = a, ![c].readEvent = "read"]
  BY DEF HandshakeDone
<1> DEFINE r == [con[c] EXCEPT !.clientAddress = a, !.readEvent = "read"]
<1>2. con[c] \in ConnectionInstance /\ con \in [Conn -> ConnectionInstance]
  BY DEF IndInv, TypeOK
<1>3. Sound(con[c], Held(c)) /\ ~con[c].closed
      /\ con[c].readEvent = "handshake"
  BY DEF IndInv, Ownership, AllSound, HandshakeDone
<1>4. r \in ConnectionInstance /\ Sound(r, TRUE) /\ SameIdentity(con[c], r)
  BY <1>2, <1>3 DEF ConnectionInstance, ReadEvent, Timer, Sound, SameIdentity
<1>5. con' = [con EXCEPT ![c] = r]
  BY <1>1, <1>2
<1>6. con' \in [Conn -> ConnectionInstance] /\ Ownership'
  <2>1. UNCHANGED tables
    BY DEF HandshakeDone
  <2> HIDE DEF r
  <2> QED BY <1>3, <1>4, <1>5, <2>1, OpenUpdate DEF IndInv
<1> QED
  BY <1>6 DEF HandshakeDone, IndInv, TypeOK, ReaderIsOpen, InLoop, tables,
              views, loopState

\* The failures and time-outs that close a connection from the loop.
LEMMA LoopShutdownStep ==
    ASSUME IndInv, NEW c \in Conn, ~con[c].closed, InLoop,
           PrepareShutdown(c), UNCHANGED loopState
    PROVE  IndInv'
<1>1. reader' = reader /\ repeat' = repeat /\ reader = NoConn
  BY DEF loopState, InLoop
<1>2. TypeOK' /\ Ownership'
  BY <1>1, PrepareShutdownStep DEF IndInv, TypeOK
<1> QED
  BY <1>1, <1>2 DEF IndInv, ReaderIsOpen

LEMMA SocketSteps ==
    ASSUME IndInv, NEW c \in Conn, SocketStep(c)
    PROVE  IndInv'
<1>1. CASE ListenCallback(c)
  BY <1>1, AcceptStep
<1>2. CASE HandshakeDone(c)
  BY <1>2, HandshakeStep
<1>3. CASE HandshakeFailed(c) \/ ReadFailed(c) \/ WriteFailed(c)
  BY <1>3, LoopShutdownStep DEF HandshakeFailed, ReadFailed, WriteFailed
<1>4. CASE ReadCallback(c)
  <2>1. /\ UNCHANGED <<con, login, tables, views, staffRoomPrivate>>
        /\ reader' = c /\ repeat' = MaxRepeat /\ ~con[c].closed
    BY <1>4 DEF ReadCallback
  <2>2. Ownership'
    BY <2>1, NothingMoves DEF IndInv
  <2> QED
    BY <2>1, <2>2, LimitAssumption DEF IndInv, TypeOK, ReaderIsOpen, tables, views
<1> QED
  BY <1>1, <1>2, <1>3, <1>4 DEF SocketStep

-----------------------------------------------------------------------------
(* Commands. *)

\* A command that changes the reader only.
LEMMA ReaderUpdate ==
    ASSUME IndInv, NextCommand, UNCHANGED <<tables, views, staffRoomPrivate>>,
           login' \in [Conn -> {"none", "queued", "sent", "replied", "leaked"}],
           NEW r \in ConnectionInstance, con' = [con EXCEPT ![reader] = r],
           Sound(r, TRUE), SameIdentity(con[reader], r),
           r.closed = con[reader].closed
    PROVE  IndInv'
<1>1. reader \in Conn /\ ~con[reader].closed /\ reader' = reader
      /\ repeat' \in 0..MaxRepeat
  BY LimitAssumption DEF NextCommand, InLoop, IndInv, TypeOK, ReaderIsOpen
<1>2. con' \in [Conn -> ConnectionInstance] /\ Ownership'
  BY <1>1, OpenUpdate DEF IndInv
<1>3. ~con'[reader].closed
  BY <1>1 DEF IndInv, TypeOK
<1> QED
  BY <1>1, <1>2, <1>3 DEF IndInv, TypeOK, ReaderIsOpen, tables, views

LEMMA CommandSteps ==
    ASSUME IndInv, CommandStep
    PROVE  IndInv'
<1>1. CASE ReadReturn
  <2>1. Ownership'
    BY <1>1, NothingMoves DEF ReadReturn, IndInv
  <2> QED
    BY <1>1, <2>1, LimitAssumption
       DEF ReadReturn, IndInv, TypeOK, ReaderIsOpen, tables, views
<1>2. CASE ReadClose
  <2>1. reader \in Conn /\ ~con[reader].closed
    BY <1>2 DEF ReadClose, InLoop, IndInv, TypeOK, ReaderIsOpen
  <2>2. PrepareShutdown(reader) /\ reader' = NoConn /\ repeat' \in 0..MaxRepeat
    BY <1>2, LimitAssumption DEF ReadClose
  <2>3. TypeOK' /\ Ownership'
    BY <2>1, <2>2, PrepareShutdownStep DEF IndInv
  <2> QED BY <2>2, <2>3 DEF IndInv, ReaderIsOpen
<1>3. ASSUME NextCommand
      PROVE  /\ reader \in Conn /\ ~con[reader].closed
             /\ con[reader] \in ConnectionInstance
             /\ Sound(con[reader], TRUE)
  <2>1. reader \in Conn /\ ~con[reader].closed
        /\ con[reader] \in ConnectionInstance
    BY <1>3 DEF NextCommand, InLoop, IndInv, TypeOK, ReaderIsOpen
  <2> QED
    BY <2>1 DEF IndInv, Ownership, AllSound, Sound
<1>4. CASE IdentCommand
  <2> DEFINE r == [con[reader] EXCEPT !.authStarted = TRUE]
  <2>1. NextCommand
    BY <1>4 DEF IdentCommand
  <2>2. r \in ConnectionInstance /\ Sound(r, TRUE)
        /\ SameIdentity(con[reader], r) /\ r.closed = con[reader].closed
    BY <2>1, <1>3 DEF ConnectionInstance, Sound, SameIdentity
  <2>3. con' = [con EXCEPT ![reader] = r]
    BY <1>4, <2>1, <1>3 DEF IdentCommand, IndInv, TypeOK
  <2>4. UNCHANGED <<tables, views, staffRoomPrivate>>
        /\ login' \in [Conn -> {"none", "queued", "sent", "replied", "leaked"}]
    BY <1>4 DEF IdentCommand, IndInv, TypeOK
  <2> HIDE DEF r
  <2> QED BY <2>1, <2>2, <2>3, <2>4, ReaderUpdate
<1>5. CASE IdentCommandRefused
  <2> DEFINE p == SetDelayClose(con[reader])
             r == [p EXCEPT !.authStarted = TRUE]
  <2>1. NextCommand
    BY <1>5 DEF IdentCommandRefused
  <2>2. p \in ConnectionInstance /\ Sound(p, TRUE)
        /\ SameIdentity(con[reader], p) /\ p.closed = con[reader].closed
    BY <2>1, <1>3, SetDelayCloseFacts
  <2>3. r \in ConnectionInstance /\ Sound(r, TRUE)
        /\ SameIdentity(con[reader], r) /\ r.closed = con[reader].closed
    <3> HIDE DEF p
    <3> QED BY <2>2 DEF ConnectionInstance, Sound, SameIdentity
  <2>4. con' = [con EXCEPT ![reader] = r]
    BY <1>5 DEF IdentCommandRefused
  <2>5. UNCHANGED <<login, tables, views, staffRoomPrivate>>
    BY <1>5 DEF IdentCommandRefused
  <2> HIDE DEF r
  <2> QED BY <2>1, <2>3, <2>4, <2>5, ReaderUpdate DEF IndInv, TypeOK
<1>6. CASE CommandRequiresIdent
  <2>1. NextCommand /\ con' = [con EXCEPT ![reader] = SetDelayClose(con[reader])]
        /\ UNCHANGED <<login, tables, views, staffRoomPrivate>>
    BY <1>6 DEF CommandRequiresIdent
  <2> QED
    BY <2>1, <1>3, SetDelayCloseFacts, ReaderUpdate DEF IndInv, TypeOK
<1>7. CASE CommandOther \/ CommandResetStaffRoom
  <2>1. NextCommand /\ UNCHANGED <<con, login, tables, views>>
        /\ staffRoomPrivate' \in BOOLEAN
    BY <1>7 DEF CommandOther, CommandResetStaffRoom, IndInv, TypeOK
  <2>2. Ownership'
    BY <2>1, NothingMoves DEF IndInv
  <2>3. reader' = reader /\ repeat' \in 0..MaxRepeat
    BY <2>1, LimitAssumption DEF NextCommand, IndInv, TypeOK
  <2> QED
    BY <2>1, <2>2, <2>3 DEF IndInv, TypeOK, ReaderIsOpen, tables, views
<1> QED
  BY <1>1, <1>2, <1>4, <1>5, <1>6, <1>7 DEF CommandStep

LEMMA KickSteps ==
    ASSUME IndInv, NEW T \in SUBSET Mapped, KickStep(T)
    PROVE  IndInv'
<1>1. CloseAll(T) /\ UNCHANGED <<login, tables, views, staffRoomPrivate>>
  BY DEF KickStep, CommandCloses, RtbCloses
<1>2. /\ con' \in [Conn -> ConnectionInstance]
      /\ \A c \in Conn : con'[c].closed = con[c].closed
      /\ Ownership'
  BY <1>1, CloseAllStep DEF IndInv
<1>3. reader' = reader /\ repeat' \in 0..MaxRepeat
  BY LimitAssumption
     DEF KickStep, CommandCloses, RtbCloses, NextCommand, loopState, IndInv, TypeOK
<1> QED
  BY <1>1, <1>2, <1>3 DEF IndInv, TypeOK, ReaderIsOpen, tables, views

-----------------------------------------------------------------------------
(* Timers. *)

\* What the map says of an identified connection that still has its events.
LEMMA OnlyName ==
    ASSUME TypeOK, Ownership, NEW c \in Conn, NEW n \in Name
    PROVE  connectionMap[n] = c =>
               con[c].identified /\ con[c].characterName = n
BY SentinelAssumption DEF Ownership, MapAgrees, MappedNames, TypeOK

\* Clean-up: in both cases c, and nothing else, is no longer owned.
LEMMA ReapTables ==
    ASSUME IndInv, NEW c \in Conn, TimerReaps(c)
    PROVE  /\ \A d \in Conn : Held(d)' <=> Held(d) /\ d # c
           /\ Mapped' = Mapped \ {c} /\ unidentifiedList' \subseteq unidentifiedList
           /\ \A n \in Name : connectionMap'[n] = IF connectionMap[n] = c
                                                   THEN NoConn ELSE connectionMap[n]
           /\ connectionMap' \in [Name -> Conn \cup {NoConn}]
           /\ connectionCountMap' \in [Ip -> Nat]
           /\ userCount' \in Int
           /\ staffCallTargets' \subseteq staffCallTargets \ {c}
<1>1. /\ con \in [Conn -> ConnectionInstance] /\ con[c] \in ConnectionInstance
      /\ connectionMap \in [Name -> Conn \cup {NoConn}]
  BY DEF IndInv, TypeOK
<1>2. Held(c) /\ con[c].timerEvent # "deleted"
  BY DEF IndInv, Ownership, AllSound, Sound, TimerReaps, Armed
<1>3. CASE con[c].identified
  <2> DEFINE n == con[c].characterName
  <2>1. n \in Name /\ connectionMap[n] = c /\ c # NoConn
        /\ c \notin unidentifiedList
    <3>1. n \in Name /\ connectionMap[n] = c
      BY <1>2, <1>3 DEF IndInv, Ownership, MapAgrees
    <3>2. c \in Mapped
      BY <3>1, SentinelAssumption DEF Mapped, MappedNames
    <3> QED
      BY <3>1, <3>2, SentinelAssumption DEF IndInv, Ownership, MapAgrees
  <2>2. RemoveConnection(n) /\ unidentifiedList' = unidentifiedList
    BY <1>3 DEF TimerReaps
  <2>3. /\ connectionMap' = [connectionMap EXCEPT ![n] = NoConn]
        /\ connectionCountMap' = CountMinus(connectionCountMap, con[c].clientAddress)
        /\ userCount' = userCount - 1
        /\ staffCallTargets' = staffCallTargets \ {c}
    BY <2>1, <2>2 DEF RemoveConnection
  <2>4. \A m \in Name : connectionMap[m] = c <=> m = n
    BY <2>1, OnlyName DEF IndInv
  <2>5. \A m \in Name : connectionMap'[m] = IF connectionMap[m] = c
                                             THEN NoConn ELSE connectionMap[m]
    BY <1>1, <2>1, <2>3, <2>4
  <2>6. Mapped' = Mapped \ {c}
    BY <2>1, <2>5 DEF Mapped, MappedNames
  <2>7. \A d \in Conn : Held(d)' <=> Held(d) /\ d # c
    BY <2>1, <2>2, <2>6 DEF Held
  <2>8. connectionCountMap' \in [Ip -> Nat] /\ userCount' \in Int
    BY <2>3, <1>1 DEF CountMinus, IndInv, TypeOK, ConnectionInstance
  <2>9. connectionMap' \in [Name -> Conn \cup {NoConn}]
    BY <2>3, <1>1
  <2> QED BY <2>2, <2>3, <2>5, <2>6, <2>7, <2>8, <2>9
<1>4. CASE ~con[c].identified
  <2>1. unidentifiedList' = unidentifiedList \ {c}
        /\ UNCHANGED <<connectionMap, connectionCountMap, userCount,
                       staffCallTargets>>
    BY <1>4 DEF TimerReaps
  <2>2. \A m \in Name : connectionMap[m] # c
    BY <1>4, OnlyName DEF IndInv
  <2>3. c \notin Mapped /\ Mapped' = Mapped
    BY <2>1, <2>2 DEF Mapped, MappedNames
  <2>4. c \notin staffCallTargets
    BY <2>3 DEF IndInv, Ownership, StaffAreMapped
  <2> QED BY <2>1, <2>2, <2>3, <2>4 DEF Held, IndInv, TypeOK
<1> QED BY <1>3, <1>4

LEMMA ReapStep ==
    ASSUME IndInv, NEW c \in Conn, TimerReaps(c)
    PROVE  IndInv'
<1>1. /\ con \in [Conn -> ConnectionInstance] /\ con[c] \in ConnectionInstance
      /\ connectionMap \in [Name -> Conn \cup {NoConn}]
  BY DEF IndInv, TypeOK
<1> DEFINE r == DeleteEvents(con[c])
<1>2. /\ r \in ConnectionInstance /\ r.closed /\ r.timerEvent = "deleted"
      /\ Sound(r, FALSE)
  BY <1>1, DeleteEventsFacts DEF TimerReaps
<1>3. con' = [con EXCEPT ![c] = r]
  BY DEF TimerReaps
<1>4. con' \in [Conn -> ConnectionInstance] /\ con'[c] = r
      /\ \A d \in Conn \ {c} : con'[d] = con[d]
  <2> HIDE DEF r
  <2> QED BY <1>1, <1>2, <1>3
<1>5. Held(c) /\ con[c].timerEvent # "deleted"
  BY DEF IndInv, Ownership, AllSound, Sound, TimerReaps, Armed
<1>6. UNCHANGED <<login, announced, redisOnline, staffRoomPrivate, reader, repeat>>
      /\ reader = NoConn
  BY DEF TimerReaps, views, loopState, InLoop
<1>7. /\ \A d \in Conn : Held(d)' <=> Held(d) /\ d # c
      /\ Mapped' = Mapped \ {c} /\ unidentifiedList' \subseteq unidentifiedList
      /\ \A n \in Name : connectionMap'[n] = IF connectionMap[n] = c
                                              THEN NoConn ELSE connectionMap[n]
      /\ connectionMap' \in [Name -> Conn \cup {NoConn}]
      /\ connectionCountMap' \in [Ip -> Nat]
      /\ userCount' \in Int
      /\ staffCallTargets' \subseteq staffCallTargets \ {c}
  BY ReapTables
<1>8. TypeOK'
  BY <1>4, <1>6, <1>7 DEF IndInv, TypeOK
<1>9. AllSound'
  <2> HIDE DEF r
  <2> QED BY <1>2, <1>4, <1>7 DEF AllSound, Sound, IndInv, Ownership
<1>10. MapAgrees'
  <2>1. \A m \in MappedNames' : m \in MappedNames
                                /\ connectionMap'[m] = connectionMap[m]
                                /\ connectionMap[m] # c
    BY <1>7 DEF MappedNames
  <2>2. \A m \in MappedNames : connectionMap[m] \in Conn
    BY <1>1 DEF MappedNames
  <2>3. \A m \in MappedNames' :
            LET k == con'[connectionMap'[m]] IN k.identified /\ k.characterName = m
    BY <2>1, <2>2, <1>4 DEF IndInv, Ownership, MapAgrees
  <2>4. ASSUME NEW d \in Conn, con'[d].identified, con'[d].timerEvent # "deleted"
        PROVE  /\ con'[d].characterName \in Name
               /\ connectionMap'[con'[d].characterName] = d
    <3>1. d # c
      BY <2>4, <1>2, <1>4
    <3>2. /\ con'[d] = con[d] /\ con[d].characterName \in Name
          /\ connectionMap[con[d].characterName] = d
      BY <3>1, <2>4, <1>4 DEF IndInv, Ownership, MapAgrees
    <3> QED BY <3>1, <3>2, <1>7
  <2>5. Mapped' \cap unidentifiedList' = {}
    BY <1>7 DEF IndInv, Ownership, MapAgrees
  <2> QED BY <2>3, <2>4, <2>5 DEF MapAgrees
<1>11. StaffAreMapped'
  BY <1>7 DEF StaffAreMapped, IndInv, Ownership
<1> QED
  BY <1>6, <1>8, <1>9, <1>10, <1>11 DEF IndInv, Ownership, ReaderIsOpen

LEMMA TimerSteps ==
    ASSUME IndInv, NEW c \in Conn, TimerStep(c)
    PROVE  IndInv'
<1>1. CASE TimerReaps(c)
  BY <1>1, ReapStep
<1>2. CASE TimerDelayOver(c) \/ TimerIdleOver(c)
  BY <1>2, LoopShutdownStep DEF TimerDelayOver, TimerIdleOver
<1>3. CASE TimerStops(c)
  <2> DEFINE r == [con[c] EXCEPT !.timerEvent = "stopped"]
  <2>1. con[c] \in ConnectionInstance /\ con \in [Conn -> ConnectionInstance]
    BY DEF IndInv, TypeOK
  <2>2. Sound(con[c], TRUE) /\ ~con[c].closed /\ ~con[c].delayClose
    BY <1>3 DEF IndInv, Ownership, AllSound, TimerStops, Sound
  <2>3. r \in ConnectionInstance /\ Sound(r, TRUE) /\ SameIdentity(con[c], r)
    BY <2>1, <2>2 DEF ConnectionInstance, Timer, Sound, SameIdentity
  <2>4. con' = [con EXCEPT ![c] = r] /\ UNCHANGED tables
    BY <1>3, <2>1 DEF TimerStops
  <2>5. con' \in [Conn -> ConnectionInstance] /\ Ownership'
    <3> HIDE DEF r
    <3> QED BY <2>2, <2>3, <2>4, OpenUpdate DEF IndInv
  <2> QED
    BY <1>3, <2>5 DEF TimerStops, IndInv, TypeOK, ReaderIsOpen, InLoop,
                      tables, views, loopState
<1> QED
  BY <1>1, <1>2, <1>3 DEF TimerStep

LEMMA LoginThreadSteps ==
    ASSUME IndInv, NEW c \in Conn, LoginThreadStep(c)
    PROVE  IndInv'
<1>1. /\ UNCHANGED <<con, tables, views, staffRoomPrivate, loopState>>
      /\ login' \in [Conn -> {"none", "queued", "sent", "replied", "leaked"}]
  BY DEF LoginThreadStep, LoginThreadTakes, LoginThreadReplies,
         LoginThreadLeaks, HttpClientDrops, IndInv, TypeOK
<1>2. Ownership'
  BY <1>1, NothingMoves DEF IndInv
<1> QED
  BY <1>1, <1>2 DEF IndInv, TypeOK, ReaderIsOpen, tables, views, loopState

-----------------------------------------------------------------------------
(* Login replies. *)

\* The eviction changes nothing but the old connection, which stays sound.
LEMMA EvictedFacts ==
    ASSUME IndInv, NEW n \in Name
    PROVE  /\ Evicted(n) \in [Conn -> ConnectionInstance]
           /\ \A d \in Conn :
                /\ Evicted(n)[d].closed = con[d].closed
                /\ Sound(Evicted(n)[d], Held(d))
                /\ d = Old(n) => ~Evicted(n)[d].identified
                /\ d # Old(n) => Evicted(n)[d] = con[d]
<1>1. con \in [Conn -> ConnectionInstance]
  BY DEF IndInv, TypeOK
<1>2. ASSUME NEW d \in Conn
      PROVE  /\ Evicted(n)[d] \in ConnectionInstance
             /\ Evicted(n)[d].closed = con[d].closed
             /\ Sound(Evicted(n)[d], Held(d))
             /\ d = Old(n) => ~Evicted(n)[d].identified
             /\ d # Old(n) => Evicted(n)[d] = con[d]
  <2>1. CASE d = Old(n)
    <3>1. Evicted(n)[d] = Closef(con[d])
      BY <2>1 DEF Evicted
    <3>2. Held(d)
      BY <2>1, SentinelAssumption DEF Old, Held, Mapped, MappedNames
    <3>3. con[d] \in ConnectionInstance
      BY <1>1
    <3>4. Sound(Evicted(n)[d], TRUE)
      BY <3>1, <3>3, ClosefFacts
    <3>5. Sound(Evicted(n)[d], Held(d))
      BY <3>2, <3>4 DEF Sound
    <3> QED BY <2>1, <3>1, <3>3, <3>5, ClosefFacts
  <2>2. CASE d # Old(n)
    <3>1. Evicted(n)[d] = con[d]
      BY <2>2 DEF Evicted
    <3> QED BY <3>1, <2>2, <1>1 DEF IndInv, Ownership, AllSound
  <2> QED BY <2>1, <2>2
<1> QED
  BY <1>2 DEF Evicted

LEMMA EvictedTables ==
    ASSUME IndInv, NEW n \in Name
    PROVE  /\ EvictedCounts(n) \in [Ip -> Nat] /\ EvictedUsers(n) \in Int
           /\ EvictedUnidentified(n) = unidentifiedList \cup ({Old(n)} \cap Conn)
           /\ EvictedStaff(n) \subseteq Conn
           /\ Old(n) \in Conn \cup {NoConn}
           /\ \A m \in Name : connectionMap[m] = Old(n) /\ m # n => Old(n) = NoConn
<1>1. Old(n) \in Conn \cup {NoConn}
  BY DEF Old, IndInv, TypeOK
<1>2. Old(n) # NoConn => con[Old(n)].clientAddress \in Ip
  BY <1>1 DEF IndInv, TypeOK, ConnectionInstance
<1>3. \A m \in Name : connectionMap[m] = Old(n) /\ m # n => Old(n) = NoConn
  BY <1>1, OnlyName DEF Old, IndInv
<1> QED
  BY <1>1, <1>2, <1>3, SentinelAssumption
     DEF EvictedCounts, CountMinus, EvictedUsers, EvictedUnidentified,
         EvictedStaff, IndInv, TypeOK

\* The reply leaves alone what it does not mention.
LEMMA ReplyFrame ==
    ASSUME IndInv, NEW c \in Conn, TakeReply(c)
    PROVE  /\ reader = NoConn /\ reader' = reader /\ repeat' = repeat
           /\ staffRoomPrivate' = staffRoomPrivate
           /\ login' \in [Conn -> {"none", "queued", "sent", "replied", "leaked"}]
BY DEF TakeReply, InLoop, loopState, IndInv, TypeOK

\* Replies that change no table.
LEMMA EarlyReplySteps ==
    ASSUME IndInv, NEW c \in Conn,
           \/ ReplyTooLate(c)
           \/ \E returned \in BOOLEAN : LoginRefused(c, returned)
           \/ \E n \in Name : LoginAbortedInEviction(c, n)
    PROVE  IndInv'
<1>1. con[c] \in ConnectionInstance
  BY DEF IndInv, TypeOK
<1>2. CASE ReplyTooLate(c)
  <2>1. Ownership'
    BY <1>2, NothingMoves DEF ReplyTooLate, IndInv
  <2> QED
    BY <1>2, <2>1, ReplyFrame
       DEF ReplyTooLate, IndInv, TypeOK, ReaderIsOpen, tables, views
<1>3. CASE ~ReplyTooLate(c)
  <2>1. PICK b \in BOOLEAN :
            /\ con' = [con EXCEPT ![c] = Refuse(con[c], b)]
            /\ TakeReply(c) /\ ~con[c].closed /\ UNCHANGED tables
            /\ announced' \subseteq announced /\ redisOnline' = redisOnline
    BY <1>3 DEF LoginRefused, LoginAbortedInEviction, MayProceed, views
  <2>2. con' \in [Conn -> ConnectionInstance] /\ Ownership'
    BY <2>1, <1>1, RefuseFacts, OpenUpdate DEF IndInv
  <2> QED
    BY <2>1, <2>2, ReplyFrame DEF IndInv, TypeOK, ReaderIsOpen, tables
<1> QED
  BY <1>2, <1>3

\* The eviction takes the name n from its owner, whom a table still owns.
LEMMA EvictionTables ==
    ASSUME IndInv, NEW c \in Conn, NEW n \in Name, NEW b \in BOOLEAN,
           LoginRefusedAfterEviction(c, n, b)
    PROVE  /\ \A m \in Name : connectionMap'[m] = IF m = n THEN NoConn
                                                   ELSE connectionMap[m]
           /\ \A m \in MappedNames' : m \in MappedNames /\ m # n
                                      /\ connectionMap[m] # Old(n)
                                      /\ connectionMap[m] \in Conn
                                      /\ connectionMap'[m] = connectionMap[m]
           /\ Mapped' = Mapped \ {Old(n)}
           /\ \A d \in Conn : Held(d)' <=> Held(d)
<1>1. /\ connectionMap' = [connectionMap EXCEPT ![n] = NoConn]
      /\ unidentifiedList' = unidentifiedList \cup ({Old(n)} \cap Conn)
  BY EvictedTables DEF LoginRefusedAfterEviction
<1>2. connectionMap \in [Name -> Conn \cup {NoConn}]
  BY DEF IndInv, TypeOK
<1>3. /\ \A m \in Name : connectionMap'[m] = IF m = n THEN NoConn
                                              ELSE connectionMap[m]
      /\ \A m \in MappedNames' : m \in MappedNames /\ m # n
                                 /\ connectionMap[m] # Old(n)
                                 /\ connectionMap[m] \in Conn
                                 /\ connectionMap'[m] = connectionMap[m]
      /\ Mapped' = Mapped \ {Old(n)}
  <2>1. \A m \in Name : connectionMap'[m] = IF m = n THEN NoConn
                                             ELSE connectionMap[m]
    BY <1>1, <1>2
  <2>2. \A m \in Name : connectionMap[m] = Old(n) /\ m # n => Old(n) = NoConn
    BY EvictedTables
  <2>3. \A m \in MappedNames' : m \in MappedNames /\ m # n
                                /\ connectionMap[m] # Old(n)
                                /\ connectionMap[m] \in Conn
                                /\ connectionMap'[m] = connectionMap[m]
    BY <2>1, <2>2, <1>2 DEF MappedNames
  <2>4. \A m \in MappedNames : m # n => m \in MappedNames'
    BY <2>1 DEF MappedNames
  <2>5. Mapped' \subseteq Mapped \ {Old(n)}
    BY <2>3 DEF Mapped
  <2>6. ASSUME NEW d \in Mapped, d # Old(n) PROVE d \in Mapped'
    <3>1. PICK m \in MappedNames : connectionMap[m] = d
      BY DEF Mapped
    <3>2. m # n /\ m \in MappedNames' /\ connectionMap'[m] = d
      BY <3>1, <2>6, <2>4, <2>3 DEF Old
    <3> QED BY <3>2 DEF Mapped
  <2> QED BY <2>1, <2>3, <2>5, <2>6
<1>4. \A d \in Conn : Held(d)' <=> Held(d)
  <2>1. Old(n) \in Conn => Held(Old(n))
    BY SentinelAssumption DEF Old, Held, Mapped, MappedNames
  <2> QED BY <1>1, <1>3, <2>1 DEF Held
<1> QED
  BY <1>3, <1>4

LEMMA RefusedAfterEvictionStep ==
    ASSUME IndInv, NEW c \in Conn, NEW n \in Name, NEW b \in BOOLEAN,
           LoginRefusedAfterEviction(c, n, b)
    PROVE  IndInv'
<1> DEFINE E == Evicted(n)
           r == Refuse(E[c], b)
<1>1. /\ E \in [Conn -> ConnectionInstance]
      /\ \A d \in Conn :
            /\ E[d].closed = con[d].closed
            /\ Sound(E[d], Held(d))
            /\ d = Old(n) => ~E[d].identified
            /\ d # Old(n) => E[d] = con[d]
  BY EvictedFacts
<1>2. r \in ConnectionInstance /\ r.timerEvent = "delay" /\ Sound(r, TRUE)
      /\ SameIdentity(E[c], r)
  <2> HIDE DEF E
  <2> QED BY <1>1, RefuseFacts
<1>3. con' \in [Conn -> ConnectionInstance] /\ con'[c] = r
      /\ \A d \in Conn \ {c} : con'[d] = E[d]
  <2>1. con' = [E EXCEPT ![c] = r]
    BY DEF LoginRefusedAfterEviction
  <2> HIDE DEF E, r
  <2> QED BY <1>1, <1>2, <2>1
<1> HIDE DEF E, r
<1>4. TakeReply(c) /\ ~con[c].closed /\ redisOnline' = redisOnline
      /\ connectionMap' = [connectionMap EXCEPT ![n] = NoConn]
      /\ unidentifiedList' = unidentifiedList \cup ({Old(n)} \cap Conn)
      /\ staffCallTargets' = staffCallTargets \ {Old(n)}
      /\ connectionCountMap' \in [Ip -> Nat] /\ userCount' \in Int
      /\ announced' \subseteq announced
  BY EvictedTables DEF LoginRefusedAfterEviction, MayProceed, EvictedStaff
<1>5. connectionMap \in [Name -> Conn \cup {NoConn}]
  BY DEF IndInv, TypeOK
<1>6. /\ \A m \in Name : connectionMap'[m] = IF m = n THEN NoConn
                                              ELSE connectionMap[m]
      /\ \A m \in MappedNames' : m \in MappedNames /\ m # n
                                 /\ connectionMap[m] # Old(n)
                                 /\ connectionMap[m] \in Conn
                                 /\ connectionMap'[m] = connectionMap[m]
      /\ Mapped' = Mapped \ {Old(n)}
  BY EvictionTables
<1>7. \A d \in Conn : Held(d)' <=> Held(d)
  BY EvictionTables
<1>8. Held(c)
  BY <1>4 DEF IndInv, Ownership, AllSound, Sound
<1>9. TypeOK'
  <2>1. connectionMap' \in [Name -> Conn \cup {NoConn}]
    BY <1>4, <1>5
  <2> QED
    BY <1>3, <1>4, <2>1, ReplyFrame, SentinelAssumption DEF IndInv, TypeOK
<1>10. AllSound'
  BY <1>1, <1>2, <1>3, <1>7, <1>8 DEF AllSound, Sound
<1>11. MapAgrees'
  <2>1. \A m \in MappedNames' :
            LET k == con'[connectionMap'[m]] IN k.identified /\ k.characterName = m
    <3> SUFFICES ASSUME NEW m \in MappedNames'
                 PROVE  con'[connectionMap'[m]].identified
                        /\ con'[connectionMap'[m]].characterName = m
      OBVIOUS
    <3> DEFINE d == connectionMap[m]
    <3>1. d \in Conn /\ d # Old(n) /\ connectionMap'[m] = d /\ m \in MappedNames
      BY <1>6
    <3>2. con[d].identified /\ con[d].characterName = m
      BY <3>1 DEF IndInv, Ownership, MapAgrees
    <3>3. SameIdentity(con[d], con'[d])
      BY <3>1, <1>1, <1>2, <1>3 DEF SameIdentity
    <3> QED BY <3>1, <3>2, <3>3 DEF SameIdentity
  <2>2. ASSUME NEW d \in Conn, con'[d].identified, con'[d].timerEvent # "deleted"
        PROVE  /\ con'[d].characterName \in Name
               /\ connectionMap'[con'[d].characterName] = d
    <3>1. E[d].identified /\ E[d].characterName = con'[d].characterName
      BY <2>2, <1>2, <1>3 DEF SameIdentity
    <3>2. d # Old(n) /\ E[d] = con[d]
      BY <3>1, <1>1
    <3>3. con[d].timerEvent # "deleted"
      BY <2>2, <3>2, <1>3, <1>8 DEF IndInv, Ownership, AllSound, Sound
    <3>4. con[d].characterName \in Name
          /\ connectionMap[con[d].characterName] = d
      BY <3>1, <3>2, <3>3 DEF IndInv, Ownership, MapAgrees
    <3>5. con[d].characterName # n
      BY <3>2, <3>4 DEF Old
    <3> QED BY <3>1, <3>2, <3>4, <3>5, <1>6
  <2>3. Mapped' \cap unidentifiedList' = {}
    BY <1>4, <1>6 DEF IndInv, Ownership, MapAgrees
  <2> QED BY <2>1, <2>2, <2>3 DEF MapAgrees
<1>12. StaffAreMapped'
  BY <1>4, <1>6 DEF StaffAreMapped, IndInv, Ownership
<1> QED
  BY <1>9, <1>10, <1>11, <1>12, ReplyFrame, <1>4
     DEF IndInv, Ownership, ReaderIsOpen

\* c takes the name n, whose owner a table still owns; nobody else moves.
LEMMA IdentifyTables ==
    ASSUME IndInv, NEW c \in Conn, NEW n \in Name, NEW staff \in BOOLEAN,
           NEW k, Identify(c, n, k, staff)
    PROVE  /\ c # Old(n) /\ \A m \in Name : connectionMap[m] # c
           /\ connectionMap'[n] = c
           /\ \A m \in MappedNames' : m # n => /\ m \in MappedNames
                                                /\ connectionMap[m] \in Conn
                                                /\ connectionMap[m] # Old(n)
                                                /\ connectionMap[m] # c
                                                /\ connectionMap'[m] = connectionMap[m]
           /\ Mapped' = (Mapped \ {Old(n)}) \cup {c}
           /\ \A d \in Conn : Held(d)' <=> Held(d)
<1>1. /\ ~con[c].closed /\ ~con[c].identified
      /\ connectionMap' = [connectionMap EXCEPT ![n] = c]
      /\ unidentifiedList' = (unidentifiedList \cup ({Old(n)} \cap Conn)) \ {c}
  BY EvictedTables DEF Identify, MayProceed
<1>2. connectionMap \in [Name -> Conn \cup {NoConn}]
      /\ connectionMap' \in [Name -> Conn \cup {NoConn}]
  BY <1>1 DEF IndInv, TypeOK
<1>3. c # Old(n) /\ \A m \in Name : connectionMap[m] # c
  BY <1>1, OnlyName DEF IndInv, Old
<1>4. /\ connectionMap'[n] = c
      /\ \A m \in MappedNames' : m # n => /\ m \in MappedNames
                                           /\ connectionMap[m] \in Conn
                                           /\ connectionMap[m] # Old(n)
                                           /\ connectionMap[m] # c
                                           /\ connectionMap'[m] = connectionMap[m]
      /\ Mapped' = (Mapped \ {Old(n)}) \cup {c}
  <2>1. \A m \in Name : connectionMap'[m] = IF m = n THEN c
                                             ELSE connectionMap[m]
    BY <1>1, <1>2
  <2>2. \A m \in Name : connectionMap[m] = Old(n) /\ m # n => Old(n) = NoConn
    BY EvictedTables
  <2>3. \A m \in MappedNames' : m # n => /\ m \in MappedNames
                                          /\ connectionMap[m] \in Conn
                                          /\ connectionMap[m] # Old(n)
                                          /\ connectionMap[m] # c
                                          /\ connectionMap'[m] = connectionMap[m]
    BY <2>1, <2>2, <1>2, <1>3 DEF MappedNames
  <2>4. n \in MappedNames'
    BY <2>1, SentinelAssumption DEF MappedNames
  <2>5. \A m \in MappedNames : m # n => m \in MappedNames'
    BY <2>1 DEF MappedNames
  <2>6. Mapped' \subseteq (Mapped \ {Old(n)}) \cup {c}
    BY <2>1, <2>3 DEF Mapped
  <2>7. ASSUME NEW d \in Mapped, d # Old(n) PROVE d \in Mapped'
    <3>1. PICK m \in MappedNames : connectionMap[m] = d
      BY DEF Mapped
    <3>2. m # n /\ m \in MappedNames' /\ connectionMap'[m] = d
      BY <3>1, <2>7, <2>5, <2>3 DEF Old
    <3> QED BY <3>2 DEF Mapped
  <2>8. c \in Mapped'
    BY <2>1, <2>4 DEF Mapped
  <2> QED BY <2>1, <2>3, <2>6, <2>7, <2>8
<1>5. \A d \in Conn : Held(d)' <=> Held(d)
  <2>1. Old(n) \in Conn => Held(Old(n))
    BY SentinelAssumption DEF Old, Held, Mapped, MappedNames
  <2>2. Held(c)
    BY <1>1 DEF IndInv, Ownership, AllSound, Sound
  <2> QED BY <1>1, <1>4, <2>1, <2>2 DEF Held
<1> QED
  BY <1>3, <1>4, <1>5

LEMMA IdentifyStep ==
    ASSUME IndInv, NEW c \in Conn, NEW n \in Name, NEW staff \in BOOLEAN,
           NEW k \in ConnectionInstance, Sound(k, TRUE),
           k.identified, k.characterName = n, ~k.closed,
           announced' \subseteq Name, Identify(c, n, k, staff)
    PROVE  IndInv'
<1> DEFINE E == Evicted(n)
<1>1. /\ E \in [Conn -> ConnectionInstance]
      /\ \A d \in Conn :
            /\ Sound(E[d], Held(d))
            /\ d = Old(n) => ~E[d].identified
            /\ d # Old(n) => E[d] = con[d]
  BY EvictedFacts
<1>2. con' \in [Conn -> ConnectionInstance] /\ con'[c] = k
      /\ \A d \in Conn \ {c} : con'[d] = E[d]
  <2>1. con' = [E EXCEPT ![c] = k]
    BY DEF Identify
  <2> HIDE DEF E
  <2> QED BY <1>1, <2>1
<1> HIDE DEF E
<1>3. TakeReply(c) /\ ~con[c].closed /\ ~con[c].identified
      /\ connectionMap' = [connectionMap EXCEPT ![n] = c]
      /\ unidentifiedList' = (unidentifiedList \cup ({Old(n)} \cap Conn)) \ {c}
      /\ staffCallTargets' \subseteq (staffCallTargets \ {Old(n)}) \cup {c}
      /\ redisOnline' = redisOnline \cup {n}
  BY EvictedTables DEF Identify, MayProceed, EvictedStaff
<1>4. connectionMap \in [Name -> Conn \cup {NoConn}]
      /\ connectionMap' \in [Name -> Conn \cup {NoConn}]
  BY <1>3 DEF IndInv, TypeOK
<1>5. connectionCountMap' \in [Ip -> Nat] /\ userCount' \in Int
  <2>1. con[c].clientAddress \in Ip
    BY DEF IndInv, TypeOK, ConnectionInstance
  <2>2. /\ EvictedCounts(n) \in [Ip -> Nat] /\ EvictedUsers(n) \in Int
        /\ connectionCountMap' = CountPlus(EvictedCounts(n), con[c].clientAddress)
        /\ userCount' = EvictedUsers(n) + 1
    BY EvictedTables DEF Identify
  <2> QED BY <2>1, <2>2 DEF CountPlus
<1>6. c # Old(n) /\ \A m \in Name : connectionMap[m] # c
  BY IdentifyTables
<1>7. /\ connectionMap'[n] = c
      /\ \A m \in MappedNames' : m # n => /\ m \in MappedNames
                                           /\ connectionMap[m] \in Conn
                                           /\ connectionMap[m] # Old(n)
                                           /\ connectionMap[m] # c
                                           /\ connectionMap'[m] = connectionMap[m]
      /\ Mapped' = (Mapped \ {Old(n)}) \cup {c}
  BY IdentifyTables
<1>8. \A d \in Conn : Held(d)' <=> Held(d)
  BY IdentifyTables
<1>9. Held(c)
  BY <1>3 DEF IndInv, Ownership, AllSound, Sound
<1>10. TypeOK'
  BY <1>2, <1>3, <1>4, <1>5, ReplyFrame DEF IndInv, TypeOK
<1>11. AllSound'
  BY <1>1, <1>2, <1>8, <1>9 DEF AllSound, Sound
<1>12. MapAgrees'
  <2>1. \A m \in MappedNames' :
            LET r == con'[connectionMap'[m]] IN r.identified /\ r.characterName = m
    BY <1>1, <1>2, <1>7 DEF IndInv, Ownership, MapAgrees
  <2>2. ASSUME NEW d \in Conn, con'[d].identified, con'[d].timerEvent # "deleted"
        PROVE  /\ con'[d].characterName \in Name
               /\ connectionMap'[con'[d].characterName] = d
    <3>1. CASE d = c
      BY <3>1, <1>2, <1>7
    <3>2. CASE d # c
      <4>1. con'[d] = con[d] /\ d # Old(n)
        BY <3>2, <2>2, <1>1, <1>2
      <4>2. con[d].characterName \in Name
            /\ connectionMap[con[d].characterName] = d
        BY <4>1, <2>2 DEF IndInv, Ownership, MapAgrees
      <4>3. con[d].characterName # n
        BY <4>1, <4>2 DEF Old
      <4> QED BY <4>1, <4>2, <4>3, <1>3, <1>4
    <3> QED BY <3>1, <3>2
  <2>3. Mapped' \cap unidentifiedList' = {}
    BY <1>3, <1>7 DEF IndInv, Ownership, MapAgrees
  <2> QED BY <2>1, <2>2, <2>3 DEF MapAgrees
<1>13. StaffAreMapped'
  BY <1>3, <1>7 DEF StaffAreMapped, IndInv, Ownership
<1> QED
  BY <1>10, <1>11, <1>12, <1>13, ReplyFrame, <1>3
     DEF IndInv, Ownership, ReaderIsOpen

\* The ways a login gets as far as u.setIdent.
LEMMA IdentifySteps ==
    ASSUME IndInv, NEW c \in Conn, NEW n \in Name, NEW b \in BOOLEAN,
           \/ LoginRefusedAfterIdent(c, n, b)
           \/ LoginAbortedAfterAnnounce(c, n, b)
           \/ LoginAccepted(c, n, b)
    PROVE  IndInv'
<1> DEFINE p == SetIdent(con[c], n)
<1>1. con[c] \in ConnectionInstance /\ announced' \subseteq Name
  BY DEF LoginRefusedAfterIdent, LoginAbortedAfterAnnounce, LoginAccepted,
         IndInv, TypeOK
<1>2. ~con[c].closed /\ Sound(con[c], TRUE)
  BY DEF LoginRefusedAfterIdent, LoginAbortedAfterAnnounce, LoginAccepted,
         Identify, MayProceed, IndInv, Ownership, AllSound, Sound
<1>3. /\ p \in ConnectionInstance /\ Sound(p, TRUE)
      /\ p.identified /\ p.characterName = n /\ ~p.closed
  <2>1. /\ p \in ConnectionInstance /\ p.closed = con[c].closed
        /\ p.identified /\ p.characterName = n
        /\ Sound(con[c], TRUE) => Sound(p, TRUE)
    BY <1>1, SetIdentFacts, Zenon
  <2> HIDE DEF p
  <2> QED BY <1>2, <2>1
<1>4. \A v \in BOOLEAN :
        /\ Refuse(p, v) \in ConnectionInstance /\ Sound(Refuse(p, v), TRUE)
        /\ ~Refuse(p, v).closed /\ SameIdentity(p, Refuse(p, v))
  <2> HIDE DEF p
  <2> QED BY <1>3, RefuseFacts
<1>5. /\ StartPing(p, TRUE) \in ConnectionInstance
      /\ Sound(StartPing(p, TRUE), TRUE)
      /\ ~StartPing(p, TRUE).closed /\ SameIdentity(p, StartPing(p, TRUE))
  <2> HIDE DEF p
  <2> QED BY <1>3, StartPingFacts
<1>6. \E v \in BOOLEAN, staff \in BOOLEAN :
        \/ Identify(c, n, Refuse(p, v), staff)
        \/ Identify(c, n, StartPing(p, TRUE), staff)
  BY DEF LoginRefusedAfterIdent, LoginAbortedAfterAnnounce, LoginAccepted
<1> HIDE DEF p
<1> QED
  BY <1>1, <1>3, <1>4, <1>5, <1>6, IdentifyStep DEF SameIdentity

LEMMA LoginReplySteps ==
    ASSUME IndInv, NEW c \in Conn, LoginReplyStep(c)
    PROVE  IndInv'
BY EarlyReplySteps, RefusedAfterEvictionStep, IdentifySteps DEF LoginReplyStep

-----------------------------------------------------------------------------
(* The theorems. *)

LEMMA InitIndInv == Init => IndInv
<1> SUFFICES ASSUME Init PROVE IndInv
  OBVIOUS
<1> DEFINE a == CHOOSE a \in Ip : TRUE
           k == [NewConnection(a) EXCEPT !.closed = TRUE]
<1>1. a \in Ip
  BY AddressAssumption
<1>2. k \in ConnectionInstance /\ k.closed /\ ~k.identified
  BY <1>1 DEF NewConnection, ConnectionInstance, Timer, ReadEvent
<1>3. con = [c \in Conn |-> DeleteEvents(k)]
  BY DEF Init
<1>4. /\ DeleteEvents(k) \in ConnectionInstance
      /\ Sound(DeleteEvents(k), FALSE) /\ ~DeleteEvents(k).identified
  <2> HIDE DEF k
  <2> QED BY <1>2, DeleteEventsFacts DEF SameIdentity
<1> HIDE DEF k
<1>5. /\ Mapped = {} /\ unidentifiedList = {} /\ staffCallTargets = {}
      /\ MappedNames = {} /\ reader = NoConn
  BY DEF Init, Mapped, MappedNames
<1>6. TypeOK
  BY <1>3, <1>4, LimitAssumption DEF Init, TypeOK
<1>7. AllSound /\ MapAgrees /\ StaffAreMapped
  BY <1>3, <1>4, <1>5 DEF AllSound, Sound, Held, MapAgrees, StaffAreMapped
<1> QED
  BY <1>5, <1>6, <1>7 DEF IndInv, Ownership, ReaderIsOpen

LEMMA NextIndInv == IndInv /\ [Next]_vars => IndInv'
<1> SUFFICES ASSUME IndInv, [Next]_vars PROVE IndInv'
  OBVIOUS
<1>1. CASE \E c \in Conn : SocketStep(c)
  BY <1>1, SocketSteps
<1>2. CASE \E c \in Conn : TimerStep(c)
  BY <1>2, TimerSteps
<1>3. CASE \E c \in Conn : LoginThreadStep(c)
  BY <1>3, LoginThreadSteps
<1>4. CASE \E c \in Conn : LoginReplyStep(c)
  BY <1>4, LoginReplySteps
<1>5. CASE CommandStep
  BY <1>5, CommandSteps
<1>6. CASE \E T \in SUBSET Mapped : KickStep(T)
  BY <1>6, KickSteps
<1>7. CASE IdleTasks
  <2>1. Ownership'
    BY <1>7, NothingMoves DEF IdleTasks, IndInv
  <2> QED
    BY <1>7, <2>1 DEF IdleTasks, MappedNames, IndInv, TypeOK, ReaderIsOpen,
                      tables, loopState
<1>8. CASE UNCHANGED vars
  <2>1. Ownership'
    BY <1>8, NothingMoves DEF vars, IndInv
  <2> QED
    BY <1>8, <2>1 DEF vars, tables, views, loopState, IndInv, TypeOK, ReaderIsOpen
<1> QED
  BY <1>1, <1>2, <1>3, <1>4, <1>5, <1>6, <1>7, <1>8 DEF Next

LEMMA SpecIndInv == Spec => []IndInv
BY InitIndInv, NextIndInv, PTL DEF Spec

\* Every variable keeps its type, for every number of connections, names
\* and addresses and every choice of the limits.
THEOREM TypeCorrect == Spec => []TypeOK
<1>1. IndInv => TypeOK
  BY DEF IndInv
<1> QED BY <1>1, SpecIndInv, PTL

\* The event loop never frees an open connection, never leaves an event of
\* a freed connection active, and keeps the events of every connection the
\* tables can return; what is closing will be cleaned up by a timer.
THEOREM MemorySafe ==
    Spec => [](OpenIsOwned /\ EventsAreOwned /\ OwnedHasEvents /\ ClosingIsArmed)
<1>1. IndInv => OpenIsOwned /\ EventsAreOwned /\ OwnedHasEvents /\ ClosingIsArmed
  BY OwnershipParts DEF IndInv
<1> QED BY <1>1, SpecIndInv, PTL

\* The map of names and the connections agree, so that a clean-up by name
\* removes the connection it is for, and staff calls go to the map only.
THEOREM MapConsistent == Spec => [](MapAgrees /\ StaffAreMapped)
<1>1. IndInv => MapAgrees /\ StaffAreMapped
  BY OwnershipParts DEF IndInv
<1> QED BY <1>1, SpecIndInv, PTL

\* Commands are only run for a connection that is open.
THEOREM ReaderOpen == Spec => []ReaderIsOpen
<1>1. IndInv => ReaderIsOpen
  BY DEF IndInv
<1> QED BY <1>1, SpecIndInv, PTL

\* Nothing that may still be used is freed, and nothing is kept that will not
\* be closed, for any number of connections, names and addresses.
THEOREM MemoryCorrect == Spec => []MemoryOK
<1> QED BY TypeCorrect, MemorySafe, MapConsistent, ReaderOpen, PTL DEF MemoryOK

-----------------------------------------------------------------------------
(* Counting by address *)

\* The address of the connection of a name.
Address == [n \in Name |-> con[connectionMap[n]].clientAddress]

\* The counts are those of the names, whose addresses are at.
Counts(users, counts, names, at) ==
    /\ users = Cardinality(names)
    /\ \A a \in Ip : counts[a] = Cardinality({n \in names : at[n] = a})

CountsOfNames ==
    CountsAgree <=> Counts(userCount, connectionCountMap, MappedNames, Address)

\* Counting names by address is counting connections of the map.
LEMMA CountsAreOfNames == CountsOfNames /\ CountsOfNames'
<1>1. \A a \in Ip : {n \in MappedNames : con[connectionMap[n]].clientAddress = a}
                   = {n \in MappedNames : Address[n] = a}
  BY DEF Address, MappedNames
<1>2. \A a \in Ip : {n \in MappedNames' : con'[connectionMap'[n]].clientAddress = a}
                   = {n \in MappedNames' : Address'[n] = a}
  BY DEF Address, MappedNames
<1> QED BY <1>1, <1>2 DEF CountsAgree, Counts, CountsOfNames

\* A name is taken off, or put on.
LEMMA CountsRemove ==
    ASSUME NEW names \in SUBSET Name, NEW n \in names, NEW at, at[n] \in Ip,
           NEW users, NEW counts \in [Ip -> Nat],
           Counts(users, counts, names, at)
    PROVE  Counts(users - 1, CountMinus(counts, at[n]), names \ {n}, at)
<1>1. IsFiniteSet(names)
  BY FiniteAssumption, FS_Subset
<1>2. users - 1 = Cardinality(names \ {n})
  BY <1>1, FS_RemoveElement, FS_CardinalityType DEF Counts
<1>3. ASSUME NEW a \in Ip
      PROVE  CountMinus(counts, at[n])[a] = Cardinality({m \in names \ {n} : at[m] = a})
  <2> DEFINE S == {m \in names : at[m] = a}
  <2>1. IsFiniteSet(S) /\ counts[a] = Cardinality(S) /\ counts[a] \in Nat
    BY <1>1, FS_Subset DEF Counts
  <2>2. {m \in names \ {n} : at[m] = a} = S \ {n}
    OBVIOUS
  <2>3. Cardinality(S \ {n}) = IF n \in S THEN Cardinality(S) - 1 ELSE Cardinality(S)
    BY <2>1, FS_RemoveElement
  <2>4. n \in S <=> at[n] = a
    OBVIOUS
  <2>5. n \in S => Cardinality(S) # 0
    BY <2>1, FS_EmptySet
  <2> HIDE DEF S
  <2> QED BY <2>1, <2>2, <2>3, <2>4, <2>5 DEF CountMinus
<1> QED
  BY <1>2, <1>3 DEF Counts

LEMMA CountsAdd ==
    ASSUME NEW names \in SUBSET Name, NEW n \in Name \ names, NEW b \in Ip, 
           NEW at, NEW new, new[n] = b, \A m \in names : new[m] = at[m],
           NEW users, NEW counts \in [Ip -> Nat],
           Counts(users, counts, names, at)
    PROVE  Counts(users + 1, CountPlus(counts, b), names \cup {n}, new)
<1>1. IsFiniteSet(names)
  BY FiniteAssumption, FS_Subset
<1>2. users + 1 = Cardinality(names \cup {n})
  BY <1>1, FS_AddElement DEF Counts
<1>3. ASSUME NEW a \in Ip
      PROVE  CountPlus(counts, b)[a] = Cardinality({m \in names \cup {n} : new[m] = a})
  <2> DEFINE S == {m \in names : at[m] = a}
  <2>1. IsFiniteSet(S) /\ counts[a] = Cardinality(S) /\ counts[a] \in Nat
    BY <1>1, FS_Subset DEF Counts
  <2>2. {m \in names \cup {n} : new[m] = a} = IF a = b THEN S \cup {n} ELSE S
    OBVIOUS
  <2>3. Cardinality(S \cup {n}) = Cardinality(S) + 1
    BY <2>1, FS_AddElement
  <2> HIDE DEF S
  <2> QED BY <2>1, <2>2, <2>3 DEF CountPlus
<1> QED
  BY <1>2, <1>3 DEF Counts

\* Only the addresses of the names matter.
LEMMA CountsSame ==
    ASSUME NEW names, NEW at, NEW new, \A m \in names : new[m] = at[m],
           NEW users, NEW counts, Counts(users, counts, names, at)
    PROVE  Counts(users, counts, names, new)
<1>1. \A a \in Ip : {n \in names : new[n] = a} = {n \in names : at[n] = a}
  OBVIOUS
<1> QED BY <1>1 DEF Counts

-----------------------------------------------------------------------------
(* The second invariant, and the steps that preserve it *)

\* An address can still change only while the connection is in no table but
\* unidentifiedList, and neither reads commands nor waits for a login.
PastHandshake ==
    \A c \in Conn : con[c].readEvent = "handshake" =>
        login[c] = "none" /\ ~con[c].identified /\ reader # c

\* Inductive together with IndInv.
CountInv == CountsOK /\ PastHandshake /\ RedisKnows

\* What most steps leave of a connection.
Kept(k, r) ==
    /\ r.clientAddress = k.clientAddress
    /\ r.readEvent = "handshake" => k.readEvent = "handshake"
    /\ SameIdentity(k, r)
    /\ k.closed => r.closed

LEMMA KeptFacts ==
    ASSUME NEW k \in ConnectionInstance
    PROVE  /\ Kept(k, k) /\ Kept(k, SetDelayClose(k)) /\ Kept(k, MarkClosed(k))
           /\ Kept(k, DeleteEvents(k))
           /\ \A b \in BOOLEAN : Kept(k, Refuse(k, b))
BY DEF Kept, SetDelayClose, MarkClosed, DeleteEvents, Refuse, StartPing,
       ConnectionInstance, SameIdentity

LEMMA MappedConnections ==
    ASSUME IndInv, NEW n \in MappedNames
    PROVE  /\ connectionMap[n] \in Conn /\ con[connectionMap[n]] \in ConnectionInstance
           /\ con[connectionMap[n]].identified
           /\ con[connectionMap[n]].characterName = n
           /\ Address[n] = con[connectionMap[n]].clientAddress /\ Address[n] \in Ip
BY DEF MappedNames, IndInv, TypeOK, Ownership, MapAgrees, Address, ConnectionInstance

\* The counts change with the map only.
LEMMA CountsFrame ==
    ASSUME IndInv, CountsOK,
           UNCHANGED <<connectionMap, connectionCountMap, userCount>>,
           \A n \in MappedNames :
               con'[connectionMap[n]].clientAddress = con[connectionMap[n]].clientAddress
    PROVE  CountsOK'
<1>1. MappedNames' = MappedNames
  BY DEF MappedNames
<1>2. \A n \in MappedNames : Address'[n] = Address[n]
  BY DEF Address, MappedNames
<1>3. Counts(userCount, connectionCountMap, MappedNames, Address')
  BY <1>2, CountsSame, CountsAreOfNames DEF CountsOK, CountsOfNames
<1>4. CountsAgree'
  BY <1>1, <1>3, CountsAreOfNames DEF CountsOfNames
<1> QED
  BY <1>4 DEF CountsOK, IpLimit

\* A step that leaves the map and Redis alone.
LEMMA KeptStep ==
    ASSUME IndInv, CountInv,
           UNCHANGED <<connectionMap, connectionCountMap, userCount, redisOnline>>,
           \A c \in Conn : Kept(con[c], con'[c]),
           \A c \in Conn : con[c].readEvent = "handshake" =>
                               login'[c] = "none" /\ reader' # c
    PROVE  CountInv'
<1>1. CountsOK'
  BY MappedConnections, CountsFrame DEF CountInv, Kept
<1>2. PastHandshake'
  BY DEF CountInv, PastHandshake, Kept, SameIdentity
<1>3. RedisKnows'
  BY DEF CountInv, RedisKnows, Kept, SameIdentity
<1> QED
  BY <1>1, <1>2, <1>3 DEF CountInv

\* Two open connections do not have the same name.
LEMMA NamesDiffer ==
    ASSUME IndInv, NEW c \in Conn, con[c].identified, ~con[c].closed
    PROVE  /\ con[c].characterName \in Name
           /\ connectionMap[con[c].characterName] = c
BY DEF IndInv, Ownership, MapAgrees, AllSound, Sound

LEMMA PrepareShutdownCounts ==
    ASSUME IndInv, CountInv, NEW c \in Conn, ~con[c].closed, PrepareShutdown(c),
           reader' \in {reader, NoConn}
    PROVE  CountInv'
<1>1. con \in [Conn -> ConnectionInstance] /\ con[c] \in ConnectionInstance
  BY DEF IndInv, TypeOK
<1>2. con' = [con EXCEPT ![c] = MarkClosed(con[c])] /\ UNCHANGED tables
      /\ login' = login
  BY DEF PrepareShutdown
<1>3. ASSUME NEW d \in Conn
      PROVE  Kept(con[d], con'[d]) /\ (d = c => con'[d].closed)
  <2>1. con'[d] = IF d = c THEN MarkClosed(con[c]) ELSE con[d]
    BY <1>1, <1>2
  <2> QED BY <1>1, <2>1, KeptFacts, MarkClosedFacts
<1>4. CountsOK'
  BY <1>2, <1>3, MappedConnections, CountsFrame DEF CountInv, Kept, tables
<1>5. PastHandshake'
  BY <1>2, <1>3, SentinelAssumption DEF CountInv, PastHandshake, Kept, SameIdentity
<1>6. RedisKnows'
  <2> SUFFICES ASSUME NEW d \in Conn, con'[d].identified, ~con'[d].closed
               PROVE  con'[d].characterName \in redisOnline'
    BY DEF RedisKnows
  <2>1. d # c /\ con[d].identified /\ ~con[d].closed
        /\ con'[d].characterName = con[d].characterName
    BY <1>3 DEF Kept, SameIdentity
  <2>2. con[d].characterName \in redisOnline
    BY <2>1 DEF CountInv, RedisKnows
  <2>3. connectionMap[con[d].characterName] = d
    BY <2>1, NamesDiffer
  <2>4. con[c].identified /\ ~con[c].closed => con[c].characterName # con[d].characterName
    BY <2>1, <2>3, NamesDiffer
  <2> QED BY <2>1, <2>2, <2>4 DEF PrepareShutdown, views
<1> QED
  BY <1>4, <1>5, <1>6 DEF CountInv

\* One connection changes, and stays what it was to the counts.
LEMMA KeptOne ==
    ASSUME IndInv, CountInv, NEW c \in Conn, NEW r \in ConnectionInstance,
           Kept(con[c], r), con' = [con EXCEPT ![c] = r],
           UNCHANGED <<connectionMap, connectionCountMap, userCount, redisOnline>>,
           \A d \in Conn : con[d].readEvent = "handshake" =>
                               login'[d] = "none" /\ reader' # d
    PROVE  CountInv'
<1>1. \A d \in Conn : con[d] \in ConnectionInstance
                      /\ con'[d] = IF d = c THEN r ELSE con[d]
  BY DEF IndInv, TypeOK
<1>2. \A d \in Conn : Kept(con[d], con'[d])
  BY <1>1, KeptFacts
<1> QED
  BY <1>2, KeptStep

\* What the counts do not depend on.
LEMMA CountsUnchanged ==
    ASSUME IndInv, CountInv,
           UNCHANGED <<con, connectionMap, connectionCountMap, userCount, redisOnline>>,
           \A d \in Conn : con[d].readEvent = "handshake" =>
                               login'[d] = "none" /\ reader' # d
    PROVE  CountInv'
<1>1. \A d \in Conn : Kept(con[d], con'[d])
  BY KeptFacts DEF IndInv, TypeOK
<1> QED
  BY <1>1, KeptStep

LEMMA ListenCounts ==
    ASSUME IndInv, CountInv, NEW c \in Conn, ListenCallback(c)
    PROVE  CountInv'
<1>1. PICK a \in Ip : con' = [con EXCEPT ![c] = NewConnection(a)]
  BY DEF ListenCallback
<1> DEFINE r == NewConnection(a)
<1>2. r \in ConnectionInstance /\ ~r.identified
  BY NewConnectionFacts
<1>3. \A d \in Conn : con'[d] = IF d = c THEN r ELSE con[d]
  <2> HIDE DEF r
  <2> QED BY <1>1, <1>2 DEF IndInv, TypeOK, r
<1>4. ~Held(c) /\ login[c] = "none" /\ reader = NoConn
      /\ UNCHANGED <<login, connectionMap, connectionCountMap, userCount,
                     redisOnline, reader>>
  BY DEF ListenCallback, Referenced, InLoop, views, loopState
<1>5. \A n \in MappedNames : connectionMap[n] \in Conn \ {c}
  BY <1>4, MappedConnections DEF Held, Mapped
<1> HIDE DEF r
<1>6. CountsOK'
  BY <1>3, <1>4, <1>5, CountsFrame DEF CountInv
<1>7. PastHandshake'
  BY <1>2, <1>3, <1>4, SentinelAssumption DEF CountInv, PastHandshake
<1>8. RedisKnows'
  BY <1>2, <1>3, <1>4 DEF CountInv, RedisKnows
<1> QED
  BY <1>6, <1>7, <1>8 DEF CountInv

\* A load balancer's connection changes its address while nothing counts it.
LEMMA HandshakeCounts ==
    ASSUME IndInv, CountInv, NEW c \in Conn, HandshakeDone(c)
    PROVE  CountInv'
<1>1. PICK a \in Ip :
        con' = [con EXCEPT ![c].clientAddress = a, ![c].readEvent = "read"]
  BY DEF HandshakeDone
<1>2. con[c] \in ConnectionInstance /\ con \in [Conn -> ConnectionInstance]
  BY DEF IndInv, TypeOK
<1>3. con[c].readEvent = "handshake" /\ ~con[c].identified
      /\ UNCHANGED <<login, connectionMap, connectionCountMap, userCount,
                     redisOnline, reader>>
  BY DEF HandshakeDone, CountInv, PastHandshake, tables, views, loopState
<1>4. /\ \A d \in Conn \ {c} : con'[d] = con[d]
      /\ con'[c].readEvent = "read" /\ ~con'[c].identified
  BY <1>1, <1>2, <1>3 DEF ConnectionInstance
<1>5. \A n \in MappedNames : connectionMap[n] \in Conn \ {c}
  BY <1>3, MappedConnections
<1>6. CountsOK'
  BY <1>3, <1>4, <1>5, CountsFrame DEF CountInv
<1>7. PastHandshake'
  BY <1>3, <1>4 DEF CountInv, PastHandshake
<1>8. RedisKnows'
  BY <1>3, <1>4 DEF CountInv, RedisKnows
<1> QED
  BY <1>6, <1>7, <1>8 DEF CountInv

LEMMA SocketCounts ==
    ASSUME IndInv, CountInv, NEW c \in Conn, SocketStep(c)
    PROVE  CountInv'
<1>1. CASE ListenCallback(c)
  BY <1>1, ListenCounts
<1>2. CASE HandshakeDone(c)
  BY <1>2, HandshakeCounts
<1>3. CASE HandshakeFailed(c) \/ ReadFailed(c) \/ WriteFailed(c)
  BY <1>3, PrepareShutdownCounts DEF HandshakeFailed, ReadFailed, WriteFailed, loopState
<1>4. CASE ReadCallback(c)
  BY <1>4, CountsUnchanged DEF ReadCallback, CountInv, PastHandshake, tables, views
<1> QED
  BY <1>1, <1>2, <1>3, <1>4 DEF SocketStep

LEMMA CommandCounts ==
    ASSUME IndInv, CountInv, CommandStep
    PROVE  CountInv'
<1>1. CASE ReadReturn
  BY <1>1, CountsUnchanged, SentinelAssumption
     DEF ReadReturn, CountInv, PastHandshake, tables, views
<1>2. CASE ReadClose
  <2>1. reader \in Conn /\ ~con[reader].closed
    BY <1>2 DEF ReadClose, InLoop, IndInv, TypeOK, ReaderIsOpen
  <2> QED BY <1>2, <2>1, PrepareShutdownCounts DEF ReadClose
<1>3. ASSUME NextCommand
      PROVE  reader \in Conn /\ con[reader] \in ConnectionInstance /\ reader' = reader
  BY <1>3 DEF NextCommand, InLoop, IndInv, TypeOK
<1>4. CASE IdentCommand
  <2> DEFINE r == [con[reader] EXCEPT !.authStarted = TRUE]
  <2>1. /\ reader \in Conn /\ con[reader] \in ConnectionInstance /\ reader' = reader
        /\ con' = [con EXCEPT ![reader] = r]
        /\ login' = [login EXCEPT ![reader] = "queued"]
        /\ UNCHANGED <<tables, views>>
    BY <1>3, <1>4 DEF IdentCommand, IndInv, TypeOK
  <2>2. r \in ConnectionInstance /\ Kept(con[reader], r)
    BY <2>1 DEF ConnectionInstance, Kept, SameIdentity
  <2>3. \A d \in Conn : con[d].readEvent = "handshake" =>
                            login'[d] = "none" /\ reader' # d
    BY <2>1 DEF CountInv, PastHandshake, IndInv, TypeOK
  <2> HIDE DEF r
  <2> QED BY <2>1, <2>2, <2>3, KeptOne DEF tables, views
<1>5. CASE IdentCommandRefused
  <2> DEFINE p == SetDelayClose(con[reader])
             r == [p EXCEPT !.authStarted = TRUE]
  <2>1. /\ reader \in Conn /\ con[reader] \in ConnectionInstance /\ reader' = reader
        /\ con' = [con EXCEPT ![reader] = r]
        /\ UNCHANGED <<login, tables, views>>
    BY <1>3, <1>5 DEF IdentCommandRefused
  <2>2. p \in ConnectionInstance /\ Kept(con[reader], p)
    BY <2>1, KeptFacts, SetDelayCloseFacts
  <2>3. r \in ConnectionInstance /\ Kept(con[reader], r)
    <3> HIDE DEF p
    <3> QED BY <2>2 DEF ConnectionInstance, Kept, SameIdentity
  <2> HIDE DEF r
  <2> QED BY <2>1, <2>3, KeptOne DEF tables, views, CountInv, PastHandshake
<1>6. CASE CommandRequiresIdent
  <2>1. /\ reader \in Conn /\ con[reader] \in ConnectionInstance /\ reader' = reader
        /\ con' = [con EXCEPT ![reader] = SetDelayClose(con[reader])]
        /\ UNCHANGED <<login, tables, views>>
    BY <1>3, <1>6 DEF CommandRequiresIdent
  <2> QED
    BY <2>1, KeptFacts, SetDelayCloseFacts, KeptOne
       DEF tables, views, CountInv, PastHandshake
<1>7. CASE CommandOther \/ CommandResetStaffRoom
  BY <1>3, <1>7, CountsUnchanged
     DEF CommandOther, CommandResetStaffRoom, CountInv, PastHandshake, tables, views
<1> QED
  BY <1>1, <1>2, <1>4, <1>5, <1>6, <1>7 DEF CommandStep

LEMMA KickCounts ==
    ASSUME IndInv, CountInv, NEW T \in SUBSET Mapped, KickStep(T)
    PROVE  CountInv'
<1>1. CloseAll(T) /\ UNCHANGED <<login, tables, views, reader>>
  BY DEF KickStep, CommandCloses, RtbCloses, NextCommand, loopState
<1>2. \A d \in Conn : Kept(con[d], con'[d])
  BY <1>1, KeptFacts DEF CloseAll, IndInv, TypeOK
<1> QED
  BY <1>1, <1>2, KeptStep DEF CountInv, PastHandshake, tables, views

LEMMA ReapCounts ==
    ASSUME IndInv, CountInv, NEW c \in Conn, TimerReaps(c)
    PROVE  CountInv'
<1>1. con \in [Conn -> ConnectionInstance] /\ con[c] \in ConnectionInstance
      /\ connectionMap \in [Name -> Conn \cup {NoConn}]
      /\ connectionCountMap \in [Ip -> Nat]
  BY DEF IndInv, TypeOK
<1>2. con' = [con EXCEPT ![c] = DeleteEvents(con[c])] /\ con[c].closed
      /\ con[c].timerEvent # "deleted"
      /\ UNCHANGED <<login, redisOnline, reader>>
  BY DEF TimerReaps, Armed, views, loopState
<1>3. \A d \in Conn : Kept(con[d], con'[d])
  <2>1. \A d \in Conn : con'[d] = IF d = c THEN DeleteEvents(con[c]) ELSE con[d]
    BY <1>1, <1>2
  <2> QED BY <1>1, <2>1, KeptFacts
<1>4. CASE ~con[c].identified
  <2>1. UNCHANGED <<connectionMap, connectionCountMap, userCount>>
    BY <1>4 DEF TimerReaps
  <2> QED BY <1>2, <1>3, <2>1, KeptStep DEF CountInv, PastHandshake
<1>5. CASE con[c].identified
  <2> DEFINE n == con[c].characterName
  <2>1. n \in Name /\ connectionMap[n] = c
    BY <1>2, <1>5 DEF IndInv, Ownership, MapAgrees
  <2>2. n \in MappedNames
    BY <2>1, SentinelAssumption DEF MappedNames
  <2>3. /\ connectionMap' = [connectionMap EXCEPT ![n] = NoConn]
        /\ connectionCountMap' = CountMinus(connectionCountMap, con[c].clientAddress)
        /\ userCount' = userCount - 1
    BY <1>5, <2>1, SentinelAssumption DEF TimerReaps, RemoveConnection
  <2>4. /\ MappedNames' = MappedNames \ {n}
        /\ \A m \in MappedNames' : connectionMap'[m] = connectionMap[m]
    BY <1>1, <2>1, <2>3 DEF MappedNames
  <2>5. \A m \in MappedNames' : Address'[m] = Address[m]
    BY <1>3, <2>4, MappedConnections DEF Kept, Address, MappedNames
  <2>6. Address[n] = con[c].clientAddress /\ Address[n] \in Ip
    BY <2>1, <2>2, MappedConnections
  <2> HIDE DEF n
  <2>7. Counts(userCount - 1, CountMinus(connectionCountMap, Address[n]),
               MappedNames \ {n}, Address)
    BY <1>1, <2>2, <2>6, CountsAreOfNames, CountsRemove
       DEF CountInv, CountsOK, CountsOfNames, MappedNames
  <2>8. CountsAgree'
    BY <2>3, <2>4, <2>5, <2>6, <2>7, CountsSame, CountsAreOfNames DEF CountsOfNames
  <2>9. IpLimit'
    BY <1>1, <2>3, LimitAssumption DEF CountMinus, CountInv, CountsOK, IpLimit
  <2>10. PastHandshake'
    BY <1>2, <1>3 DEF CountInv, PastHandshake, Kept, SameIdentity
  <2>11. RedisKnows'
    BY <1>2, <1>3 DEF CountInv, RedisKnows, Kept, SameIdentity
  <2> QED BY <2>8, <2>9, <2>10, <2>11 DEF CountInv, CountsOK
<1> QED
  BY <1>4, <1>5

LEMMA TimerCounts ==
    ASSUME IndInv, CountInv, NEW c \in Conn, TimerStep(c)
    PROVE  CountInv'
<1>1. CASE TimerReaps(c)
  BY <1>1, ReapCounts
<1>2. CASE TimerDelayOver(c) \/ TimerIdleOver(c)
  BY <1>2, PrepareShutdownCounts DEF TimerDelayOver, TimerIdleOver, loopState
<1>3. CASE TimerStops(c)
  <2> DEFINE r == [con[c] EXCEPT !.timerEvent = "stopped"]
  <2>1. con[c] \in ConnectionInstance /\ con \in [Conn -> ConnectionInstance]
    BY DEF IndInv, TypeOK
  <2>2. r \in ConnectionInstance /\ Kept(con[c], r)
    BY <2>1 DEF ConnectionInstance, Timer, Kept, SameIdentity
  <2>3. con' = [con EXCEPT ![c] = r] /\ UNCHANGED <<login, tables, views, loopState>>
    BY <1>3, <2>1 DEF TimerStops
  <2> HIDE DEF r
  <2> QED
    BY <2>2, <2>3, KeptOne DEF tables, views, loopState, CountInv, PastHandshake
<1> QED
  BY <1>1, <1>2, <1>3 DEF TimerStep

LEMMA LoginThreadCounts ==
    ASSUME IndInv, CountInv, NEW c \in Conn, LoginThreadStep(c)
    PROVE  CountInv'
<1>1. /\ UNCHANGED <<con, tables, views, loopState>>
      /\ \A d \in Conn : login[d] = "none" => login'[d] = "none"
  BY DEF LoginThreadStep, LoginThreadTakes, LoginThreadReplies,
         LoginThreadLeaks, HttpClientDrops, IndInv, TypeOK
<1> QED
  BY <1>1, CountsUnchanged
     DEF CountInv, PastHandshake, tables, views, loopState

\* Replies that change no table.
EarlyReply(c) ==
    \/ ReplyTooLate(c)
    \/ \E returned \in BOOLEAN : LoginRefused(c, returned)
    \/ \E n \in Name : LoginAbortedInEviction(c, n)

LEMMA EarlyReplyCounts ==
    ASSUME IndInv, CountInv, NEW c \in Conn, EarlyReply(c)
    PROVE  CountInv'
<1>1. con[c] \in ConnectionInstance
  BY DEF IndInv, TypeOK
<1>2. TakeReply(c) /\ UNCHANGED <<tables, redisOnline>>
  BY DEF EarlyReply, ReplyTooLate, LoginRefused, LoginAbortedInEviction, views
<1>3. \A d \in Conn : con[d].readEvent = "handshake" =>
                          login'[d] = "none" /\ reader' # d
  BY <1>2 DEF TakeReply, loopState, CountInv, PastHandshake, IndInv, TypeOK
<1>4. CASE ReplyTooLate(c)
  BY <1>2, <1>3, <1>4, CountsUnchanged DEF ReplyTooLate, tables
<1>5. CASE ~ReplyTooLate(c)
  <2>1. PICK b \in BOOLEAN : con' = [con EXCEPT ![c] = Refuse(con[c], b)]
    BY <1>5 DEF EarlyReply, LoginRefused, LoginAbortedInEviction
  <2>2. Refuse(con[c], b) \in ConnectionInstance /\ Kept(con[c], Refuse(con[c], b))
    BY <1>1, RefuseFacts, KeptFacts
  <2> QED BY <1>2, <1>3, <2>1, <2>2, KeptOne DEF tables
<1> QED
  BY <1>4, <1>5

\* After the eviction the counts are those of the other names.
LEMMA EvictedAgree ==
    ASSUME IndInv, CountInv, NEW n \in Name
    PROVE  /\ Counts(EvictedUsers(n), EvictedCounts(n), MappedNames \ {n}, Address)
           /\ EvictedCounts(n) \in [Ip -> Nat]
           /\ \A a \in Ip : EvictedCounts(n)[a] <= connectionCountMap[a]
<1>1. Counts(userCount, connectionCountMap, MappedNames, Address)
      /\ connectionCountMap \in [Ip -> Nat]
  BY CountsAreOfNames DEF CountInv, CountsOK, CountsOfNames, IndInv, TypeOK
<1>2. CASE Old(n) = NoConn
  <2>1. MappedNames \ {n} = MappedNames
    BY <1>2 DEF MappedNames, Old
  <2> QED BY <1>1, <1>2, <2>1 DEF EvictedUsers, EvictedCounts
<1>3. CASE Old(n) # NoConn
  <2>1. n \in MappedNames
    BY <1>3 DEF MappedNames, Old
  <2>2. Address[n] = con[Old(n)].clientAddress /\ Address[n] \in Ip
    BY <2>1, MappedConnections DEF Old
  <2>3. EvictedUsers(n) = userCount - 1
        /\ EvictedCounts(n) = CountMinus(connectionCountMap, Address[n])
    BY <1>3, <2>2 DEF EvictedUsers, EvictedCounts
  <2>4. Counts(userCount - 1, CountMinus(connectionCountMap, Address[n]),
               MappedNames \ {n}, Address)
    BY <1>1, <2>1, <2>2, CountsRemove DEF MappedNames
  <2> QED BY <1>1, <2>2, <2>3, <2>4 DEF CountMinus
<1> QED
  BY <1>2, <1>3

\* What a login leaves of the connections it is not for.
LEMMA EvictedKept ==
    ASSUME IndInv, NEW n \in Name, NEW d \in Conn
    PROVE  LET r == Evicted(n)[d] IN
           /\ r \in ConnectionInstance
           /\ r.clientAddress = con[d].clientAddress
           /\ r.readEvent = "handshake" => con[d].readEvent = "handshake"
           /\ r.characterName = con[d].characterName
           /\ r.identified => con[d].identified /\ d # Old(n)
           /\ r.closed = con[d].closed
<1>1. con[d] \in ConnectionInstance
  BY DEF IndInv, TypeOK
<1>2. Evicted(n)[d] = IF d = Old(n) THEN Closef(con[d]) ELSE con[d]
  BY DEF Evicted
<1> QED
  BY <1>1, <1>2 DEF Closef, SetDelayClose, ConnectionInstance, Timer, ReadEvent

LEMMA RefusedAfterEvictionCounts ==
    ASSUME IndInv, CountInv, NEW c \in Conn, NEW n \in Name, NEW b \in BOOLEAN,
           LoginRefusedAfterEviction(c, n, b)
    PROVE  CountInv'
<1> DEFINE E == Evicted(n)
<1>1. con' = [E EXCEPT ![c] = Refuse(E[c], b)]
  BY DEF LoginRefusedAfterEviction
<1>2. /\ E \in [Conn -> ConnectionInstance]
      /\ \A d \in Conn :
           /\ E[d].clientAddress = con[d].clientAddress
           /\ E[d].readEvent = "handshake" => con[d].readEvent = "handshake"
           /\ E[d].characterName = con[d].characterName
           /\ E[d].identified => con[d].identified
           /\ E[d].closed = con[d].closed
  BY EvictedKept, EvictedFacts
<1> HIDE DEF E
<1>3. \A d \in Conn : Kept(E[d], con'[d])
  <2>1. \A d \in Conn : con'[d] = IF d = c THEN Refuse(E[c], b) ELSE E[d]
    BY <1>1, <1>2
  <2> QED BY <1>2, <2>1, KeptFacts
<1>4. \A d \in Conn :
           /\ con'[d].clientAddress = con[d].clientAddress
           /\ con'[d].readEvent = "handshake" => con[d].readEvent = "handshake"
           /\ con'[d].characterName = con[d].characterName
           /\ con'[d].identified => con[d].identified
           /\ con[d].closed => con'[d].closed
  BY <1>2, <1>3 DEF Kept, SameIdentity
<1>5. /\ connectionMap' = [connectionMap EXCEPT ![n] = NoConn]
      /\ connectionCountMap' = EvictedCounts(n) /\ userCount' = EvictedUsers(n)
      /\ redisOnline' = redisOnline /\ reader' = reader
      /\ login' = [login EXCEPT ![c] = "none"]
  BY DEF LoginRefusedAfterEviction, TakeReply, loopState
<1>6. /\ MappedNames' = MappedNames \ {n}
      /\ \A m \in MappedNames' : connectionMap'[m] = connectionMap[m]
  BY <1>5 DEF MappedNames, IndInv, TypeOK
<1>7. \A m \in MappedNames \ {n} : Address'[m] = Address[m]
  BY <1>4, <1>6, MappedConnections DEF Address, MappedNames
<1>8. CountsAgree'
  <2>1. Counts(EvictedUsers(n), EvictedCounts(n), MappedNames \ {n}, Address')
    BY <1>7, EvictedAgree, CountsSame
  <2> QED BY <1>5, <1>6, <2>1, CountsAreOfNames DEF CountsOfNames
<1>9. IpLimit'
  <2> SUFFICES ASSUME NEW a \in Ip PROVE EvictedCounts(n)[a] <= IpMax
    BY <1>5 DEF IpLimit
  <2>1. /\ EvictedCounts(n)[a] \in Nat /\ connectionCountMap[a] \in Nat
        /\ EvictedCounts(n)[a] <= connectionCountMap[a]
        /\ connectionCountMap[a] <= IpMax
    BY EvictedAgree DEF CountInv, CountsOK, IpLimit, IndInv, TypeOK
  <2> QED BY <2>1, LimitAssumption
<1>10. PastHandshake'
  BY <1>4, <1>5 DEF CountInv, PastHandshake, IndInv, TypeOK
<1>11. RedisKnows'
  BY <1>4, <1>5 DEF CountInv, RedisKnows, IndInv, TypeOK, ConnectionInstance
<1> QED
  BY <1>8, <1>9, <1>10, <1>11 DEF CountInv, CountsOK

LEMMA IdentifyCounts ==
    ASSUME IndInv, CountInv, NEW c \in Conn, NEW n \in Name, NEW staff \in BOOLEAN,
           NEW k \in ConnectionInstance, k.characterName = n,
           k.clientAddress = con[c].clientAddress,
           k.readEvent = "handshake" => con[c].readEvent = "handshake",
           Identify(c, n, k, staff)
    PROVE  CountInv'
<1> DEFINE E == Evicted(n)
           b == con[c].clientAddress
<1>1. con' = [E EXCEPT ![c] = k]
  BY DEF Identify
<1>2. /\ E \in [Conn -> ConnectionInstance]
      /\ \A d \in Conn :
           /\ E[d].clientAddress = con[d].clientAddress
           /\ E[d].readEvent = "handshake" => con[d].readEvent = "handshake"
           /\ E[d].characterName = con[d].characterName
           /\ E[d].identified => con[d].identified
           /\ E[d].closed = con[d].closed
  BY EvictedKept, EvictedFacts
<1> HIDE DEF E
<1>3. /\ con'[c] = k
      /\ \A d \in Conn \ {c} :
           /\ con'[d].clientAddress = con[d].clientAddress
           /\ con'[d].readEvent = "handshake" => con[d].readEvent = "handshake"
           /\ con'[d].characterName = con[d].characterName
           /\ con'[d].identified => con[d].identified
           /\ con'[d].closed = con[d].closed
  BY <1>1, <1>2
<1>4. /\ connectionMap' = [connectionMap EXCEPT ![n] = c]
      /\ connectionCountMap' = CountPlus(EvictedCounts(n), b)
      /\ userCount' = EvictedUsers(n) + 1
      /\ redisOnline' = redisOnline \cup {n} /\ reader' = reader
      /\ login[c] = "replied" /\ login' = [login EXCEPT ![c] = "none"]
      /\ reader = NoConn /\ ~con[c].identified
      /\ connectionCountMap[b] < IpMax
  BY DEF Identify, TakeReply, loopState, InLoop, MayProceed
<1>5. b \in Ip
  BY DEF IndInv, TypeOK, ConnectionInstance
<1> HIDE DEF b
<1>6. /\ MappedNames' = (MappedNames \ {n}) \cup {n}
      /\ connectionMap'[n] = c
      /\ \A m \in MappedNames \ {n} : connectionMap'[m] = connectionMap[m]
  BY <1>4, SentinelAssumption DEF MappedNames, IndInv, TypeOK
<1>7. /\ \A m \in MappedNames \ {n} : Address'[m] = Address[m]
      /\ Address'[n] = b
  <2>1. \A m \in MappedNames \ {n} : connectionMap[m] \in Conn \ {c}
    BY <1>4, MappedConnections
  <2> QED
    BY <1>3, <1>6, <2>1, MappedConnections DEF Address, MappedNames, b
<1>8. CountsAgree'
  <2>1. Counts(EvictedUsers(n) + 1, CountPlus(EvictedCounts(n), b),
               (MappedNames \ {n}) \cup {n}, Address')
    BY <1>5, <1>7, EvictedAgree, CountsAdd DEF MappedNames
  <2> QED BY <1>4, <1>6, <2>1, CountsAreOfNames DEF CountsOfNames
<1>9. IpLimit'
  <2> SUFFICES ASSUME NEW a \in Ip PROVE connectionCountMap'[a] <= IpMax
    BY DEF IpLimit
  <2>1. EvictedCounts(n) \in [Ip -> Nat]
        /\ EvictedCounts(n)[a] <= connectionCountMap[a]
        /\ connectionCountMap[a] \in Nat /\ connectionCountMap[a] <= IpMax
        /\ EvictedCounts(n)[b] <= connectionCountMap[b] /\ connectionCountMap[b] \in Nat
    BY <1>5, EvictedAgree DEF CountInv, CountsOK, IpLimit, IndInv, TypeOK
  <2> QED BY <1>4, <1>5, <2>1, LimitAssumption DEF CountPlus
<1>10. PastHandshake'
  BY <1>3, <1>4, SentinelAssumption DEF CountInv, PastHandshake, IndInv, TypeOK
<1>11. RedisKnows'
  BY <1>3, <1>4 DEF CountInv, RedisKnows, IndInv, TypeOK, ConnectionInstance
<1> QED
  BY <1>8, <1>9, <1>10, <1>11 DEF CountInv, CountsOK

LEMMA LoginReplyCounts ==
    ASSUME IndInv, CountInv, NEW c \in Conn, LoginReplyStep(c)
    PROVE  CountInv'
<1>1. CASE EarlyReply(c)
  BY <1>1, EarlyReplyCounts
<1>2. CASE \E n \in Name, b \in BOOLEAN : LoginRefusedAfterEviction(c, n, b)
  BY <1>2, RefusedAfterEvictionCounts
<1>3. ASSUME NEW n \in Name, NEW b \in BOOLEAN,
             \/ LoginRefusedAfterIdent(c, n, b)
             \/ LoginAbortedAfterAnnounce(c, n, b)
             \/ LoginAccepted(c, n, b)
      PROVE  CountInv'
  <2> DEFINE p == SetIdent(con[c], n)
  <2>1. con[c] \in ConnectionInstance
    BY DEF IndInv, TypeOK
  <2>2. /\ p \in ConnectionInstance /\ p.characterName = n
        /\ p.clientAddress = con[c].clientAddress
        /\ p.readEvent = con[c].readEvent
    BY <2>1 DEF SetIdent, ConnectionInstance
  <2>3. PICK k \in {StartPing(p, TRUE), Refuse(p, TRUE), Refuse(p, FALSE)},
             staff \in BOOLEAN : Identify(c, n, k, staff)
    BY <1>3 DEF LoginRefusedAfterIdent, LoginAbortedAfterAnnounce, LoginAccepted
  <2>4. /\ k \in ConnectionInstance /\ k.characterName = n
        /\ k.clientAddress = con[c].clientAddress
        /\ k.readEvent = "handshake" => con[c].readEvent = "handshake"
    <3> HIDE DEF p
    <3> QED
      BY <2>2 DEF StartPing, Refuse, SetDelayClose, ConnectionInstance, Timer, ReadEvent
  <2> QED BY <2>3, <2>4, IdentifyCounts
<1> QED
  BY <1>1, <1>2, <1>3 DEF LoginReplyStep, EarlyReply

-----------------------------------------------------------------------------
(* The theorems about the counts, Redis and the names. *)

LEMMA InitCountInv == Init => CountInv
<1> SUFFICES ASSUME Init PROVE CountInv
  OBVIOUS
<1>1. MappedNames = {} /\ userCount = 0 /\ \A a \in Ip : connectionCountMap[a] = 0
  BY DEF Init, MappedNames
<1>2. CountsAgree
  BY <1>1, FS_EmptySet DEF CountsAgree
<1>3. \A c \in Conn : con[c].readEvent = "deleted" /\ con[c].closed
  BY DEF Init, DeleteEvents, NewConnection
<1> QED
  BY <1>1, <1>2, <1>3, LimitAssumption
     DEF CountInv, CountsOK, IpLimit, PastHandshake, RedisKnows

LEMMA NextCountInv == IndInv /\ CountInv /\ [Next]_vars => CountInv'
<1> SUFFICES ASSUME IndInv, CountInv, [Next]_vars PROVE CountInv'
  OBVIOUS
<1>1. CASE \E c \in Conn : SocketStep(c)
  BY <1>1, SocketCounts
<1>2. CASE \E c \in Conn : TimerStep(c)
  BY <1>2, TimerCounts
<1>3. CASE \E c \in Conn : LoginThreadStep(c)
  BY <1>3, LoginThreadCounts
<1>4. CASE \E c \in Conn : LoginReplyStep(c)
  BY <1>4, LoginReplyCounts
<1>5. CASE CommandStep
  BY <1>5, CommandCounts
<1>6. CASE \E T \in SUBSET Mapped : KickStep(T)
  BY <1>6, KickCounts
<1>7. CASE IdleTasks
  <2>1. UNCHANGED <<con, login, tables, reader>> /\ redisOnline' = MappedNames
    BY <1>7 DEF IdleTasks, loopState
  <2>2. CountsOK'
    BY <2>1, CountsFrame DEF CountInv, tables
  <2>3. RedisKnows'
    BY <2>1, NamesDiffer, SentinelAssumption DEF RedisKnows, MappedNames
  <2> QED BY <2>1, <2>2, <2>3 DEF CountInv, PastHandshake
<1>8. CASE UNCHANGED vars
  BY <1>8, CountsUnchanged
     DEF vars, tables, views, loopState, CountInv, PastHandshake
<1> QED
  BY <1>1, <1>2, <1>3, <1>4, <1>5, <1>6, <1>7, <1>8 DEF Next

LEMMA SpecCountInv == Spec => []CountInv
BY SpecIndInv, InitCountInv, NextCountInv, PTL DEF Spec

\* The server's counts are the numbers of connections in the map, from each
\* address and altogether, and max_per_ip is never exceeded.
THEOREM CountsCorrect == Spec => []CountsOK
<1>1. CountInv => CountsOK
  BY DEF CountInv
<1> QED BY <1>1, SpecCountInv, PTL

\* Redis knows every identified connection that is open: no eviction or late
\* clean-up takes out a name that is used again.
THEOREM RedisCorrect == Spec => []RedisKnows
<1>1. CountInv => RedisKnows
  BY DEF CountInv
<1> QED BY <1>1, SpecCountInv, PTL

\* What NameIsKept says of one step.
Keeps ==
    \A n \in MappedNames :
        LET c == connectionMap[n] IN
        connectionMap'[n] # c =>
            \/ con[c].closed /\ con'[c].timerEvent = "deleted"
            \/ con'[c].delayClose /\ c \in unidentifiedList'

LEMMA StepKeepsNames == IndInv /\ IndInv' /\ [Next]_vars => Keeps
<1> SUFFICES ASSUME IndInv, IndInv', [Next]_vars,
                    NEW n \in MappedNames, connectionMap'[n] # connectionMap[n]
             PROVE  LET c == connectionMap[n] IN
                    \/ con[c].closed /\ con'[c].timerEvent = "deleted"
                    \/ con'[c].delayClose /\ c \in unidentifiedList'
  BY DEF Keeps
<1>1. connectionMap[n] \in Conn /\ n \in Name /\ con[connectionMap[n]] \in ConnectionInstance
      /\ con \in [Conn -> ConnectionInstance] /\ connectionMap \in [Name -> Conn \cup {NoConn}]
  BY MappedConnections DEF MappedNames, IndInv, TypeOK
<1>2. CASE \E c \in Conn : TimerReaps(c)
  <2>1. PICK c \in Conn : TimerReaps(c)
    BY <1>2
  <2>2. con'[c] = DeleteEvents(con[c]) /\ con[c].closed
    BY <1>1, <2>1 DEF TimerReaps
  <2>3. con'[c].timerEvent = "deleted"
    <3>1. con[c] \in ConnectionInstance
      BY <2>1 DEF IndInv, TypeOK
    <3> QED BY <2>2, <3>1, DeleteEventsFacts
  <2>4. con[c].identified /\ RemoveConnection(con[c].characterName)
    BY <2>1 DEF TimerReaps
  <2>5. con[c].characterName = n
    BY <1>1, <2>4 DEF RemoveConnection
  <2>6. connectionMap[n] = c
    BY <2>1, <2>4, <2>5 DEF TimerReaps, Armed, IndInv, Ownership, MapAgrees
  <2> QED BY <2>2, <2>3, <2>6
<1>3. ASSUME NEW c \in Conn, LoginReplyStep(c)
      PROVE  LET o == connectionMap[n] IN con'[o].delayClose /\ o \in unidentifiedList'
  <2>1. CASE EarlyReply(c)
    BY <2>1 DEF EarlyReply, ReplyTooLate, LoginRefused, LoginAbortedInEviction, tables
  <2>2. CASE \E m \in Name, b \in BOOLEAN : LoginRefusedAfterEviction(c, m, b)
    <3>1. PICK m \in Name, b \in BOOLEAN : LoginRefusedAfterEviction(c, m, b)
      BY <2>2
    <3> DEFINE E == Evicted(n)
    <3>2. m = n /\ Old(n) = connectionMap[n]
      BY <1>1, <3>1 DEF LoginRefusedAfterEviction, Old
    <3>3. con' = [E EXCEPT ![c] = Refuse(E[c], b)]
      BY <3>1, <3>2 DEF LoginRefusedAfterEviction
    <3>4. E \in [Conn -> ConnectionInstance] /\ E[connectionMap[n]] = Closef(con[connectionMap[n]])
      BY <1>1, <3>2, EvictedFacts DEF Evicted
    <3>5. E[connectionMap[n]].delayClose
      BY <1>1, <3>4, ClosefFacts
    <3> HIDE DEF E
    <3>6. Refuse(E[c], b).delayClose
      BY <3>4 DEF Refuse, StartPing, SetDelayClose, ConnectionInstance
    <3>7. con'[connectionMap[n]].delayClose
      BY <1>1, <3>3, <3>4, <3>5, <3>6
    <3> QED
      BY <1>1, <3>1, <3>2, <3>7, SentinelAssumption
         DEF LoginRefusedAfterEviction, EvictedUnidentified
  <2>3. CASE \E m \in Name : \E k, s : Identify(c, m, k, s)
    <3>0. PICK m \in Name : \E k, s : Identify(c, m, k, s)
      BY <2>3
    <3>1. PICK k, s : Identify(c, m, k, s)
      BY <3>0
    <3> DEFINE E == Evicted(n)
    <3>2. m = n /\ Old(n) = connectionMap[n]
      BY <1>1, <3>1 DEF Identify, Old
    <3>3. con' = [E EXCEPT ![c] = k] /\ ~con[c].identified
      BY <3>1, <3>2 DEF Identify
    <3>4. E \in [Conn -> ConnectionInstance] /\ E[connectionMap[n]] = Closef(con[connectionMap[n]])
      BY <1>1, <3>2, EvictedFacts DEF Evicted
    <3>5. E[connectionMap[n]].delayClose
      BY <1>1, <3>4, ClosefFacts
    <3>6. connectionMap[n] # c
      BY <3>3, MappedConnections
    <3> HIDE DEF E
    <3>7. con'[connectionMap[n]].delayClose
      BY <1>1, <3>3, <3>4, <3>5, <3>6
    <3> QED
      BY <1>1, <3>1, <3>2, <3>6, <3>7, SentinelAssumption
         DEF Identify, EvictedUnidentified
  <2> QED
    BY <1>3, <2>1, <2>2, <2>3
       DEF LoginReplyStep, EarlyReply, LoginRefusedAfterIdent,
           LoginAbortedAfterAnnounce, LoginAccepted
<1>4. ASSUME UNCHANGED connectionMap PROVE FALSE
  BY <1>4
<1>5. ASSUME \/ \E c \in Conn : SocketStep(c) \/ LoginThreadStep(c)
             \/ \E c \in Conn : TimerDelayOver(c) \/ TimerIdleOver(c) \/ TimerStops(c)
             \/ CommandStep
             \/ \E T \in SUBSET Mapped : KickStep(T)
             \/ IdleTasks
             \/ UNCHANGED vars
      PROVE  UNCHANGED connectionMap
  BY <1>5
     DEF SocketStep, ListenCallback, HandshakeDone, HandshakeFailed, ReadCallback,
         ReadFailed, WriteFailed, LoginThreadStep, LoginThreadTakes,
         LoginThreadReplies, LoginThreadLeaks, HttpClientDrops, TimerDelayOver,
         TimerIdleOver, TimerStops, CommandStep, ReadReturn, ReadClose,
         IdentCommand, IdentCommandRefused, CommandRequiresIdent, CommandOther,
         CommandResetStaffRoom, KickStep, CommandCloses, RtbCloses, IdleTasks,
         PrepareShutdown, vars, tables
<1> QED
  BY <1>2, <1>3, <1>4, <1>5 DEF Next, TimerStep

\* A connection loses its name to its own clean-up or to an eviction that
\* closes it, and to nothing else.
THEOREM NamesKept == Spec => NameIsKept
<1>2. IndInv /\ IndInv' /\ [Next]_vars => [Keeps]_vars
  BY StepKeepsNames
<1> QED
  BY <1>2, SpecIndInv, PTL DEF Spec, NameIsKept, Keeps

-----------------------------------------------------------------------------
(* The registry.  Each step of the event loop is one of the registry's, a   *)
(* step that says nothing of names or standing dismissing nobody.           *)

\* From k to r a connection is told to close, if told, and nothing else that
\* the registry sees.
Marks(k, r, told) ==
    /\ r.clientAddress = k.clientAddress
    /\ r.closed <=> k.closed
    /\ r.delayClose <=> k.delayClose \/ told

LEMMA MarksFacts ==
    ASSUME NEW k \in ConnectionInstance
    PROVE  /\ Marks(k, k, FALSE) /\ Marks(k, SetDelayClose(k), TRUE)
           /\ Marks(k, Closef(k), TRUE)
           /\ \A b \in BOOLEAN : Marks(k, Refuse(k, b), TRUE)
           /\ \A n \in Name :
                /\ Marks(k, StartPing(SetIdent(k, n), TRUE), FALSE)
                /\ \A b \in BOOLEAN : Marks(k, Refuse(SetIdent(k, n), b), TRUE)
BY DEF Marks, SetDelayClose, Closef, Refuse, StartPing, SetIdent, ConnectionInstance

\* A step that moves no name and closes nobody tells T to close.
LEMMA DismissStep ==
    ASSUME IndInv, UNCHANGED <<connectionMap, unidentifiedList>>,
           NEW T \in SUBSET Conn,
           \A d \in Conn : Marks(con[d], con'[d], d \in T)
    PROVE  Registry!Next
<1>1. \A d \in Conn : Held(d)' <=> Held(d)
  BY DEF Held, Mapped, MappedNames
<1>2. \A d \in Conn : Standing(d)' = IF d \in T /\ Standing(d) = "open"
                                     THEN "closing" ELSE Standing(d)
  BY <1>1 DEF Standing, Marks
<1>3. [d \in Conn |-> con'[d].clientAddress] = [d \in Conn |-> con[d].clientAddress]
  BY DEF Marks
<1>4. Registry!Dismiss(T)
  BY <1>2, <1>3 DEF Registry!Dismiss, Registry!Dismissed
<1> QED
  BY <1>4 DEF Registry!Next

\* In particular one that changes one connection, or none.
LEMMA DismissOne ==
    ASSUME IndInv, UNCHANGED <<connectionMap, unidentifiedList>>,
           NEW c \in Conn, NEW r, NEW told \in BOOLEAN,
           con' = [con EXCEPT ![c] = r], Marks(con[c], r, told)
    PROVE  Registry!Next
<1> DEFINE T == IF told THEN {c} ELSE {}
<1>1. con \in [Conn -> ConnectionInstance]
  BY DEF IndInv, TypeOK
<1>2. ASSUME NEW d \in Conn PROVE Marks(con[d], con'[d], d \in T)
  <2>1. CASE d = c
    BY <1>1, <2>1 DEF Marks
  <2>2. CASE d # c
    <3>1. con'[d] = con[d] /\ d \notin T
      BY <1>1, <2>2
    <3> QED BY <3>1 DEF Marks
  <2> QED BY <2>1, <2>2
<1>3. T \in SUBSET Conn
  OBVIOUS
<1> HIDE DEF T
<1> QED
  BY <1>2, <1>3, DismissStep

LEMMA DismissNone ==
    ASSUME IndInv, UNCHANGED <<con, connectionMap, unidentifiedList>>
    PROVE  Registry!Next
<1>1. \A d \in Conn : Marks(con[d], con'[d], d \in {})
  BY DEF Marks
<1> QED
  BY <1>1, DismissStep

\* The first half of closing a connection.
LEMMA RegistryClose ==
    ASSUME IndInv, NEW c \in Conn, ~con[c].closed, PrepareShutdown(c)
    PROVE  Registry!Next
<1>1. con \in [Conn -> ConnectionInstance] /\ con[c] \in ConnectionInstance
  BY DEF IndInv, TypeOK
<1>2. Held(c)
  BY OwnershipParts DEF IndInv, OpenIsOwned
<1>3. /\ con' = [con EXCEPT ![c] = MarkClosed(con[c])]
      /\ UNCHANGED <<connectionMap, unidentifiedList>>
  BY DEF PrepareShutdown, tables
<1>4. \A d \in Conn : Held(d)' <=> Held(d)
  BY <1>3 DEF Held, Mapped, MappedNames
<1>5. MarkClosed(con[c]).closed
      /\ MarkClosed(con[c]).clientAddress = con[c].clientAddress
  BY <1>1, MarkClosedFacts, KeptFacts DEF Kept
<1>6. /\ con'[c].closed
      /\ \A d \in Conn : /\ con'[d].clientAddress = con[d].clientAddress
                         /\ d # c => con'[d] = con[d]
  BY <1>1, <1>3, <1>5
<1>7. \A d \in Conn : Standing(d)' = IF d = c THEN "closed" ELSE Standing(d)
  BY <1>2, <1>4, <1>6 DEF Standing
<1>8. Standing(c) \in {"open", "closing"}
  BY <1>2 DEF Standing
<1>9. [d \in Conn |-> con'[d].clientAddress] = [d \in Conn |-> con[d].clientAddress]
  BY <1>6
<1>10. Registry!Close(c)
  BY <1>3, <1>7, <1>8, <1>9 DEF Registry!Close, Registry!Present
<1> QED
  BY <1>10 DEF Registry!Next

LEMMA RegistryArrive ==
    ASSUME IndInv, NEW c \in Conn, ListenCallback(c)
    PROVE  Registry!Next
<1>1. con \in [Conn -> ConnectionInstance]
  BY DEF IndInv, TypeOK
<1>2. /\ ~Held(c) /\ unidentifiedList' = unidentifiedList \cup {c}
      /\ UNCHANGED connectionMap
  BY DEF ListenCallback, Referenced
<1>3. PICK a \in Ip : con' = [con EXCEPT ![c] = NewConnection(a)]
  BY DEF ListenCallback
<1>4. \A d \in Conn : con'[d] = IF d = c THEN NewConnection(a) ELSE con[d]
  BY <1>1, <1>3
<1>5. \A d \in Conn : Held(d)' <=> Held(d) \/ d = c
  BY <1>2 DEF Held, Mapped, MappedNames
<1>6. /\ ~NewConnection(a).closed /\ ~NewConnection(a).delayClose
      /\ NewConnection(a).clientAddress = a
  BY DEF NewConnection
<1>7. /\ Standing(c) = "absent"
      /\ \A d \in Conn : /\ Standing(d)' = IF d = c THEN "open" ELSE Standing(d)
                         /\ con'[d].clientAddress = IF d = c THEN a
                                                    ELSE con[d].clientAddress
  BY <1>2, <1>4, <1>5, <1>6 DEF Standing
<1>8. Registry!Arrive(c, a)
  BY <1>2, <1>7 DEF Registry!Arrive
<1> QED
  BY <1>8 DEF Registry!Next

\* A connection that nobody knows by name may still turn out to come from
\* behind a load balancer.
LEMMA RegistryReaddress ==
    ASSUME IndInv, CountInv, NEW c \in Conn, HandshakeDone(c)
    PROVE  Registry!Next
<1>1. con \in [Conn -> ConnectionInstance] /\ con[c] \in ConnectionInstance
  BY DEF IndInv, TypeOK
<1>2. PICK a \in Ip :
        con' = [con EXCEPT ![c].clientAddress = a, ![c].readEvent = "read"]
  BY DEF HandshakeDone
<1>3. /\ ~con[c].closed /\ ~con[c].identified
      /\ UNCHANGED <<connectionMap, unidentifiedList>>
  BY DEF HandshakeDone, CountInv, PastHandshake, tables
<1>4. \A d \in Conn : /\ con'[d].closed = con[d].closed
                      /\ con'[d].delayClose = con[d].delayClose
                      /\ con'[d].clientAddress = IF d = c THEN a
                                                 ELSE con[d].clientAddress
  BY <1>1, <1>2 DEF ConnectionInstance
<1>5. \A d \in Conn : Held(d)' <=> Held(d)
  BY <1>3 DEF Held, Mapped, MappedNames
<1>6. \A d \in Conn : Standing(d)' = Standing(d)
  BY <1>4, <1>5 DEF Standing
<1>7. Standing(c) \in {"open", "closing"}
  BY <1>3, OwnershipParts DEF Standing, IndInv, OpenIsOwned
<1>8. \A n \in Name : connectionMap[n] # c
  BY <1>3, OnlyName DEF IndInv
<1>9. Registry!Readdress(c, a)
  BY <1>3, <1>4, <1>6, <1>7, <1>8
     DEF Registry!Readdress, Registry!Present, Registry!NamesOf
<1> QED
  BY <1>9 DEF Registry!Next

LEMMA RegistryLeave ==
    ASSUME IndInv, NEW c \in Conn, TimerReaps(c)
    PROVE  Registry!Next
<1>1. con \in [Conn -> ConnectionInstance] /\ con[c] \in ConnectionInstance
  BY DEF IndInv, TypeOK
<1>2. con[c].closed /\ Held(c) /\ con' = [con EXCEPT ![c] = DeleteEvents(con[c])]
  BY OwnershipParts DEF TimerReaps, IndInv, EventsAreOwned
<1>3. DeleteEvents(con[c]).clientAddress = con[c].clientAddress
  BY <1>1, KeptFacts DEF Kept
<1>4. \A d \in Conn : /\ con'[d].clientAddress = con[d].clientAddress
                      /\ d # c => con'[d] = con[d]
  BY <1>1, <1>2, <1>3
<1>5. /\ Standing(c) = "closed"
      /\ \A d \in Conn : Standing(d)' = IF d = c THEN "absent" ELSE Standing(d)
  BY <1>2, <1>4, ReapTables DEF Standing
<1>6. connectionMap' = [n \in Name |-> IF connectionMap[n] = c THEN NoConn
                                                            ELSE connectionMap[n]]
  BY ReapTables
<1>7. Registry!Leave(c)
  BY <1>4, <1>5, <1>6 DEF Registry!Leave
<1> QED
  BY <1>7 DEF Registry!Next

LEMMA RegistryCounts ==
    ASSUME NEW S PROVE Registry!Cardinality(S) = Cardinality(S)
BY DEF Registry!Cardinality, Cardinality

\* A login that passed the check of its address finds room in the registry.
LEMMA RoomForName ==
    ASSUME IndInv, CountInv, NEW c \in Conn, MayProceed(c)
    PROVE  /\ Standing(c) \in {"open", "closing"}
           /\ Registry!Cardinality(Registry!NamesFrom(con[c].clientAddress)) < IpMax
<1>1. Standing(c) \in {"open", "closing"}
  BY OwnershipParts DEF MayProceed, Standing, IndInv, OpenIsOwned
<1>2. con[c].clientAddress \in Ip
  BY DEF IndInv, TypeOK, ConnectionInstance
<1>3. \A n \in MappedNames : connectionMap[n] \in Conn
  BY MappedConnections
<1>4. Registry!NamesFrom(con[c].clientAddress) =
        {n \in MappedNames : con[connectionMap[n]].clientAddress
                                 = con[c].clientAddress}
  BY <1>3 DEF Registry!NamesFrom, MappedNames
<1> QED
  BY <1>1, <1>2, <1>4, RegistryCounts DEF MayProceed, CountInv, CountsOK, CountsAgree

\* Those whom an eviction by c dismisses: the owner of the name, and c if its
\* own login is refused.
LEMMA EvictionDismisses ==
    ASSUME IndInv, NEW c \in Conn, NEW n \in Name, NEW r, NEW told \in BOOLEAN,
           con' = [Evicted(n) EXCEPT ![c] = r],
           \/ Marks(con[c], r, told) /\ c # Old(n)
           \/ Marks(Evicted(n)[c], r, told) /\ told,
           \A d \in Conn : Held(d)' <=> Held(d)
    PROVE  /\ [d \in Conn |-> con'[d].clientAddress]
                  = [d \in Conn |-> con[d].clientAddress]
           /\ \A d \in Conn :
                Standing(d)' = IF /\ d = Old(n) \/ (told /\ d = c)
                                  /\ Standing(d) = "open"
                               THEN "closing" ELSE Standing(d)
<1>1. \A d \in Conn : con[d] \in ConnectionInstance
  BY DEF IndInv, TypeOK
<1>2. \A d \in Conn : Marks(con[d], Evicted(n)[d], d = Old(n))
  BY <1>1, MarksFacts DEF Evicted, Marks
<1>3. \A d \in Conn : con'[d] = IF d = c THEN r ELSE Evicted(n)[d]
  BY EvictedFacts
<1>4. \A d \in Conn : Marks(con[d], con'[d], d = Old(n) \/ (told /\ d = c))
  <2> SUFFICES ASSUME NEW d \in Conn
               PROVE  Marks(con[d], con'[d], d = Old(n) \/ (told /\ d = c))
    OBVIOUS
  <2>1. CASE d # c
    BY <1>2, <1>3, <2>1 DEF Marks
  <2>2. CASE d = c
    <3>1. con'[d] = r
      BY <1>3, <2>2
    <3> QED BY <1>2, <2>2, <3>1 DEF Marks
  <2> QED BY <2>1, <2>2
<1> QED
  BY <1>4 DEF Standing, Marks

LEMMA RegistryEvict ==
    ASSUME IndInv, CountInv, NEW c \in Conn, NEW n \in Name, NEW b \in BOOLEAN,
           LoginRefusedAfterEviction(c, n, b)
    PROVE  Registry!Next
<1>1. /\ MayProceed(c)
      /\ con' = [Evicted(n) EXCEPT ![c] = Refuse(Evicted(n)[c], b)]
      /\ connectionMap' = [connectionMap EXCEPT ![n] = NoConn]
  BY DEF LoginRefusedAfterEviction
<1>2. Evicted(n)[c] \in ConnectionInstance
  BY EvictedFacts
<1>3. Marks(Evicted(n)[c], Refuse(Evicted(n)[c], b), TRUE)
  BY <1>2, MarksFacts
<1>4. \A d \in Conn : Held(d)' <=> Held(d)
  BY EvictionTables
<1>5. /\ [d \in Conn |-> con'[d].clientAddress] = [d \in Conn |-> con[d].clientAddress]
      /\ \A d \in Conn : Standing(d)' = IF d \in {c, Old(n)} /\ Standing(d) = "open"
                                        THEN "closing" ELSE Standing(d)
  BY <1>1, <1>3, <1>4, EvictionDismisses
<1>6. CASE Old(n) = NoConn
  <2>1. \A d \in Conn : Standing(d)' = IF d \in {c} /\ Standing(d) = "open"
                                      THEN "closing" ELSE Standing(d)
    BY <1>5, <1>6, SentinelAssumption
  <2>2. connectionMap' = connectionMap
    BY <1>1, <1>6 DEF Old, IndInv, TypeOK
  <2>3. Registry!Dismiss({c})
    BY <1>5, <2>1, <2>2 DEF Registry!Dismiss, Registry!Dismissed
  <2> QED BY <2>3 DEF Registry!Next
<1>7. CASE Old(n) # NoConn
  <2>1. Registry!NamesFrom([d \in Conn |-> con[d].clientAddress][c])
          = Registry!NamesFrom(con[c].clientAddress)
    OBVIOUS
  <2>2. [d \in Conn |-> Standing(d)]' = Registry!Dismissed({c, connectionMap[n]})
    BY <1>5 DEF Registry!Dismissed, Old
  <2>3. Registry!Evict(c, n)
    BY <1>1, <1>5, <1>7, <2>1, <2>2, RoomForName
       DEF Registry!Evict, Registry!Present, Old
  <2> QED BY <2>3 DEF Registry!Next
<1> QED
  BY <1>6, <1>7

\* The registry gives the name away whatever becomes of the rest of the
\* login; told says whether c has to close again at once.
LEMMA RegistryTake ==
    ASSUME IndInv, CountInv, NEW c \in Conn, NEW n \in Name, NEW k,
           NEW staff \in BOOLEAN, NEW told \in BOOLEAN,
           Identify(c, n, k, staff), Marks(con[c], k, told)
    PROVE  Registry!Next
<1>1. /\ MayProceed(c) /\ con' = [Evicted(n) EXCEPT ![c] = k]
      /\ connectionMap' = [connectionMap EXCEPT ![n] = c]
  BY DEF Identify
<1>2. /\ c # Old(n) /\ \A m \in Name : connectionMap[m] # c
      /\ \A d \in Conn : Held(d)' <=> Held(d)
  BY IdentifyTables
<1>3. /\ [d \in Conn |-> con'[d].clientAddress] = [d \in Conn |-> con[d].clientAddress]
      /\ \A d \in Conn :
            Standing(d)' = IF /\ d = Old(n) \/ (told /\ d = c)
                              /\ Standing(d) = "open"
                           THEN "closing" ELSE Standing(d)
  BY <1>1, <1>2, EvictionDismisses
<1>4. Registry!NamesFrom([d \in Conn |-> con[d].clientAddress][c])
        = Registry!NamesFrom(con[c].clientAddress)
  OBVIOUS
<1>5. [d \in Conn |-> Standing(d)]'
        = Registry!Dismissed({connectionMap[n]} \cup IF told THEN {c} ELSE {})
  BY <1>3 DEF Registry!Dismissed, Old
<1>6. Registry!Take(c, n, told)
  BY <1>1, <1>2, <1>3, <1>4, <1>5, RoomForName
     DEF Registry!Take, Registry!Present, Registry!NamesOf
<1> QED
  BY <1>6 DEF Registry!Next

LEMMA RegistryReply ==
    ASSUME IndInv, CountInv, NEW c \in Conn, LoginReplyStep(c)
    PROVE  Registry!Next
<1>1. con[c] \in ConnectionInstance
  BY DEF IndInv, TypeOK
<1>2. CASE ReplyTooLate(c)
  BY <1>2, DismissNone DEF ReplyTooLate, tables
<1>3. CASE \/ \E b \in BOOLEAN : LoginRefused(c, b)
           \/ \E n \in Name : LoginAbortedInEviction(c, n)
  <2>1. PICK b \in BOOLEAN : con' = [con EXCEPT ![c] = Refuse(con[c], b)]
    BY <1>3 DEF LoginRefused, LoginAbortedInEviction
  <2>2. UNCHANGED <<connectionMap, unidentifiedList>>
    BY <1>3 DEF LoginRefused, LoginAbortedInEviction, tables
  <2>3. Marks(con[c], Refuse(con[c], b), TRUE)
    BY <1>1, MarksFacts
  <2> QED BY <2>1, <2>2, <2>3, DismissOne
<1>4. CASE \E n \in Name, b \in BOOLEAN : LoginRefusedAfterEviction(c, n, b)
  BY <1>4, RegistryEvict
<1>5. CASE \E n \in Name, b \in BOOLEAN : \/ LoginRefusedAfterIdent(c, n, b)
                                        \/ LoginAbortedAfterAnnounce(c, n, b)
                                        \/ LoginAccepted(c, n, b)
  <2>1. PICK n \in Name, b \in BOOLEAN :
            \/ Identify(c, n, Refuse(SetIdent(con[c], n), b), FALSE)
            \/ Identify(c, n, Refuse(SetIdent(con[c], n), FALSE), b)
            \/ Identify(c, n, StartPing(SetIdent(con[c], n), TRUE), b)
    BY <1>5 DEF LoginRefusedAfterIdent, LoginAbortedAfterAnnounce, LoginAccepted
  <2>2. /\ \A v \in BOOLEAN : Marks(con[c], Refuse(SetIdent(con[c], n), v), TRUE)
        /\ Marks(con[c], StartPing(SetIdent(con[c], n), TRUE), FALSE)
    BY <1>1, MarksFacts
  <2> QED BY <2>1, <2>2, RegistryTake
<1> QED
  BY <1>2, <1>3, <1>4, <1>5 DEF LoginReplyStep

LEMMA RegistryCommand ==
    ASSUME IndInv, CommandStep
    PROVE  Registry!Next
<1>1. CASE ReadReturn \/ CommandOther \/ CommandResetStaffRoom
  BY <1>1, DismissNone DEF ReadReturn, CommandOther, CommandResetStaffRoom, tables
<1>2. CASE ~(ReadReturn \/ CommandOther \/ CommandResetStaffRoom)
  <2>1. reader \in Conn /\ ~con[reader].closed /\ con[reader] \in ConnectionInstance
    BY <1>2 DEF CommandStep, ReadClose, IdentCommand, IdentCommandRefused,
                CommandRequiresIdent, NextCommand, InLoop, IndInv, TypeOK, ReaderIsOpen
  <2>2. CASE ReadClose
    BY <2>1, <2>2, RegistryClose DEF ReadClose
  <2> DEFINE k == con[reader]
  <2>3. CASE IdentCommand
    <3>1. con' = [con EXCEPT ![reader] = [k EXCEPT !.authStarted = TRUE]]
          /\ UNCHANGED <<connectionMap, unidentifiedList>>
      BY <2>3 DEF IdentCommand, tables
    <3>2. Marks(k, [k EXCEPT !.authStarted = TRUE], FALSE)
      BY <2>1 DEF Marks, ConnectionInstance
    <3> QED BY <2>1, <3>1, <3>2, DismissOne
  <2>4. CASE IdentCommandRefused
    <3>1. con' = [con EXCEPT ![reader] = [SetDelayClose(k) EXCEPT !.authStarted = TRUE]]
          /\ UNCHANGED <<connectionMap, unidentifiedList>>
      BY <2>4 DEF IdentCommandRefused, tables
    <3>2. Marks(k, [SetDelayClose(k) EXCEPT !.authStarted = TRUE], TRUE)
      BY <2>1 DEF Marks, SetDelayClose, ConnectionInstance
    <3> QED BY <2>1, <3>1, <3>2, DismissOne
  <2>5. CASE CommandRequiresIdent
    <3>1. con' = [con EXCEPT ![reader] = SetDelayClose(k)]
          /\ UNCHANGED <<connectionMap, unidentifiedList>>
      BY <2>5 DEF CommandRequiresIdent, tables
    <3>2. Marks(k, SetDelayClose(k), TRUE)
      BY <2>1, MarksFacts
    <3> QED BY <2>1, <3>1, <3>2, DismissOne
  <2> QED BY <1>2, <2>2, <2>3, <2>4, <2>5 DEF CommandStep
<1> QED
  BY <1>1, <1>2

LEMMA RegistryKick ==
    ASSUME IndInv, NEW T \in SUBSET Mapped, KickStep(T)
    PROVE  Registry!Next
<1>1. CloseAll(T) /\ UNCHANGED <<connectionMap, unidentifiedList>>
  BY DEF KickStep, CommandCloses, RtbCloses, tables
<1>2. \A d \in Conn : con[d] \in ConnectionInstance
  BY DEF IndInv, TypeOK
<1>3. ASSUME NEW d \in Conn PROVE Marks(con[d], con'[d], d \in T)
  <2>1. con'[d] = IF d \in T THEN SetDelayClose(con[d]) ELSE con[d]
    BY <1>1 DEF CloseAll
  <2>2. Marks(con[d], con[d], FALSE) /\ Marks(con[d], SetDelayClose(con[d]), TRUE)
    BY <1>2, MarksFacts
  <2> QED BY <2>1, <2>2 DEF Marks
<1>4. T \in SUBSET Conn
  BY MappedConnections DEF Mapped
<1> QED
  BY <1>1, <1>3, <1>4, DismissStep

LEMMA RegistrySocketOrTimer ==
    ASSUME IndInv, CountInv, NEW c \in Conn, SocketStep(c) \/ TimerStep(c)
    PROVE  Registry!Next
<1>1. CASE ListenCallback(c)
  BY <1>1, RegistryArrive
<1>2. CASE HandshakeDone(c)
  BY <1>2, RegistryReaddress
<1>3. CASE \/ HandshakeFailed(c) \/ ReadFailed(c) \/ WriteFailed(c)
           \/ TimerDelayOver(c) \/ TimerIdleOver(c)
  BY <1>3, RegistryClose
     DEF HandshakeFailed, ReadFailed, WriteFailed, TimerDelayOver, TimerIdleOver
<1>4. CASE ReadCallback(c)
  BY <1>4, DismissNone DEF ReadCallback, tables
<1>5. CASE TimerReaps(c)
  BY <1>5, RegistryLeave
<1>6. CASE TimerStops(c)
  <2> DEFINE r == [con[c] EXCEPT !.timerEvent = "stopped"]
  <2>1. con' = [con EXCEPT ![c] = r] /\ UNCHANGED <<connectionMap, unidentifiedList>>
    BY <1>6 DEF TimerStops, tables
  <2>2. Marks(con[c], r, FALSE)
    BY DEF Marks, IndInv, TypeOK, ConnectionInstance
  <2> QED BY <2>1, <2>2, DismissOne
<1> QED
  BY <1>1, <1>2, <1>3, <1>4, <1>5, <1>6 DEF SocketStep, TimerStep

LEMMA RegistryStep ==
    IndInv /\ CountInv /\ [Next]_vars => [Registry!Next]_Registry!vars
<1> SUFFICES ASSUME IndInv, CountInv, [Next]_vars PROVE Registry!Next
  OBVIOUS
<1>1. CASE \E c \in Conn : SocketStep(c) \/ TimerStep(c)
  BY <1>1, RegistrySocketOrTimer
<1>2. CASE \E c \in Conn : LoginThreadStep(c)
  BY <1>2, DismissNone
     DEF LoginThreadStep, LoginThreadTakes, LoginThreadReplies, LoginThreadLeaks,
         HttpClientDrops, tables
<1>3. CASE \E c \in Conn : LoginReplyStep(c)
  BY <1>3, RegistryReply
<1>4. CASE CommandStep
  BY <1>4, RegistryCommand
<1>5. CASE \E T \in SUBSET Mapped : KickStep(T)
  BY <1>5, RegistryKick
<1>6. CASE IdleTasks \/ UNCHANGED vars
  BY <1>6, DismissNone DEF IdleTasks, vars, tables
<1> QED
  BY <1>1, <1>2, <1>3, <1>4, <1>5, <1>6 DEF Next

\* The event loop keeps its connections' names as NameRegistry promises: of
\* any number of logins, evictions, kicks, closed sockets and clean-ups, in
\* any order, each step takes, loses or leaves names as a registry may, or
\* only tells some to close.
THEOREM RegistryKept == Spec => ImplementsRegistry
<1>1. Init => Registry!Init
  <2> SUFFICES ASSUME Init PROVE Registry!Init
    OBVIOUS
  <2>1. \A c \in Conn : ~Held(c)
    BY DEF Init, Held, Mapped, MappedNames
  <2>2. \A c \in Conn : con[c].clientAddress \in Ip
    BY InitIndInv DEF IndInv, TypeOK, ConnectionInstance
  <2> QED
    BY <2>1, <2>2 DEF Init, Registry!Init, Standing
<1> QED
  BY <1>1, SpecIndInv, SpecCountInv, RegistryStep, PTL
     DEF Spec, ImplementsRegistry, Registry!Spec
=============================================================================
