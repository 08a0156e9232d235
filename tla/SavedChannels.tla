---------------------------- MODULE SavedChannels ----------------------------
(***************************************************************************)
(* What becomes of channels when the server stops: ServerState::channelMap *)
(* and channels.json, which the idle tasks and a halt write and a start    *)
(* reads.  Public channels and open rooms are saved; closed rooms, and who *)
(* is in a channel, are not.                                               *)
(*                                                                         *)
(* The actions are the bindings of lua_channel.cpp, which the handlers of  *)
(* module Channels call once they have found that their sender may; a      *)
(* handler that calls two of them is two actions here.  Description, title *)
(* and mode are one value, "text".  Time is kept as what is left of a ban  *)
(* and as how long a channel has been idle; a ban that ran out is dropped  *)
(* from memory at once (the code does so when it next looks at it).        *)
(***************************************************************************)
EXTENDS Integers, FiniteSets

CONSTANTS
    User, NoUser,   \* characters, and the owner of a channel without one
    Chan,           \* names of channels
    PublicChan,     \* those that CRC makes
    SpecialChan,    \* those that chat_init makes: the staff room
    Text,           \* descriptions, titles and modes
    MaxBans,        \* bans that a channel is loaded with (300)
    MaxLength,      \* longest time-out that is given
    Day,            \* idle time after which an open room is unused
    TopUsers,       \* size that makes an open room outlive its users (5)
    MaxFaults,      \* bound on crashes and failed writes
    Torn            \* what cannot be parsed: an empty file, or one cut off

\* The lengths are natural numbers, and a channel has a text.
SavedAssumption ==
    /\ IsFiniteSet(User) /\ Text # {}
    /\ {MaxBans, MaxLength, Day} \subseteq Nat

VARIABLES
    chan,           \* channelMap
    channelOpList,  \* ServerState: operators of public channels
    disk,           \* channels.json
    up,             \* is the server running
    faults          \* crashes and failed writes so far

vars == <<chan, channelOpList, disk, up, faults>>

-----------------------------------------------------------------------------
(* Channel *)

\* Time left of a ban.  Over is one in the file that has run out.
NoBan == -2
Over == -1
Forever == MaxLength + 1

Saved ==
    [type : {"public", "pubprivate"}, owner : User \cup {NoUser},
     moderators : SUBSET User, bans : [User -> NoBan..Forever],
     top : Nat, text : Text]

\* lastActivity is 0, long ago, in a new channel.
NewChannel(type, owner, text) ==
    [type |-> type, owner |-> owner, moderators |-> {},
     bans |-> [u \in User |-> NoBan], top |-> 0, text |-> text,
     participants |-> {}, idle |-> Day + 1, canDestroy |-> TRUE]

NoChannel == NewChannel("absent", NoUser, CHOOSE t \in Text : TRUE)

Exists(ch) == chan[ch].type # "absent"

Join(k, u) ==
    [k EXCEPT !.participants = @ \cup {u}, !.idle = 0,
              !.top = IF Cardinality(k.participants) + 1 > @
                      THEN Cardinality(k.participants) + 1 ELSE @]

Part(k, u) == [k EXCEPT !.participants = @ \ {u}, !.idle = 0]

SaveChannel(k) ==
    [type |-> k.type, owner |-> k.owner, moderators |-> k.moderators,
     bans |-> k.bans, top |-> k.top, text |-> k.text]

\* The banlist of a file is read up to MaxBans, in no order, and with it
\* bans that have run out.
BansRead(bans) ==
    LET listed == {u \in User : bans[u] # NoBan} IN
    {read \in SUBSET listed :
        Cardinality(read) = IF Cardinality(listed) > MaxBans THEN MaxBans
                            ELSE Cardinality(listed)}

\* Mutated form of LoadChannel: the node "timeout" is looked up in vain, and
\* every ban becomes a permanent one.
LoadChannelForever(saved, read) ==
    [NewChannel(saved.type, saved.owner, saved.text) EXCEPT
        !.moderators = saved.moderators, !.top = saved.top, !.idle = 0,
        !.bans = [u \in User |-> IF u \in read THEN Forever ELSE NoBan]]

LoadChannel(saved, read) ==
    [NewChannel(saved.type, saved.owner, saved.text) EXCEPT
        !.moderators = saved.moderators, !.top = saved.top, !.idle = 0,
        !.bans = [u \in User |-> IF u \in read /\ saved.bans[u] # Over
                                 THEN saved.bans[u] ELSE NoBan]]

\* rebuildChannelOpList.
ChannelOps(chans) ==
    UNION {chans[ch].moderators : ch \in {x \in Chan : chans[x].type = "public"}}

-----------------------------------------------------------------------------
(* Bindings that make and destroy channels *)

CreateChannel(ch) ==
    /\ up /\ ch \in PublicChan /\ ~Exists(ch)
    /\ \E t \in Text : chan' = [chan EXCEPT ![ch] = NewChannel("public", NoUser, t)]
    /\ UNCHANGED <<channelOpList, disk, up, faults>>

\* The name is a hash that no channel has, so none that was in the file.  CCR
\* joins the creator.
CreatePrivateChannel(ch, u) ==
    /\ up /\ ch \notin PublicChan \cup SpecialChan /\ ~Exists(ch)
    /\ disk # Torn => ch \notin DOMAIN disk
    /\ \E t \in Text :
         chan' = [chan EXCEPT ![ch] = Join(NewChannel("private", u, t), u)]
    /\ UNCHANGED <<channelOpList, disk, up, faults>>

CreateSpecialPrivateChannel ==
    [NewChannel("private", NoUser, CHOOSE t \in Text : TRUE)
        EXCEPT !.canDestroy = FALSE]

DestroyChannel(ch) ==
    /\ up /\ Exists(ch)
    /\ chan' = [chan EXCEPT ![ch] = NoChannel]
    /\ channelOpList' = IF chan[ch].type = "public"
                        THEN ChannelOps(chan') ELSE channelOpList
    /\ UNCHANGED <<disk, up, faults>>

-----------------------------------------------------------------------------
(* Bindings that change a channel *)

\* The channel ch becomes k.
Update(ch, k) ==
    /\ up /\ Exists(ch)
    /\ chan' = [chan EXCEPT ![ch] = k]
    /\ UNCHANGED <<disk, up, faults>>

JoinChannel(ch, u) ==
    /\ u \notin chan[ch].participants
    /\ Update(ch, Join(chan[ch], u))
    /\ UNCHANGED channelOpList

Abandoned(k) ==
    /\ k.participants = {}
    /\ \/ k.type = "private" /\ k.canDestroy
       \/ k.type = "pubprivate" /\ k.top < TopUsers

\* Lua's partChannel goes on to destroy a room that is abandoned.
PartChannel(ch, u) ==
    LET k == Part(chan[ch], u) IN
    /\ u \in chan[ch].participants
    /\ Update(ch, IF Abandoned(k) THEN NoChannel ELSE k)
    /\ UNCHANGED channelOpList

BanFor(ch, u, length) ==
    /\ Update(ch, [chan[ch] EXCEPT !.bans[u] = length])
    /\ UNCHANGED channelOpList

ChannelBan(ch, u) == BanFor(ch, u, Forever)
ChannelTimeout(ch, u, length) == BanFor(ch, u, length)

Unban(ch, u) ==
    /\ chan[ch].bans[u] # NoBan
    /\ BanFor(ch, u, NoBan)

AddMod(ch, u) ==
    LET k == [chan[ch] EXCEPT !.moderators = @ \cup {u}] IN
    /\ Update(ch, k)
    /\ channelOpList' = IF k.type = "public"
                        THEN ChannelOps([chan EXCEPT ![ch] = k]) ELSE channelOpList

RemoveMod(ch, u) ==
    LET k == [chan[ch] EXCEPT !.moderators = @ \ {u}] IN
    /\ Update(ch, k)
    /\ channelOpList' = IF k.type = "public"
                        THEN ChannelOps([chan EXCEPT ![ch] = k]) ELSE channelOpList

SetOwner(ch, u) ==
    /\ Update(ch, [chan[ch] EXCEPT !.owner = u])
    /\ UNCHANGED channelOpList

SetPublic(ch, open) ==
    /\ chan[ch].type \in {"private", "pubprivate"}
    /\ Update(ch, [chan[ch] EXCEPT !.type = IF open THEN "pubprivate" ELSE "private"])
    /\ UNCHANGED channelOpList

SetText(ch, t) ==
    /\ Update(ch, [chan[ch] EXCEPT !.text = t])
    /\ UNCHANGED channelOpList

SetDescription(ch, t) == SetText(ch, t)
SetTitle(ch, t) == SetText(ch, t)
SetMode(ch, t) == SetText(ch, t)

-----------------------------------------------------------------------------
(* Saving, stopping and starting *)

\* Mutated form of IsUnused: a room that was large once is kept.
IsUnusedSmall(k) ==
    /\ k.type = "pubprivate" /\ k.participants = {}
    /\ k.idle > Day /\ k.top < TopUsers

IsUnused(k) ==
    k.type = "pubprivate" /\ k.participants = {} /\ k.idle > Day

RemoveUnusedChannels ==
    chan' = [ch \in Chan |-> IF IsUnused(chan[ch]) THEN NoChannel ELSE chan[ch]]

SaveChannels(chans) ==
    [ch \in {x \in Chan : chans[x].type \in {"public", "pubprivate"}} |->
        SaveChannel(chans[ch])]

\* idleTasksCallback, every saveinterval seconds.
IdleTasks ==
    /\ up
    /\ RemoveUnusedChannels
    /\ disk' = SaveChannels(chan')
    /\ UNCHANGED <<channelOpList, up, faults>>

\* The file cannot be opened, or is truncated and then not written; nobody
\* looks at either.
IdleTasksFail ==
    /\ up /\ faults < MaxFaults
    /\ RemoveUnusedChannels
    /\ disk' \in {disk, Torn}
    /\ faults' = faults + 1
    /\ UNCHANGED <<channelOpList, up>>

Stopped ==
    /\ up' = FALSE
    /\ chan' = [ch \in Chan |-> NoChannel]
    /\ channelOpList' = {}

\* Server::run saves the channels as they are when it ends.
Halt ==
    /\ up /\ faults < MaxFaults
    /\ disk' = SaveChannels(chan)
    /\ faults' = faults + 1
    /\ Stopped

\* The process ends at any instant, that between truncating and writing the
\* file included.
Crash ==
    /\ up /\ faults < MaxFaults
    /\ disk' \in {disk, Torn}
    /\ faults' = faults + 1
    /\ Stopped

\* loadChannels, with the bans of read[ch] for each channel.
LoadChannels(read) ==
    [ch \in Chan |->
        IF disk # Torn /\ ch \in DOMAIN disk THEN LoadChannel(disk[ch], read[ch])
        ELSE NoChannel]

\* chat_init makes the staff room if it is not there.
ChatInit(chans) ==
    [ch \in Chan |-> IF ch \in SpecialChan /\ chans[ch].type = "absent"
                     THEN CreateSpecialPrivateChannel ELSE chans[ch]]

\* Server::run loads the channels, rebuilds the list of operators, and then
\* starts Lua, which calls chat_init.
Start ==
    /\ ~up /\ up' = TRUE
    /\ \E read \in [Chan -> SUBSET User] :
         /\ disk # Torn => \A ch \in DOMAIN disk : read[ch] \in BansRead(disk[ch].bans)
         /\ chan' = ChatInit(LoadChannels(read))
    /\ channelOpList' = ChannelOps(chan')
    /\ UNCHANGED <<disk, faults>>

Elapse(bans, over) ==
    [u \in User |->
        CASE bans[u] \in 1..MaxLength -> bans[u] - 1
          [] bans[u] = 0 -> over
          [] OTHER -> bans[u]]

Tick ==
    /\ chan' = [ch \in Chan |->
                  [chan[ch] EXCEPT !.bans = Elapse(@, NoBan),
                                   !.idle = IF @ > Day THEN @ ELSE @ + 1]]
    /\ disk' = IF disk = Torn THEN Torn
               ELSE [ch \in DOMAIN disk |-> [disk[ch] EXCEPT !.bans = Elapse(@, Over)]]
    /\ UNCHANGED <<channelOpList, up, faults>>

Init ==
    /\ chan = ChatInit([ch \in Chan |-> NoChannel])
    /\ channelOpList = {}
    /\ disk = SaveChannels(chan)
    /\ up = TRUE /\ faults = 0

Binding(ch) ==
    \/ CreateChannel(ch) \/ DestroyChannel(ch)
    \/ \E u \in User :
         \/ CreatePrivateChannel(ch, u) \/ JoinChannel(ch, u) \/ PartChannel(ch, u)
         \/ ChannelBan(ch, u) \/ Unban(ch, u)
         \/ AddMod(ch, u) \/ RemoveMod(ch, u) \/ SetOwner(ch, u)
         \/ \E length \in 0..MaxLength : ChannelTimeout(ch, u, length)
    \/ \E open \in BOOLEAN : SetPublic(ch, open)
    \/ \E t \in Text : SetDescription(ch, t) \/ SetTitle(ch, t) \/ SetMode(ch, t)

Next ==
    \/ \E ch \in Chan : Binding(ch)
    \/ IdleTasks \/ IdleTasksFail \/ Halt \/ Crash \/ Start \/ Tick

Spec == Init /\ [][Next]_vars

\* Time goes on, a server that stopped is started again, and the timer of
\* the idle tasks fires.
Fairness == WF_vars(Tick) /\ WF_vars(Start) /\ WF_vars(IdleTasks)

-----------------------------------------------------------------------------
(* Properties *)

IsBanned(k, u) == k.bans[u] \in 0..Forever

TypeOK ==
    /\ \A ch \in Chan :
        /\ chan[ch].type \in {"public", "private", "pubprivate", "absent"}
        /\ chan[ch].owner \in User \cup {NoUser}
        /\ chan[ch].bans \in [User -> {NoBan} \cup 0..Forever]
        /\ chan[ch].participants \subseteq User
        /\ chan[ch].idle \in 0..(Day + 1)
    /\ disk = Torn \/ (DOMAIN disk \subseteq Chan /\ \A ch \in DOMAIN disk : disk[ch] \in Saved)
    /\ up \in BOOLEAN

\* A start brings back every channel of a whole file as it was saved, with
\* its type, owner, moderators, text and size, and as long as they are no
\* more than MaxBans, whoever is banned for a while yet; it makes no other
\* channel but the staff room, and admits nobody to any.
Restored ==
    ~up /\ up' =>
        \A ch \in Chan :
            IF disk # Torn /\ ch \in DOMAIN disk
            THEN /\ chan'[ch].type = disk[ch].type /\ chan'[ch].owner = disk[ch].owner
                 /\ chan'[ch].moderators = disk[ch].moderators
                 /\ chan'[ch].top = disk[ch].top /\ chan'[ch].text = disk[ch].text
                 /\ Cardinality({u \in User : disk[ch].bans[u] # NoBan}) <= MaxBans =>
                        \A u \in User :
                            IsBanned(chan'[ch], u) <=> disk[ch].bans[u] \in 0..Forever
            ELSE Exists(ch)' => ch \in SpecialChan

\* A halt loses no ban, owner or moderator of a channel that is not closed:
\* what the file then has is what memory had, down to the time left.
HaltKeeps ==
    up /\ ~up' /\ disk' \notin {disk, Torn} =>
        \A ch \in Chan : chan[ch].type \in {"public", "pubprivate"} =>
            /\ ch \in DOMAIN disk'
            /\ disk'[ch].bans = chan[ch].bans
            /\ disk'[ch].moderators = chan[ch].moderators
            /\ disk'[ch].owner = chan[ch].owner

\* The operators of public channels are known from the first login on, and
\* through every change of moderators and channels.
OpListAgrees == up => channelOpList = ChannelOps(chan)

\* What is in memory and in the file, whatever was done to the channels and
\* however the server ended.
ChannelsOK == TypeOK /\ OpListAgrees

\* An open room in which nobody is any more does not stay as it is: it is
\* removed, joined or closed, however large it once was and however often
\* the server was restarted.
EmptyRoomsGo ==
    \A ch \in Chan :
        chan[ch].type = "pubprivate" /\ chan[ch].participants = {} ~>
            chan[ch].type # "pubprivate" \/ chan[ch].participants # {}

\* The file is whole and agrees with memory again and again: the idle tasks
\* repair one that a crash or a full disk left behind.
ChannelsRepaired == []<>(up /\ disk = SaveChannels(chan))

\* What the idle tasks are for: unused rooms go, and the file is repaired.
ChannelsTidied == EmptyRoomsGo /\ ChannelsRepaired
=============================================================================
