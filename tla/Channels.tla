------------------------------ MODULE Channels ------------------------------
(***************************************************************************)
(* Chat channels: who is in which, who may join, invite, kick, ban and     *)
(* moderate, and when a channel is created and destroyed.  The handlers    *)
(* are Lua (script/main.lua); the state they change is that of Channel,    *)
(* of ServerState's channelMap and channelOpList, and of the connections'  *)
(* channel lists and roles.                                                *)
(*                                                                         *)
(* A handler runs to its end in the single threaded loop and is an action. *)
(* A refused command changes nothing and is no action.  A user stands for  *)
(* the connection found under a character's name; Connections models how   *)
(* connections get and lose a name.  Character names are given as the      *)
(* server spells them.  Messages, descriptions, titles and modes are left  *)
(* out, and the time of a ban is reduced to whether it runs out.           *)
(***************************************************************************)
EXTENDS Integers, FiniteSets

CONSTANTS
    User,         \* characters
    NoUser,       \* the empty string, the owner of a channel without one
    Chan,         \* names of channels
    PublicChan,   \* those that CRC makes
    StaffRoom,    \* adh-uberawesomestaffroom, made by chat_init
    Admin,        \* users with the role "admin"
    Global,       \* users with the role "global"
    SuperCop,     \* users with the role "super-cop"
    SiteStaff,    \* users whose account has another staff bit
    LowerCase,    \* users whose name has no upper-case letter
    NoChannelLimit, \* users "adl", who may join any number of channels
    MaxJoined,    \* channels another user may join (75)
    MaxBans,      \* MAX_CHANNEL_BANS (300)
    TopUsers      \* size that makes an open room outlive its users (5)

ASSUME UserAssumption == IsFiniteSet(User) /\ NoUser \notin User
ASSUME ChanAssumption ==
    PublicChan \subseteq Chan /\ StaffRoom \in Chan \ PublicChan
ASSUME RoleAssumption ==
    Admin \cup Global \cup SuperCop \cup SiteStaff \cup LowerCase
        \cup NoChannelLimit \subseteq User
ASSUME BoundAssumption == MaxJoined \in Nat /\ MaxBans \in Nat /\ TopUsers \in Nat

VARIABLES
    chan,           \* ServerState: the channel objects of channelMap
    channelList,    \* ConnectionInstance: the channels a user has joined
    presence,       \* is the user's connection in the map, and is it open
    cop,            \* ConnectionInstance: users with the role "cop"
    channelOpList   \* ServerState: operators of public channels

vars == <<chan, channelList, presence, cop, channelOpList>>

-----------------------------------------------------------------------------
(* Channel *)

Ban == {"none", "timed", "permanent"}

Channel ==
    [type : {"public", "private", "pubprivate", "absent"},
     participants : SUBSET User, participantCount : Int, topUsers : Nat,
     owner : User \cup {NoUser}, moderators : SUBSET User,
     bans : [User -> Ban], invites : SUBSET User, canDestroy : BOOLEAN]

NewChannel(type) ==
    [type |-> type, participants |-> {}, participantCount |-> 0,
     topUsers |-> 0, owner |-> NoUser, moderators |-> {},
     bans |-> [u \in User |-> "none"], invites |-> {}, canDestroy |-> TRUE]

\* The name is not in channelMap.
NoChannel == NewChannel("absent")

\* What createPrivateChannel and createSpecialPrivateChannel make.
PrivateChannel(creator) ==
    [NewChannel("private") EXCEPT !.invites = {creator}, !.owner = creator]
SpecialPrivateChannel == [NewChannel("private") EXCEPT !.canDestroy = FALSE]

Join(k, u) ==
    [k EXCEPT !.participantCount = @ + 1,
              !.participants = @ \cup {u},
              !.topUsers = IF k.participantCount + 1 > @
                           THEN k.participantCount + 1 ELSE @]

\* Mutated form of Part: the count is left as it was.
PartUncounted(k, u) == [k EXCEPT !.participants = @ \ {u}]

Part(k, u) ==
    [k EXCEPT !.participantCount = @ - 1, !.participants = @ \ {u}]

IsOwner(k, u) == k.owner = u
IsMod(k, u) == IsOwner(k, u) \/ u \in k.moderators
IsBanned(k, u) == k.bans[u] # "none"
BanCount(k) == Cardinality({u \in User : IsBanned(k, u)})

\* removeInvite, which only private channels take.
Uninvite(k, u) ==
    IF k.type = "private" THEN [k EXCEPT !.invites = @ \ {u}] ELSE k

\* Mutated form of Abandoned: an empty private channel is kept.
AbandonedIfOpen(k) ==
    k.type = "pubprivate" /\ k.participantCount <= 0 /\ k.topUsers < TopUsers

\* partChannel destroys a channel it leaves in this state.
Abandoned(k) ==
    /\ k.participantCount <= 0
    /\ \/ k.type = "private" /\ k.canDestroy
       \/ k.type = "pubprivate" /\ k.topUsers < TopUsers

-----------------------------------------------------------------------------
(* Who is who *)

Exists(ch) == chan[ch].type # "absent"
Online(u) == presence[u] = "online"

\* u.getConnection also finds a closed connection that is not cleaned up yet.
Found(u) == presence[u] # "offline"

Staff == Admin \cup Global

PublicStaffOverride(u, k) ==
    u \in Staff \/ (k.type = "public" /\ u \in SuperCop)

\* rebuildChannelOpList.
ChannelOps(chans) ==
    UNION {chans[ch].moderators : ch \in {x \in Chan : chans[x].type = "public"}}

Commands(u, ch) == Online(u) /\ Exists(ch)
-----------------------------------------------------------------------------
(* Joining and leaving *)

\* Lua's joinChannel, for the channel object k.
JoinChannel(ch, k, u) ==
    /\ chan' = [chan EXCEPT ![ch] = Join(k, u)]
    /\ channelList' = [channelList EXCEPT ![u] = @ \cup {ch}]

\* The channel lists after the channels of gone were destroyed, which parts
\* whoever is in them, and u left those of left.
ListsAfter(left, gone, u) ==
    [v \in User |->
        channelList[v]
            \ ((IF v = u THEN left ELSE {})
                \cup {ch \in gone : v \in chan[ch].participants})]

\* Lua's partChannel, for the channel object k.
Remains(k, u) == IF Abandoned(Part(k, u)) THEN NoChannel ELSE Part(k, u)
PartChannel(ch, k, u) ==
    /\ chan' = [chan EXCEPT ![ch] = Remains(k, u)]
    /\ channelList' =
           ListsAfter({ch}, IF Abandoned(Part(k, u)) THEN {ch} ELSE {}, u)

\* Mutated form of MayJoin: a ban does not keep anyone out.
MayJoinBanned(u, k) ==
    k.type = "private" => u \in k.invites \/ IsOwner(k, u) \/ u \in Staff

\* Bans and the door of a private channel do not hold for its owner, admins
\* and global moderators.
MayJoin(u, k) ==
    \/ IsOwner(k, u) \/ u \in Staff
    \/ ~IsBanned(k, u) /\ (k.type = "private" => u \in k.invites)

JCH(u, ch) ==
    /\ Commands(u, ch)
    /\ Cardinality(channelList[u]) < MaxJoined \/ u \in NoChannelLimit
    /\ u \notin chan[ch].participants
    /\ MayJoin(u, chan[ch])
    /\ JoinChannel(ch, chan[ch], u)
    /\ UNCHANGED <<presence, cop, channelOpList>>

LCH(u, ch) ==
    /\ Commands(u, ch)
    /\ u \in chan[ch].participants
    /\ PartChannel(ch, chan[ch], u)
    /\ UNCHANGED <<presence, cop, channelOpList>>

-----------------------------------------------------------------------------
(* Creating and destroying channels *)

\* The name of a private channel is a hash that no channel has.
CCR(u, ch) ==
    /\ Online(u)
    /\ ch \notin PublicChan \cup {StaffRoom} /\ ~Exists(ch)
    /\ JoinChannel(ch, PrivateChannel(u), u)
    /\ UNCHANGED <<presence, cop, channelOpList>>

CRC(u, ch) ==
    /\ Online(u) /\ u \in Admin
    /\ ch \in PublicChan /\ ~Exists(ch)
    /\ chan' = [chan EXCEPT ![ch] = NewChannel("public")]
    /\ UNCHANGED <<channelList, presence, cop, channelOpList>>

\* c.destroyChannel.
DestroyChannel(ch) ==
    /\ chan' = [chan EXCEPT ![ch] = NoChannel]
    /\ channelList' = [v \in User |->
                         IF v \in chan[ch].participants
                         THEN channelList[v] \ {ch} ELSE channelList[v]]
    /\ channelOpList' = IF chan[ch].type = "public"
                        THEN ChannelOps(chan') ELSE channelOpList

KIC(u, ch) ==
    /\ Commands(u, ch)
    /\ IsOwner(chan[ch], u) \/ u \in Admin
    /\ DestroyChannel(ch)
    /\ UNCHANGED <<presence, cop>>

RST(u, ch, status) ==
    /\ Commands(u, ch)
    /\ IsOwner(chan[ch], u) \/ u \in Staff
    /\ chan[ch].type \in {"private", "pubprivate"}
    /\ chan' = [chan EXCEPT ![ch].type = status]
    /\ UNCHANGED <<channelList, presence, cop, channelOpList>>

\* idleTasksCallback counts the participants of every channel and removes
\* the open rooms that were empty for a day.
RemoveUnusedChannels(unused) ==
    /\ \A ch \in unused :
        chan[ch].type = "pubprivate" /\ chan[ch].participants = {}
    /\ chan' = [ch \in Chan |->
                 IF ch \in unused THEN NoChannel
                 ELSE [chan[ch] EXCEPT !.participantCount =
                                         Cardinality(chan[ch].participants)]]
    /\ UNCHANGED <<channelList, presence, cop, channelOpList>>

\* ZZZ reloads main.lua, and chat_init makes the staff room if it is gone.
ReloadLua(u) ==
    /\ Online(u) /\ u \in Admin
    /\ ~Exists(StaffRoom)
    /\ chan' = [chan EXCEPT ![StaffRoom] = SpecialPrivateChannel]
    /\ UNCHANGED <<channelList, presence, cop, channelOpList>>

-----------------------------------------------------------------------------
(* Bans, kicks and invitations *)

\* Mutated form of DeniedOnOp: the role "cop" is not looked at.
DeniedOnOpHere(u, k, v) ==
    \/ /\ k.type = "public"
       /\ IsMod(k, v) \/ v \in Staff \cup SuperCop
    \/ /\ ~PublicStaffOverride(u, k)
       /\ IsOwner(k, v) \/ v \in Global

\* Nobody may turn on the moderators of a public channel and the staff in
\* it, nor, without the override, on the owner or a global moderator.
DeniedOnOp(u, k, v) ==
    \/ /\ k.type = "public"
       /\ IsMod(k, v) \/ v \in Staff \cup SuperCop \cup cop
    \/ /\ ~PublicStaffOverride(u, k)
       /\ IsOwner(k, v) \/ v \in Global

\* Mutated form of BanOrTimeout: the banned user stays in the channel.
BanOrTimeoutInside(u, ch, v, ban) ==
    LET k == Uninvite(chan[ch], v) IN
    /\ Commands(u, ch)
    /\ ban = "timed" => u \in k.participants
    /\ \/ PublicStaffOverride(u, k)
       \/ IsMod(k, u) /\ BanCount(k) < MaxBans
    /\ Found(v) => ~DeniedOnOp(u, k, v)
    /\ chan' = [chan EXCEPT ![ch] = [k EXCEPT !.bans[v] = ban]]
    /\ UNCHANGED <<channelList, presence, cop, channelOpList>>

\* CBU ("permanent") and CTU ("timed"), which needs its sender inside.  The
\* invitation is taken back before an existing ban ends the handler.  A user
\* who is not online is banned by name, whoever it is.
BanOrTimeout(u, ch, v, ban) ==
    LET k == Uninvite(chan[ch], v)
        banned == [k EXCEPT !.bans[v] = ban]
    IN
    /\ Commands(u, ch)
    /\ ban = "timed" => u \in k.participants
    /\ \/ PublicStaffOverride(u, k)
       \/ IsMod(k, u) /\ BanCount(k) < MaxBans
    /\ Found(v) => ~DeniedOnOp(u, k, v)
    /\ \/ /\ IsBanned(k, v)
          /\ chan' = [chan EXCEPT ![ch] = k]
          /\ UNCHANGED channelList
       \/ /\ ~IsBanned(k, v)
          /\ ~Found(v) \/ v \notin k.participants
          /\ chan' = [chan EXCEPT ![ch] = banned]
          /\ UNCHANGED channelList
       \/ /\ ~IsBanned(k, v)
          /\ Found(v) /\ v \in k.participants
          /\ PartChannel(ch, banned, v)
    /\ UNCHANGED <<presence, cop, channelOpList>>

CKU(u, ch, v) ==
    /\ Commands(u, ch) /\ Found(v)
    /\ IsMod(chan[ch], u) \/ PublicStaffOverride(u, chan[ch])
    /\ {u, v} \subseteq chan[ch].participants
    /\ ~DeniedOnOp(u, chan[ch], v)
    /\ PartChannel(ch, Uninvite(chan[ch], v), v)
    /\ UNCHANGED <<presence, cop, channelOpList>>

CUB(u, ch, v) ==
    /\ Commands(u, ch)
    /\ IsMod(chan[ch], u) \/ PublicStaffOverride(u, chan[ch])
    /\ IsBanned(chan[ch], v)
    /\ chan' = [chan EXCEPT ![ch].bans[v] = "none"]
    /\ UNCHANGED <<channelList, presence, cop, channelOpList>>

\* The time of a timed ban is over; it is erased when next looked at.
TimeoutEnds(ch, v) ==
    /\ chan[ch].bans[v] = "timed"
    /\ chan' = [chan EXCEPT ![ch].bans[v] = "none"]
    /\ UNCHANGED <<channelList, presence, cop, channelOpList>>

\* Inviting to an open room only sends a message.
CIU(u, ch, v) ==
    /\ Commands(u, ch) /\ Found(v)
    /\ u \in chan[ch].participants
    /\ chan[ch].type = "private"
    /\ IsMod(chan[ch], u) \/ u \in Staff
    /\ chan' = [chan EXCEPT ![ch].invites = @ \cup {v}]
    /\ UNCHANGED <<channelList, presence, cop, channelOpList>>

-----------------------------------------------------------------------------
(* Owners and moderators *)

CSO(u, ch, v) ==
    /\ Commands(u, ch) /\ Found(v)
    /\ IsOwner(chan[ch], u) \/ u \in Staff
    /\ chan' = [chan EXCEPT ![ch].owner = v]
    /\ UNCHANGED <<channelList, presence, cop, channelOpList>>

\* c.addMod and c.removeMod look the connection up by the name as it is
\* spelt, in a map whose keys are lower case.
FoundAsSpelt(v) == Found(v) /\ v \in LowerCase

COA(u, ch, v) ==
    /\ Commands(u, ch)
    /\ IsOwner(chan[ch], u) \/ u \in Staff
    /\ ~IsMod(chan[ch], v)
    /\ chan' = [chan EXCEPT ![ch].moderators = @ \cup {v}]
    /\ IF chan[ch].type = "public"
       THEN /\ channelOpList' = ChannelOps(chan')
            /\ cop' = IF FoundAsSpelt(v) THEN cop \cup {v} ELSE cop
       ELSE UNCHANGED <<cop, channelOpList>>
    /\ UNCHANGED <<channelList, presence>>

\* Mutated form of COR: the list of operators is not rebuilt.
CORStale(u, ch, v) ==
    /\ Commands(u, ch)
    /\ IsOwner(chan[ch], u) \/ u \in Staff
    /\ IsMod(chan[ch], v)
    /\ chan' = [chan EXCEPT ![ch].moderators = @ \ {v}]
    /\ UNCHANGED <<channelList, presence, cop, channelOpList>>

\* The owner passes for a moderator.  Removing one from a public channel
\* takes back the invitation to the staff room.
COR(u, ch, v) ==
    /\ Commands(u, ch)
    /\ IsOwner(chan[ch], u) \/ u \in Staff
    /\ IsMod(chan[ch], v)
    /\ LET removed == [chan EXCEPT ![ch].moderators = @ \ {v}] IN
       IF chan[ch].type = "public"
       THEN /\ chan' = [removed EXCEPT ![StaffRoom] = Uninvite(@, v)]
            /\ channelOpList' = ChannelOps(removed)
            /\ cop' = IF FoundAsSpelt(v) /\ v \notin channelOpList'
                      THEN cop \ {v} ELSE cop
       ELSE chan' = removed /\ UNCHANGED <<cop, channelOpList>>
    /\ UNCHANGED <<channelList, presence>>

-----------------------------------------------------------------------------
(* Logging in and out *)

IsStaff(u) == u \in Global \cup SuperCop \cup SiteStaff \cup channelOpList

\* ident_callback for a user without an older connection.  Staff is invited
\* to the staff room and joined, banned there or not; if the room is not
\* private the invitation raises an error, and that is where it ends.
Login(u) ==
    /\ presence[u] = "offline"
    /\ presence' = [presence EXCEPT ![u] = "online"]
    /\ cop' = IF u \in channelOpList THEN cop \cup {u} ELSE cop \ {u}
    /\ IF IsStaff(u) /\ chan[StaffRoom].type = "private"
       THEN JoinChannel(StaffRoom,
                        [chan[StaffRoom] EXCEPT !.invites = @ \cup {u}], u)
       ELSE UNCHANGED <<chan, channelList>>
    /\ UNCHANGED channelOpList

\* pre_disconnect parts u from every channel of its list and then takes back
\* the invitation to the staff room.
PreDisconnect(u) ==
    LET left == channelList[u]
        after == [ch \in Chan |-> IF ch \in left THEN Remains(chan[ch], u)
                                  ELSE chan[ch]]
        gone == {ch \in left : Abandoned(Part(chan[ch], u))}
    IN
    /\ chan' = [after EXCEPT ![StaffRoom] = Uninvite(@, u)]
    /\ channelList' = ListsAfter(left, gone, u)

\* The connection is closed; it stays in the map until it is cleaned up.
Disconnect(u) ==
    /\ Online(u)
    /\ PreDisconnect(u)
    /\ presence' = [presence EXCEPT ![u] = "closed"]
    /\ UNCHANGED <<cop, channelOpList>>

CleanUp(u) ==
    /\ presence[u] = "closed"
    /\ presence' = [presence EXCEPT ![u] = "offline"]
    /\ UNCHANGED <<chan, channelList, cop, channelOpList>>

\* A second login takes the name from the connection that has it; Login may
\* follow.  If the staff room exists and is not private, pre_disconnect ends
\* in an error and the old connection keeps the name.
Evict(u) ==
    /\ Found(u)
    /\ PreDisconnect(u)
    /\ presence' = [presence EXCEPT ![u] =
                      IF chan'[StaffRoom].type \in {"private", "absent"}
                      THEN "offline" ELSE @]
    /\ UNCHANGED <<cop, channelOpList>>

-----------------------------------------------------------------------------
(* The specification *)

\* Channels.json had the public channels; chat_init makes the staff room.
Init ==
    /\ chan = [ch \in Chan |->
                 IF ch \in PublicChan THEN NewChannel("public")
                 ELSE IF ch = StaffRoom THEN SpecialPrivateChannel
                 ELSE NoChannel]
    /\ channelList = [u \in User |-> {}]
    /\ presence = [u \in User |-> "offline"]
    /\ cop = {}
    /\ channelOpList = {}

MemberStep(u) ==
    \/ Login(u) \/ Disconnect(u) \/ CleanUp(u) \/ Evict(u) \/ ReloadLua(u)
    \/ \E ch \in Chan : JCH(u, ch) \/ LCH(u, ch) \/ CCR(u, ch) \/ CRC(u, ch)
                        \/ KIC(u, ch)
    \/ \E ch \in Chan, status \in {"private", "pubprivate"} : RST(u, ch, status)

ModeratorStep(u, ch, v) ==
    \/ \E ban \in {"timed", "permanent"} : BanOrTimeout(u, ch, v, ban)
    \/ CKU(u, ch, v) \/ CUB(u, ch, v) \/ CIU(u, ch, v)
    \/ CSO(u, ch, v) \/ COA(u, ch, v) \/ COR(u, ch, v)

Next ==
    \/ \E u \in User : MemberStep(u)
    \/ \E u, v \in User, ch \in Chan : ModeratorStep(u, ch, v)
    \/ \E ch \in Chan, v \in User : TimeoutEnds(ch, v)
    \/ \E unused \in SUBSET Chan : RemoveUnusedChannels(unused)

Spec == Init /\ [][Next]_vars

-----------------------------------------------------------------------------
(* Properties *)

\* The variables keep their types; no count is ever negative.
TypeOK ==
    /\ chan \in [Chan -> Channel]
    /\ channelList \in [User -> SUBSET Chan]
    /\ presence \in [User -> {"online", "closed", "offline"}]
    /\ cop \subseteq User
    /\ channelOpList \subseteq User
    /\ \A ch \in Chan : chan[ch].participantCount >= 0

\* "This must be kept in sync with the actual channel user list" (README.md):
\* a connection's list has the channels that have it as a participant.  A
\* list with a channel that is gone, or a participant that is, would keep a
\* dead object alive and sendAll writing to it.
InSync ==
    \A u \in User, ch \in Chan :
        u \in chan[ch].participants <=> ch \in channelList[u]

\* participantCount, which decides whether a channel is destroyed and which
\* its destructor asserts to be zero, is the number of participants.
CountAgrees ==
    \A ch \in Chan :
        chan[ch].participantCount = Cardinality(chan[ch].participants)

\* Nobody who disconnected or lost the character is in a channel.
MembersAreOnline ==
    \A ch \in Chan : \A u \in chan[ch].participants : Online(u)

\* channelOpList, which logins and DeniedOnOp rest on, has exactly the
\* moderators of the public channels there are.
OpListAgrees == channelOpList = ChannelOps(chan)

\* Channels, connections and the list of operators agree with each other.
ChannelsOK ==
    TypeOK /\ InSync /\ CountAgrees /\ MembersAreOnline /\ OpListAgrees

\* A channel that its last participant leaves, by whatever command, ban or
\* disconnect, is destroyed, unless it is public, the staff room as it was
\* made, or an open room that was large once.
AbandonedIsDestroyed ==
    [][\A ch \in Chan :
        chan[ch].participants # {} /\ chan'[ch].participants = {} =>
            \/ chan'[ch].type \in {"absent", "public"}
            \/ chan'[ch].type = "private" /\ ~chan'[ch].canDestroy
            \/ chan'[ch].type = "pubprivate" /\ chan'[ch].topUsers >= TopUsers]_vars

\* A ban takes effect at once: who is banned is out of the channel and, if
\* it is private, no longer invited.
BanTakesEffect ==
    [][\A ch \in Chan, u \in User :
        chan[ch].bans[u] = "none" /\ chan'[ch].bans[u] # "none" =>
            /\ u \notin chan'[ch].participants
            /\ chan'[ch].type = "private" => u \notin chan'[ch].invites]_vars

\* Nobody enters a channel they are banned from, or a private one they are
\* not invited to, but its owner, admins and global moderators.  The staff
\* room is an exception: a login joins staff to it without a look at bans.
EntryByRight ==
    [][\A ch \in Chan, u \in User :
        u \in chan'[ch].participants \ chan[ch].participants =>
            \/ IsOwner(chan'[ch], u) \/ u \in Staff
            \/ /\ IsBanned(chan[ch], u) => ch = StaffRoom
               /\ chan[ch].type = "private" => u \in chan'[ch].invites]_vars

\* Staff, and operators of any public channel, cannot be banned from a
\* public channel while they are online: the role "cop" follows the list of
\* operators, for names without upper-case letters.
Protected(u) == u \in Staff \cup SuperCop \cup (channelOpList \cap LowerCase)

OperatorsAreSafe ==
    \A ch \in PublicChan, u \in User :
        Found(u) /\ Protected(u) /\ Exists(ch) /\ chan[ch].bans[u] = "none"
            => chan'[ch].bans[u] = "none"

\* Operators of one public channel are safe in all of them, at every step.
OperatorsStaySafe == [][OperatorsAreSafe]_vars
=============================================================================
