----------------------------- MODULE MCChannels -----------------------------
(***************************************************************************)
(* Channels for TLC.  All users and channels together are too many, so a   *)
(* behaviour is about some of them, which "part" names, while the others   *)
(* stay as they are:                                                       *)
(*   room    three ordinary users, a room and the staff room               *)
(*   admin   a user and an admin, another room and the staff room          *)
(*   public  a user and an admin, two public channels and the staff room   *)
(*   staff   a member of the site's staff and an admin in the staff room   *)
(***************************************************************************)
EXTENDS Channels, TLC

CONSTANTS
    alice, bob, carol, amy, root, sam,
    room, hall, lobby, den

VARIABLE part

UsersOf ==
    [p \in {"room", "admin", "public", "staff"} |->
        CASE p = "room" -> {alice, bob, carol}
          [] p = "staff" -> {sam, root}
          [] OTHER -> {amy, root}]

ChansOf ==
    [p \in {"room", "admin", "public", "staff"} |->
        {StaffRoom} \cup
            CASE p = "room" -> {room}
              [] p = "admin" -> {hall}
              [] p = "public" -> {lobby, den}
              [] p = "staff" -> {}]

MCInit == Init /\ part \in DOMAIN UsersOf

MCNext ==
    /\ UNCHANGED part
    /\ \/ \E u \in UsersOf[part] : MemberStep(u)
       \/ \E u, v \in UsersOf[part], ch \in ChansOf[part] : ModeratorStep(u, ch, v)
       \/ \E ch \in ChansOf[part], v \in UsersOf[part] : TimeoutEnds(ch, v)
       \/ \E unused \in SUBSET ChansOf[part] : RemoveUnusedChannels(unused)
    /\ \A ch \in Chan \ ChansOf[part] : chan'[ch] = chan[ch]

MCSpec == MCInit /\ [][MCNext]_<<part, vars>>

-----------------------------------------------------------------------------
(* Bounds and symmetry *)

\* The three users of the room; no other part has them.
Symmetry == Permutations({alice, bob, carol})

\* But for the room, nobody but one user is banned, from one public channel
\* or from the staff room where it is alone.  Only hall and that staff room
\* have owners.  The second public channel has amy for a moderator only, and
\* private channels beside the busy one stay private and have participants
\* only.
Busy == {hall, lobby} \cup (IF part = "staff" THEN {StaffRoom} ELSE {})

Bounds ==
    part # "room" =>
        \A ch \in ChansOf[part] :
            /\ BanCount(chan[ch]) <= IF ch \in Busy \ {hall} THEN 1 ELSE 0
            /\ ch # hall /\ part # "staff" => chan[ch].owner = NoUser
            /\ ch \notin Busy =>
                IF ch = den
                THEN chan[ch].participants = {} /\ root \notin chan[ch].moderators
                ELSE chan[ch].moderators = {} /\ chan[ch].type # "pubprivate"
=============================================================================
