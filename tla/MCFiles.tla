------------------------------ MODULE MCFiles ------------------------------
(***************************************************************************)
(* Files for TLC: the lists, and a channel of each kind.  None has to do   *)
(* with the others, so each is checked while the others rest: "part" is    *)
(* the one that moves.  The public channel can have more bans than are     *)
(* loaded.                                                                 *)
(***************************************************************************)
EXTENDS Files

CONSTANTS
    room, hall, desk,   \* a room, a public channel and the staff room
    alice, bob

VARIABLE part

ASSUME StoredAssumption == F!FilesAssumption /\ C!SavedAssumption

lists ==
    <<ops, scops, bans, timeouts, disk, saving, writing, reloading, up, now,
      fileFaults, failed, edited>>
channels == <<chan, channelOpList, channelsFile, running, halts>>

\* A channel that rests is as a start without a file leaves it.
Rests(ch) == chan[ch] \in {C!NoChannel, C!CreateSpecialPrivateChannel}

\* bob does nothing.  The public channel has bans for good, of both; the
\* others have bans of alice, for any time.
Moves(ch) ==
    /\ bob \notin chan[ch].participants \cup chan[ch].moderators \cup {chan[ch].owner}
    /\ IF ch \in PublicChan
       THEN chan[ch].bans \in [User -> {C!NoBan, C!Forever}]
       ELSE chan[ch].bans[bob] = C!NoBan

MCInit ==
    /\ part \in {"lists"} \cup Chan
    /\ F!Init /\ C!Init
    /\ part # "lists" => ops = {} /\ bans = {}

MCNext ==
    \/ part = "lists" /\ F!Next /\ UNCHANGED <<part, channels>>
    \/ /\ part # "lists" /\ C!Next /\ UNCHANGED <<part, lists>>
       /\ \A ch \in Chan : IF ch = part THEN Moves(ch)' ELSE Rests(ch)'

MCSpec ==
    /\ MCInit /\ [][MCNext]_<<part, lists, channels>>
    /\ []<>(part # "lists") \/ F!Fairness
    /\ []<>(part = "lists") \/ C!Fairness

-----------------------------------------------------------------------------
(* A property of both modules *)

\* After the last fault the files are whole, and empty rooms have gone
\* (Persistence, SavedChannels).
TidiedUp == F!Repaired /\ C!ChannelsTidied
=============================================================================
