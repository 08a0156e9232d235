-------------------------------- MODULE Files --------------------------------
(***************************************************************************)
(* What the server keeps in files: the lists of operators and bans         *)
(* (Persistence) and the channels (SavedChannels).  The idle tasks write   *)
(* both; neither has to do with the other.                                 *)
(***************************************************************************)
EXTENDS Integers

CONSTANTS Character, Account, MaxTime, MaxLength, MaxFileFaults, Torn

VARIABLES
    ops, scops, bans, timeouts, disk, saving, writing, reloading, up, now,
    fileFaults, failed, edited

F == INSTANCE Persistence
        WITH Name <- Character, MaxFaults <- MaxFileFaults, faults <- fileFaults

CONSTANTS User, NoUser, Chan, PublicChan, SpecialChan, Text, MaxBans, MaxBan, Day,
          TopUsers

VARIABLES chan, channelOpList, channelsFile, running, halts

C == INSTANCE SavedChannels
        WITH disk <- channelsFile, up <- running, faults <- halts,
             MaxLength <- MaxBan, MaxFaults <- MaxFileFaults

\* What is in memory and in the files agrees (Persistence, SavedChannels).
StoredOK == F!FilesOK /\ C!ChannelsOK

\* The files are read as they were written (Persistence, SavedChannels).
LoadsOK == F!FilesLoad /\ [][C!Restored /\ C!HaltKeeps]_(C!vars)
=============================================================================
