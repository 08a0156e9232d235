----------------------------- MODULE Supervision -----------------------------
(***************************************************************************)
(* The staff: the reports it handles (StaffCalls) and what it may do to    *)
(* others (Moderation).  The two run in one server, side by side: neither  *)
(* changes what the other keeps.                                           *)
(***************************************************************************)
EXTENDS StaffCalls

\* Moderation has a clock of its own.
CONSTANTS
    Char, Account, AccountOf, AdminAccount, StaffBits, SuperBit, Length,
    LastTime, NoChar

VARIABLES
    connected, roles, targets, opList, bans, timeouts, invites, inside, clock,
    demoted

M == INSTANCE Moderation
        WITH session <- connected, now <- clock, MaxTime <- LastTime

\* Roles agree with the lists, and the barred stay out (Moderation).
StaffOK == M!StaffOK

\* A moderator may ban whoever is no moderator (Moderation).
AccountIsBanned == M!AccountIsBanned
=============================================================================
