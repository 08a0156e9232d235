------------------------------ MODULE Sessions -------------------------------
(***************************************************************************)
(* What happens while users are online: handlers and their time-out        *)
(* (LuaHost), the time-out of silent connections (IdleTimeout), and what   *)
(* the clients show of who is there (Presence).  The three are in one      *)
(* server, side by side: none changes what another keeps.                  *)
(***************************************************************************)
EXTENDS LuaHost

CONSTANTS PERIOD, IDENT, PING, LoginTime, AnswerTime, MaxLag, Garbage, MaxTime

VARIABLES
    now, protocol, lastActivity, timer, ping, ident, connected, heard, askedAt,
    owed, well

I == INSTANCE IdleTimeout WITH open <- connected

CONSTANTS Char, Admin, Kink, Tag, KinksOf, TagOf, Settable, MaxTerms, MaxResults

VARIABLES session, status, kinkList, full, view, missed, rewarded, found

P == INSTANCE Presence

\* The timers of a connection are in time (IdleTimeout).
TimersOK == I!TimersOK

\* A connection is not closed for silence before its period (IdleTimeout).
NobodyIsCutShort == I!NobodyIsCutShort

\* Clients show who is online, and find them (Presence).
PresenceOK == P!PresenceOK

\* Whoever goes disappears from the clients (Presence).
DepartedDisappear == P!DepartedDisappear
=============================================================================
