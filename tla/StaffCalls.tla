----------------------------- MODULE StaffCalls ------------------------------
(***************************************************************************)
(* Reports to the moderators (SFC): kept in memory until one of those who  *)
(* may confirms it, told to the moderators who are online and, when the    *)
(* tab is a public channel, to that channel's operators; told again to     *)
(* whoever logs in as a moderator or asks (PCR).                           *)
(*                                                                         *)
(* One public channel stands for all of them.  A message is told when it   *)
(* is queued (WriteQueue has what becomes of it); making and unmaking      *)
(* moderators while they are online is in Moderation.                      *)
(***************************************************************************)
EXTENDS Integers, FiniteSets, Functions

CONSTANTS
    Person,
    Staff,      \* have the role "admin", "global" or "super-cop"
    Moderator,  \* those of them who are told: an operator or a super-cop
    SFC_FLOOD,  \* seconds between reports of an ordinary user
    MaxTime,    \* bound of the clock
    MaxCalls    \* bound on reports

ASSUME StaffAssumption == Moderator \subseteq Staff /\ Staff \subseteq Person
ASSUME BoundAssumption ==
    SFC_FLOOD \in Nat \ {0} /\ MaxTime \in Nat /\ MaxCalls \in Nat

VARIABLES
    session,           \* "off", "on", or "closed": closed, not removed yet
    mods,              \* moderators and owner of the public channel
    staffCallTargets,
    staffCallList,     \* call id -> the call
    timers,            \* "sfc": when the connection last reported
    now,               \* the clock, in seconds
    told,              \* history: calls the connection was told of
    calls              \* history: every report, and how often it was confirmed

vars == <<session, mods, staffCallTargets, staffCallList, timers, now, told, calls>>

Tab == {"room", "elsewhere"}
Never == -SFC_FLOOD - 1

-----------------------------------------------------------------------------

Online(p) == session[p] = "on"
Cop(p) == p \in mods
ChannelOp(p) == p \in mods \ Staff

\* What send does with the calls in the set for each of the people.
Tell(people, set) ==
    told' = [p \in Person |-> IF p \in people /\ Online(p) THEN told[p] \cup set ELSE told[p]]

\* broadcastStaffCall, and broadcastChannelOps for a tab that is the channel.
Told(tab) == staffCallTargets \cup {p \in Person : tab = "room" /\ ChannelOp(p)}

\* The number of the report behind a record of the list.
Listed == {staffCallList[id].n : id \in DOMAIN staffCallList}

CallId(p, t) == <<t, p>>

\* checkUpdateTimer(con, "sfc", SFC_FLOOD).
Throttled(p) == timers[p] > now - SFC_FLOOD

AddStaffCall(id, call) ==
    staffCallList' = [x \in DOMAIN staffCallList \cup {id} |->
                        IF x = id THEN call ELSE staffCallList[x]]

RemoveStaffCall(id) == staffCallList' = Restrict(staffCallList, DOMAIN staffCallList \ {id})

-----------------------------------------------------------------------------

\* ident_callback, an earlier connection of the character removed by then.
Login(p) ==
    /\ session' = [session EXCEPT ![p] = "on"]
    /\ staffCallTargets' =
          (staffCallTargets \ {p}) \cup (IF p \in Moderator THEN {p} ELSE {})
    /\ timers' = [timers EXCEPT ![p] = Never]
    /\ told' = [told EXCEPT ![p] = IF p \in Moderator THEN Listed ELSE {}]
    /\ UNCHANGED <<mods, staffCallList, now, calls>>

\* The connection closes; it is a target until it is removed.
PrepareShutdown(p) ==
    /\ Online(p)
    /\ session' = [session EXCEPT ![p] = "closed"]
    /\ UNCHANGED <<mods, staffCallTargets, staffCallList, timers, now, told, calls>>

RemoveConnection(p) ==
    /\ session[p] = "closed"
    /\ session' = [session EXCEPT ![p] = "off"]
    /\ staffCallTargets' = staffCallTargets \ {p}
    /\ UNCHANGED <<mods, staffCallList, timers, now, told, calls>>

\* COA and COR, seen from here.
SetMod(p) ==
    /\ mods' = IF p \in mods THEN mods \ {p} ELSE mods \cup {p}
    /\ UNCHANGED <<session, staffCallTargets, staffCallList, timers, now, told, calls>>

Report(p, tab) ==
    /\ Online(p) /\ Cardinality(DOMAIN calls) < MaxCalls
    /\ IF p \in Staff \/ Cop(p)
       THEN UNCHANGED timers
       ELSE ~Throttled(p) /\ timers' = [timers EXCEPT ![p] = now]
    /\ LET n == Cardinality(DOMAIN calls) + 1 IN
         /\ AddStaffCall(CallId(p, now), [n |-> n, character |-> p, tab |-> tab])
         /\ calls' = [k \in 1 .. n |->
                        IF k < n THEN calls[k]
                        ELSE [character |-> p, time |-> now, confirmed |-> 0]]
         /\ Tell(Told(tab), {n})
    /\ UNCHANGED <<session, mods, staffCallTargets, now>>

\* Mutated form of Confirm: the call stays in the list.
ConfirmKept(p, id) ==
    /\ Online(p) /\ id \in DOMAIN staffCallList /\ p \in Staff
    /\ calls' = [calls EXCEPT ![staffCallList[id].n].confirmed = @ + 1]
    /\ UNCHANGED <<session, mods, staffCallTargets, staffCallList, timers, now, told>>

\* The channel's operators, super-cops and staff may; whoever is late is
\* answered nothing.
Confirm(p, id) ==
    /\ Online(p) /\ id \in DOMAIN staffCallList
    /\ p \in Staff \/ (staffCallList[id].tab = "room" /\ p \in mods)
    /\ calls' = [calls EXCEPT ![staffCallList[id].n].confirmed = @ + 1]
    /\ RemoveStaffCall(id)
    /\ UNCHANGED <<session, mods, staffCallTargets, timers, now, told>>

\* PCR: sendStaffCalls.
PCR(p) ==
    /\ Online(p)
    /\ p \in Staff \/ Cop(p)
    /\ Tell({p}, Listed)
    /\ UNCHANGED <<session, mods, staffCallTargets, staffCallList, timers, now, calls>>

Tick ==
    /\ now < MaxTime /\ now' = now + 1
    /\ UNCHANGED <<session, mods, staffCallTargets, staffCallList, timers, told, calls>>

-----------------------------------------------------------------------------

Init ==
    /\ session = [p \in Person |-> "off"] /\ mods \in SUBSET Person
    /\ staffCallTargets = {}
    /\ staffCallList = <<>>
    /\ timers = [p \in Person |-> Never]
    /\ now = 0
    /\ told = [p \in Person |-> {}]
    /\ calls = <<>>

Next ==
    \/ \E p \in Person :
         \/ Login(p) \/ PrepareShutdown(p) \/ RemoveConnection(p) \/ SetMod(p) \/ PCR(p)
         \/ \E tab \in Tab : Report(p, tab)
         \/ \E id \in DOMAIN staffCallList : Confirm(p, id)
    \/ Tick

Spec == Init /\ [][Next]_vars

-----------------------------------------------------------------------------
(* Properties *)

TypeOK ==
    /\ session \in [Person -> {"off", "on", "closed"}]
    /\ mods \subseteq Person
    /\ staffCallTargets \subseteq {p \in Moderator : session[p] # "off"}
    /\ \A id \in DOMAIN staffCallList :
         staffCallList[id] \in [n : DOMAIN calls, character : Person, tab : Tab]
    /\ timers \in [Person -> {Never} \cup 0 .. MaxTime]
    /\ told \in [Person -> SUBSET DOMAIN calls]

\* Whatever a moderator missed while away, one whose connection is open has
\* been told of every call that is waiting.
ModeratorsAreTold ==
    \A p \in Moderator : Online(p) => Listed \subseteq told[p]

\* Of several moderators who take up a call, one confirms it: no report is
\* logged and announced as handled twice.
ConfirmedOnce == \A n \in DOMAIN calls : calls[n].confirmed <= 1

Lost(n) == n \notin Listed /\ calls[n].confirmed = 0

\* A report that is neither waiting nor confirmed was replaced by a report of
\* its own author, made in the same second: nobody loses another's report.
OnlyItsAuthorReplaces ==
    \A n \in DOMAIN calls : Lost(n) =>
        \E k \in DOMAIN calls :
            /\ k > n /\ calls[k].character = calls[n].character
            /\ calls[k].time = calls[n].time

\* What becomes of a report: those who may handle it know of it, and it goes
\* only by being confirmed, once, or by its own author.
CallsOK == TypeOK /\ ModeratorsAreTold /\ ConfirmedOnce /\ OnlyItsAuthorReplaces
=============================================================================
