----------------------------- MODULE Moderation ------------------------------
(***************************************************************************)
(* The staff of the whole server and what it may do: operators are made    *)
(* and unmade (AOP, DOP), accounts banned, timed out and pardoned (ACB,    *)
(* TMO, UNB), characters kicked (KIK), and a login looks all of it up.     *)
(*                                                                         *)
(* A character's session is what the connection map has under its name;    *)
(* the handlers run one at a time, and those of a session that is closing  *)
(* no longer.  What an earlier run banned is in bans.json.  The lists are  *)
(* saved by every handler here (Persistence); the role "cop" and the doors *)
(* of channels are in Channels.                                            *)
(***************************************************************************)
EXTENDS Integers, FiniteSets

CONSTANTS
    Char, Account,
    AccountOf,   \* the account of a character
    AdminAccount,\* accounts the login server calls admin
    StaffBits,   \* characters with a staff bit of the login server
    SuperBit,    \* those of them with the bit "supercop"
    Length,      \* lengths of time-outs
    MaxTime,     \* bound of the clock
    NoChar       \* no character

\* A character has an account; NoChar is none; time-outs are natural numbers.
ModerationAssumption ==
    /\ AccountOf \in [Char -> Account]
    /\ NoChar \notin Char
    /\ Length \subseteq Nat /\ MaxTime \in Nat

VARIABLES
    session,    \* what connectionMap has under the name
    roles,      \* ConnectionInstance: roles of that connection
    targets,    \* staffCallTargets
    opList,
    bans,       \* banList: the character an account was banned by
    timeouts,   \* timeoutList: the end, and the character it was given to
    invites, inside,  \* of the staff room
    now,
    demoted     \* history: sessions whose character lost its operator status

vars == <<session, roles, targets, opList, bans, timeouts, invites, inside,
          now, demoted>>
lists == <<opList, bans, timeouts>>
room == <<invites, inside>>

NoTimeout == [end |-> -1, character |-> NoChar]

-----------------------------------------------------------------------------
(* What the handlers ask: u.getConnection, u.hasRole, u.hasAnyRole,        *)
(* u.getByAccount, s.isOp, s.isBanned, s.isTimedOut                        *)

Found(c) == session[c] # "off"
HasRole(c, role) == role \in roles[c]
HasAnyRole(c, any) == roles[c] \cap any # {}
StaffRoles == {"admin", "global"}

\* Mutated form of GetByAccount: the character alone.
GetByAccountOne(c) == {c}

GetByAccount(c) == {d \in Char : Found(d) /\ AccountOf[d] = AccountOf[c]}

IsOp(c) == c \in opList
IsBanned(a) == bans[a] # NoChar

\* The record outlives its time, until the bans are saved.
IsTimedOut(a) == timeouts[a] # NoTimeout /\ timeouts[a].end >= now

Barred(a) == IsBanned(a) \/ IsTimedOut(a)

Commands(u) == session[u] = "on"

-----------------------------------------------------------------------------
(* What they do to connections *)

\* u.close.
Close(chars) ==
    session' = [c \in Char |-> IF c \in chars /\ Found(c) THEN "closing" ELSE session[c]]

\* u.setAdmin, u.setGlobMod and u.addRole, on the roles r of a connection.
SetAdmin(r, flag) == IF flag THEN r \cup {"admin"} ELSE r \ {"admin"}
SetGlobMod(r, flag) == IF flag THEN r \cup {"global"} ELSE r \ {"global"}
AddRole(r, role) == r \cup {role}

\* pre_disconnect and removeConnection.
Ended(c) ==
    /\ inside' = inside \ {c}
    /\ invites' = invites \ {c}
    /\ demoted' = demoted \ {c}

-----------------------------------------------------------------------------
(* Sessions *)

RolesAtLogin(c) ==
    SetGlobMod(SetAdmin({}, AccountOf[c] \in AdminAccount), IsOp(c))

\* ident_callback: an older connection of the character is evicted, and the
\* new one has the name before it is known whether it may stay.
Login(c) ==
    LET identified == RolesAtLogin(c)
        refused == Barred(AccountOf[c]) /\ identified = {}
        super == ~refused /\ c \in SuperBit
        called == ~refused /\ ("global" \in identified \/ super)
        joins == called \/ (~refused /\ c \in StaffBits)
    IN
    /\ session' = [session EXCEPT ![c] = IF refused THEN "closing" ELSE "on"]
    /\ roles' = [roles EXCEPT ![c] =
                   IF super THEN AddRole(identified, "super-cop") ELSE identified]
    /\ targets' = IF called THEN targets \cup {c} ELSE targets \ {c}
    /\ invites' = IF joins THEN invites \cup {c} ELSE invites \ {c}
    /\ inside' = IF joins THEN inside \cup {c} ELSE inside \ {c}
    /\ demoted' = demoted \ {c}
    /\ UNCHANGED <<lists, now>>

\* The connection fails, or the timer that u.close armed fires.
Disconnect(c) ==
    /\ Found(c)
    /\ session' = [session EXCEPT ![c] = "off"]
    /\ roles' = [roles EXCEPT ![c] = {}]
    /\ targets' = targets \ {c}
    /\ Ended(c)
    /\ UNCHANGED <<lists, now>>

Tick ==
    /\ now < MaxTime
    /\ now' = now + 1
    /\ UNCHANGED <<session, roles, targets, lists, room, demoted>>

-----------------------------------------------------------------------------
(* Operators *)

AOP(u, v) ==
    /\ Commands(u) /\ HasRole(u, "admin")
    /\ Found(v) /\ ~IsOp(v)
    /\ opList' = opList \cup {v}
    /\ roles' = [roles EXCEPT ![v] = SetGlobMod(@, TRUE)]
    /\ UNCHANGED <<session, targets, bans, timeouts, room, now, demoted>>

\* DOP would take the invitation to the staff room back, but looks for it
\* under a name the room no longer has.
DOP(u, v) ==
    /\ Commands(u) /\ HasRole(u, "admin")
    /\ IsOp(v)
    /\ opList' = opList \ {v}
    /\ IF Found(v)
       THEN /\ roles' = [roles EXCEPT ![v] = SetGlobMod(@, FALSE)]
            /\ demoted' = demoted \cup {v}
       ELSE UNCHANGED <<roles, demoted>>
    /\ UNCHANGED <<session, targets, bans, timeouts, room, now>>

-----------------------------------------------------------------------------
(* Bans, time-outs and kicks *)

\* An account has one entry; both lists are searched by the character that
\* was named when it was made.
AddBan(v) == [bans EXCEPT ![AccountOf[v]] = v]
RemoveBan(v) == [a \in Account |-> IF bans[a] = v THEN NoChar ELSE bans[a]]
AddTimeout(v, length) ==
    [timeouts EXCEPT ![AccountOf[v]] = [end |-> now + length, character |-> v]]
RemoveTimeout(v) ==
    [a \in Account |-> IF timeouts[a].character = v THEN NoTimeout ELSE timeouts[a]]

\* ACB looks at the roles of its sender twice.
ACBCode(u, v) ==
    IF ~HasAnyRole(u, StaffRoles) THEN "FERR_NOT_OP"
    ELSE IF ~Found(v) THEN "FERR_USER_NOT_FOUND"
    ELSE IF HasAnyRole(u, StaffRoles) THEN "FERR_DENIED_ON_OP"
    ELSE "FERR_OK"

ACB(u, v) ==
    LET banned == ACBCode(u, v) = "FERR_OK" IN
    /\ Commands(u)
    /\ bans' = IF banned THEN AddBan(v) ELSE bans
    /\ Close(IF banned THEN GetByAccount(v) ELSE {})
    /\ UNCHANGED <<roles, targets, opList, timeouts, room, now, demoted>>

TMO(u, v, length) ==
    /\ Commands(u) /\ HasAnyRole(u, StaffRoles)
    /\ Found(v) /\ ~HasAnyRole(v, StaffRoles)
    /\ timeouts' = AddTimeout(v, length)
    /\ Close(GetByAccount(v))
    /\ UNCHANGED <<roles, targets, opList, bans, room, now, demoted>>

UNB(u, v) ==
    /\ Commands(u) /\ HasAnyRole(u, StaffRoles)
    /\ timeouts' = RemoveTimeout(v)
    /\ bans' = RemoveBan(v)
    /\ UNCHANGED <<session, roles, targets, opList, room, now, demoted>>

KIK(u, v) ==
    /\ Commands(u) /\ HasAnyRole(u, StaffRoles)
    /\ Found(v)
    /\ Close({v})
    /\ UNCHANGED <<roles, targets, lists, room, now, demoted>>

-----------------------------------------------------------------------------
(* The specification *)

\* An account is banned by one of its characters.
BanList ==
    {b \in [Account -> Char \cup {NoChar}] :
        \A a \in Account : b[a] # NoChar => AccountOf[b[a]] = a}

Init ==
    /\ session = [c \in Char |-> "off"]
    /\ roles = [c \in Char |-> {}]
    /\ targets = {}
    /\ opList = {} /\ bans \in BanList
    /\ timeouts = [a \in Account |-> NoTimeout]
    /\ invites = {} /\ inside = {}
    /\ now = 0 /\ demoted = {}

SessionStep(c) == Login(c) \/ Disconnect(c)

StaffStep(u, v) ==
    \/ AOP(u, v) \/ DOP(u, v)
    \/ ACB(u, v) \/ UNB(u, v) \/ KIK(u, v)
    \/ \E length \in Length : TMO(u, v, length)

Next ==
    \/ \E c \in Char : SessionStep(c)
    \/ \E u, v \in Char : StaffStep(u, v)
    \/ Tick

Spec == Init /\ [][Next]_vars

-----------------------------------------------------------------------------
(* Properties *)

TypeOK ==
    /\ session \in [Char -> {"off", "on", "closing"}]
    /\ roles \in [Char -> SUBSET {"admin", "global", "super-cop"}]
    /\ opList \subseteq Char /\ bans \in BanList
    /\ timeouts \in [Account -> [end : Int, character : Char \cup {NoChar}]]
    /\ {c \in Char : ~Found(c)} \cap (targets \cup invites \cup inside \cup demoted) = {}
    /\ now \in 0..MaxTime

\* The role "global" of a connection, which every check of authority looks
\* at, and the list of operators, which logins and IGN look at, say the same
\* through promotions, demotions, evictions and refused logins.
RolesAgree ==
    \A c \in Char : Found(c) => (HasRole(c, "global") <=> IsOp(c))

\* An account that is banned or timed out has no session but those of its
\* operators and admins, whichever of its characters the moderator named and
\* whatever login races the time-out; one that was demoted while it was on
\* may stay until it leaves.
BarredStayOut ==
    \A c \in Char :
        session[c] = "on" /\ Barred(AccountOf[c]) =>
            HasAnyRole(c, StaffRoles) \/ c \in demoted

\* Who is staff, and who stays out.
StaffOK == TypeOK /\ RolesAgree /\ BarredStayOut

\* "Bans a person by their account." (ACB): a moderator who names a user who
\* is no moderator is not refused.
AccountIsBanned ==
    \A u, v \in Char :
        Commands(u) /\ HasAnyRole(u, StaffRoles) /\ Found(v) /\ ~HasAnyRole(v, StaffRoles)
            => ACBCode(u, v) = "FERR_OK"
=============================================================================
