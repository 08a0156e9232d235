----------------------------- MODULE IdleTimeout -----------------------------
(***************************************************************************)
(* The time-out of a silent connection and the pings that keep the         *)
(* connection of a logged in user from being silent (server.cpp).          *)
(* Connections has what happens when timers fire; here is when they do.    *)
(*                                                                         *)
(* One connection, and a clock of whole ticks.  libev fires a timer once   *)
(* its time is past, and late when the loop is busy: by MaxLag ticks at    *)
(* most, as it serves every timer that is due.  Memory is not cleared:     *)
(* lastActivity is what was there before, until data comes.  Closing for   *)
(* another reason is left out, as is a login whose answer never comes.     *)
(***************************************************************************)
EXTENDS Integers

CONSTANTS
    PERIOD,     \* CONNECTION_TIMEOUT_PERIOD
    IDENT,      \* CONNECTION_TIMEOUT_PERIOD_IDENT
    PING,       \* CONNECTION_PING_TIME
    LoginTime,  \* the time a login may take (CURLOPT_TIMEOUT, http_client.cpp)
    AnswerTime, \* the time in which a client that is well answers a ping
    MaxLag,
    Garbage,    \* what lastActivity may be before it is set
    MaxTime     \* bound of the clock

\* Times are whole, and so is what memory holds.
TimesAssumption ==
    /\ PERIOD \in Nat /\ IDENT \in Nat /\ PING \in Nat /\ LoginTime \in Nat
    /\ AnswerTime \in Nat /\ MaxLag \in Nat /\ MaxTime \in Nat
    /\ IDENT <= PERIOD /\ Garbage \subseteq Int

\* A login, an interval between pings and an answer, each as late as it may
\* be, fit into the period: 30, 30 and a little of 120 seconds.
SlackAssumption == LoginTime + PING + AnswerTime + 2 * MaxLag + 1 <= PERIOD

\* What memory holds is not a time to come.
PastAssumption == \A g \in Garbage : g <= 0

VARIABLES
    now,           \* ev_now; the connection was accepted at 0
    protocol,      \* "unknown" until the handshake is complete
    lastActivity,
    timer,         \* when timerEvent is due
    ping,          \* when pingEvent is due
    ident,         \* "no", "asked", "yes": logged in
    open,
    heard,         \* history: when data last came, 0 if it never did
    askedAt,       \* history: when IDN came
    owed,          \* history: when the answer to a ping is due
    well           \* history: every ping was answered in time

vars == <<now, protocol, lastActivity, timer, ping, ident, open, heard, askedAt, owed, well>>
Off == -1

-----------------------------------------------------------------------------

Due(at) == at # Off /\ now > at
Late(at) == at # Off /\ now > at + MaxLag

\* Mutated form of Timeout: the short period for everybody.
TimeoutShort == lastActivity + IDENT

Timeout == lastActivity + IF protocol = "unknown" THEN IDENT ELSE PERIOD

\* Data comes: part of a handshake, its end, IDN, or anything else.
Heard ==
    /\ open
    /\ lastActivity' = now /\ heard' = now /\ owed' = Off
    /\ UNCHANGED <<now, timer, ping, open, well>>

HandshakeCallback ==
    /\ Heard /\ protocol = "unknown"
    /\ protocol' \in {"unknown", "hybi"}
    /\ UNCHANGED <<ident, askedAt>>

ConnectionReadCallback ==
    /\ Heard /\ protocol = "hybi"
    /\ \/ ident = "no" /\ ident' = "asked" /\ askedAt' = now
       \/ UNCHANGED <<ident, askedAt>>
    /\ UNCHANGED protocol

\* processLogin: the answer of the login service.
ProcessLogin ==
    /\ open /\ ident = "asked" /\ now <= askedAt + LoginTime + MaxLag
    /\ ident' = "yes" /\ ping' = now + PING
    /\ UNCHANGED <<now, protocol, lastActivity, timer, open, heard, askedAt, owed, well>>

\* pingCallback.  An earlier ping that is not answered yet is still owed.
PingCallback ==
    /\ open /\ Due(ping)
    /\ ping' = now + PING
    /\ owed' = IF owed = Off THEN now + AnswerTime ELSE owed
    /\ UNCHANGED <<now, protocol, lastActivity, timer, ident, open, heard, askedAt, well>>

\* ev_timer_again: a repeat of nothing stops the timer.
Again(repeat) == timer' = IF repeat = 0 THEN Off ELSE now + repeat

\* Mutated form of ConnectionTimerCallback: the whole period anew.
ConnectionTimerCallbackAnew ==
    /\ open /\ Due(timer)
    /\ IF now > Timeout
       THEN open' = FALSE /\ timer' = Off /\ ping' = Off
       ELSE Again(Timeout - lastActivity) /\ UNCHANGED <<open, ping>>
    /\ UNCHANGED <<now, protocol, lastActivity, ident, heard, askedAt, owed, well>>

\* connectionTimerCallback of a connection that is not closing.  With
\* nothing left of the time, ev_timer_again stops the timer.
ConnectionTimerCallback ==
    /\ open /\ Due(timer)
    /\ IF now > Timeout
       THEN open' = FALSE /\ timer' = Off /\ ping' = Off
       ELSE Again(Timeout - now) /\ UNCHANGED <<open, ping>>
    /\ UNCHANGED <<now, protocol, lastActivity, ident, heard, askedAt, owed, well>>

Tick ==
    /\ open /\ now < MaxTime /\ ~Late(timer) /\ ~Late(ping)
    /\ now' = now + 1
    /\ well' = (well /\ (owed # Off => now < owed))
    /\ UNCHANGED <<protocol, lastActivity, timer, ping, ident, open, heard, askedAt, owed>>

-----------------------------------------------------------------------------

\* listenCallback.
Init ==
    /\ now = 0 /\ protocol = "unknown"
    /\ lastActivity \in Garbage
    /\ timer = IDENT /\ ping = Off
    /\ ident = "no" /\ open = TRUE
    /\ heard = 0 /\ askedAt = 0 /\ owed = Off /\ well = TRUE

Next ==
    \/ HandshakeCallback \/ ConnectionReadCallback \/ ProcessLogin
    \/ PingCallback \/ ConnectionTimerCallback \/ Tick

Spec == Init /\ [][Next]_vars

-----------------------------------------------------------------------------
(* Properties *)

Period == IF protocol = "unknown" THEN IDENT ELSE PERIOD

TypeOK ==
    /\ now \in 0 .. MaxTime /\ lastActivity \in Garbage \cup 0 .. MaxTime
    /\ protocol \in {"unknown", "hybi"} /\ ident \in {"no", "asked", "yes"}
    /\ timer \in Int /\ ping \in {Off} \cup 0 .. MaxTime + PING
    /\ {open, well} \subseteq BOOLEAN /\ heard \in 0 .. now
    /\ ident = "yes" /\ open => ping # Off

\* Whatever the memory held, a connection that was heard of within its
\* period is not closed for being silent.
NobodyIsCutShort == [][open /\ ~open' => now > heard + Period]_vars

\* However often it was put off, the timer of a connection is due no later
\* than its period after its last data: a silent one is closed in time.
TimersAreInTime == open /\ timer # Off => timer <= heard + Period

\* A user who logged in and whose client answers every ping is never taken
\* for silent: the pings begin early enough after a login that took long,
\* and come often enough for a loop that is busy.
AnsweringStayOn == ident = "yes" /\ ~open => ~well

\* The timers put off and renew what they should.
TimersOK == TypeOK /\ TimersAreInTime /\ AnsweringStayOn
=============================================================================
