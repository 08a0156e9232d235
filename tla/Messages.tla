------------------------------ MODULE Messages -------------------------------
(***************************************************************************)
(* Messages: to a channel (MSG), advertisements (LRP), to a character      *)
(* (PRI), dice and the bottle (RLL), a status with its text (STA), and     *)
(* what holds them back: the timers of the connection and of the channel,  *)
(* the channel's mode, and the "hellban", which lets its target believe    *)
(* that it is heard.                                                       *)
(*                                                                         *)
(* One channel, of the public kind; who may enter it is in Channels.  A    *)
(* text is fine, or refused for its length or for a shortened link in it.  *)
(* The site's answer to a login has its account's hellban as it was when   *)
(* the site answered, and is used later; a character has one answer under  *)
(* way at a time.                                                          *)
(***************************************************************************)
EXTENDS Integers

CONSTANTS
    User, Account,
    AccountOf,            \* the account of a character
    MSG_FLOOD, LRP_FLOOD, \* seconds between messages, and between ads
    MaxTime               \* bound of the clock

MessagesAssumption ==
    /\ AccountOf \in [User -> Account]
    /\ MSG_FLOOD \in Nat /\ LRP_FLOOD \in Nat /\ MaxTime \in Nat

VARIABLES
    online,      \* characters with a connection
    members,     \* participants of the channel
    chatMode,    \* "chat", "ads" or "both"
    timers,      \* the connection's timer "msg"
    throttled,   \* connections whose timer "sta" has not run out
    timerMap,    \* the channel's timers
    hellban,     \* connections marked so
    bits,        \* of the answer that is under way to a character's login:
                 \* "none" if none is, "hellban" if it has the bit, else "clear"
                 \* ("outdated", as history, once the account is hellbanned)
    now,         \* the time of the event loop, in seconds
    silenced,    \* history: accounts the site has hellbanned
    slipped,     \* history: connections that logged in with an outdated answer
    sent,        \* history: when the connection last sent a message, and an
                 \* ad in this stay in the channel
    heard        \* the message the last step passed on

vars == <<online, members, chatMode, timers, throttled, timerMap, hellban, bits, now,
          silenced, slipped, sent, heard>>

Mode == {"chat", "ads", "both"}
Kind == {"message", "ad", "status"}
Text == {"fine", "refused"}
NoEntry == -1

\* A connection whose timer was never set passes: loop time is far from zero.
Never == -MSG_FLOOD

-----------------------------------------------------------------------------

\* u.checkUpdateTimer: is the message too early.  The timer of one that is
\* not is set, whatever becomes of the message.
Throttled(u) == timers[u] > now - MSG_FLOOD
SetTimer(u) == timers' = [timers EXCEPT ![u] = now]

\* c.checkUpdateTimer.
AdThrottled(u) == timerMap[u] # NoEntry /\ timerMap[u] > now - LRP_FLOOD

Hellbanned(u) == u \in hellban

None == <<>>
Nothing == [message |-> NoEntry, stayAd |-> NoEntry]

\* A message is passed on; it is compared with the ones before it.
Post(u, kind, to) ==
    /\ heard' = [by |-> u, kind |-> kind, to |-> to, before |-> sent[u]]
    /\ sent' = [sent EXCEPT ![u] =
                  CASE kind = "message" -> [@ EXCEPT !.message = now]
                    [] kind = "ad" -> [@ EXCEPT !.message = now, !.stayAd = now]
                    [] kind = "status" -> @]

\* c.sendChannel leaves the sender out, c.sendAll does not.
SendChannel(u, kind) == Post(u, kind, members \ {u})
SendAll(u, kind) == Post(u, kind, members)

Withhold == heard' = None /\ UNCHANGED sent

-----------------------------------------------------------------------------
(* Sessions and the channel *)

\* The site answers the request of a login, with the bits of the account.
Answer(u) ==
    /\ bits[u] = "none"
    /\ bits' = [bits EXCEPT ![u] = IF AccountOf[u] \in silenced THEN "hellban" ELSE "clear"]
    /\ UNCHANGED <<online, members, chatMode, timers, throttled, timerMap, hellban, now,
                   silenced, slipped, sent>>
    /\ heard' = None

\* The answer is used, or it comes too late.
Answered(u) ==
    /\ bits[u] # "none"
    /\ bits' = [bits EXCEPT ![u] = "none"]
    /\ heard' = None

\* ident_callback, on a new connection: the misc data is what the answer says.
Login(u) ==
    /\ Answered(u)
    /\ u \notin online
    /\ online' = online \cup {u}
    /\ hellban' = IF bits[u] = "hellban" THEN hellban \cup {u} ELSE hellban
    /\ slipped' = IF bits[u] = "outdated" THEN slipped \cup {u} ELSE slipped
    /\ UNCHANGED <<members, chatMode, timers, throttled, timerMap, now, silenced, sent>>

\* The connection was closed meanwhile, or the login is refused.
LoginFails(u) ==
    /\ Answered(u)
    /\ UNCHANGED <<online, members, chatMode, timers, throttled, timerMap, hellban, now,
                   silenced, slipped, sent>>

\* Channel::join.
Join(u) ==
    /\ u \in online \ members
    /\ members' = members \cup {u}
    /\ heard' = None
    /\ UNCHANGED <<online, chatMode, timers, throttled, timerMap, hellban, bits, now,
                   silenced, slipped, sent>>

Parted(u) == timerMap' = [timerMap EXCEPT ![u] = NoEntry]

\* Channel::part.
Part(u) ==
    /\ u \in members
    /\ members' = members \ {u}
    /\ Parted(u)
    /\ sent' = [sent EXCEPT ![u].stayAd = NoEntry]
    /\ UNCHANGED <<online, chatMode, timers, throttled, hellban, bits, now, silenced,
                   slipped>>
    /\ heard' = None

\* pre_disconnect parts the channels the connection is in, which then goes
\* with all it had.
Disconnect(u) ==
    /\ u \in online
    /\ online' = online \ {u}
    /\ members' = members \ {u}
    /\ IF u \in members THEN Parted(u) ELSE UNCHANGED timerMap
    /\ timers' = [timers EXCEPT ![u] = Never]
    /\ throttled' = throttled \ {u}
    /\ hellban' = hellban \ {u}
    /\ slipped' = slipped \ {u}
    /\ sent' = [sent EXCEPT ![u] = Nothing]
    /\ UNCHANGED <<chatMode, bits, now, silenced>>
    /\ heard' = None

\* RMO, by someone who may.
RMO(mode) ==
    /\ chatMode' = mode
    /\ UNCHANGED <<online, members, timers, throttled, timerMap, hellban, bits, now,
                   silenced, slipped, sent>>
    /\ heard' = None

\* rtb.HLB marks every connection that the account has by now.
HLB(a) ==
    /\ silenced' = silenced \cup {a}
    /\ hellban' = hellban \cup {u \in online : AccountOf[u] = a}
    /\ bits' = [u \in User |-> IF AccountOf[u] = a /\ bits[u] = "clear"
                              THEN "outdated" ELSE bits[u]]
    /\ slipped' = {u \in slipped : AccountOf[u] # a}
    /\ UNCHANGED <<online, members, chatMode, timers, throttled, timerMap, now, sent>>
    /\ heard' = None

\* A timer "sta" runs out after some seconds (STA_FLOOD).
Tick ==
    /\ now < MaxTime /\ now' = now + 1
    /\ throttled' \in SUBSET throttled
    /\ UNCHANGED <<online, members, chatMode, timers, timerMap, hellban, bits,
                   silenced, slipped, sent>>
    /\ heard' = None

-----------------------------------------------------------------------------
(* Messages *)

context == <<online, members, chatMode, hellban, bits, now, silenced, slipped>>

MSG(u, text) ==
    /\ u \in online /\ ~Throttled(u)
    /\ SetTimer(u)
    /\ IF chatMode # "ads" /\ text = "fine" /\ u \in members /\ ~Hellbanned(u)
       THEN SendChannel(u, "message")
       ELSE Withhold
    /\ UNCHANGED <<context, throttled, timerMap>>

\* An ad that passes the channel's timer sets it, before the text and the
\* sender's membership are looked at.
LRP(u, text) ==
    /\ u \in online /\ ~Throttled(u)
    /\ SetTimer(u)
    /\ IF chatMode = "chat" \/ AdThrottled(u)
       THEN Withhold /\ UNCHANGED timerMap
       ELSE /\ timerMap' = [timerMap EXCEPT ![u] = now]
            /\ IF text = "fine" /\ u \in members /\ ~Hellbanned(u)
               THEN SendChannel(u, "ad")
               ELSE Withhold
    /\ UNCHANGED <<context, throttled>>

PRI(u, to, text) ==
    /\ u \in online /\ ~Throttled(u)
    /\ SetTimer(u)
    /\ IF text = "fine" /\ to \in online /\ ~Hellbanned(u)
       THEN Post(u, "message", {to})
       ELSE Withhold
    /\ UNCHANGED <<context, throttled, timerMap>>

\* RLL with a recipient.
RollFor(u, to) ==
    /\ u \in online /\ ~Throttled(u)
    /\ SetTimer(u)
    /\ IF to \in online /\ ~Hellbanned(u) THEN Post(u, "message", {u, to}) ELSE Withhold
    /\ UNCHANGED <<context, throttled, timerMap>>

\* Mutated form of RollInChannel: dice are not messages.
RollInChannelFree(u) ==
    /\ u \in online
    /\ UNCHANGED timers
    /\ IF chatMode # "ads" /\ ~Hellbanned(u) THEN SendAll(u, "message") ELSE Withhold
    /\ UNCHANGED <<context, throttled, timerMap>>

\* RLL in the channel: nothing asks whether the roller is in it.
RollInChannel(u) ==
    /\ u \in online /\ ~Throttled(u)
    /\ SetTimer(u)
    /\ IF chatMode # "ads" /\ ~Hellbanned(u) THEN SendAll(u, "message") ELSE Withhold
    /\ UNCHANGED <<context, throttled, timerMap>>

\* STA has a timer of its own; the status and its text go to everyone, and
\* nothing asks for the hellban.  Without a status it is refused.
STA(u, text) ==
    /\ u \in online \ throttled
    /\ throttled' = throttled \cup {u}
    /\ IF text = "fine" THEN Post(u, "status", online) ELSE Withhold
    /\ UNCHANGED <<context, timers, timerMap>>

-----------------------------------------------------------------------------

Init ==
    /\ online = {} /\ members = {} /\ chatMode = "both"
    /\ timers = [u \in User |-> Never]
    /\ throttled = {}
    /\ timerMap = [u \in User |-> NoEntry]
    /\ hellban = {} /\ now = 0
    /\ bits = [u \in User |-> "none"]
    /\ silenced = {} /\ slipped = {}
    /\ sent = [u \in User |-> Nothing]
    /\ heard = None

Next ==
    \/ \E u \in User :
         \/ Answer(u) \/ Login(u) \/ LoginFails(u) \/ Disconnect(u)
         \/ Join(u) \/ Part(u) \/ RollInChannel(u)
         \/ \E text \in Text : MSG(u, text) \/ LRP(u, text) \/ STA(u, text)
         \/ \E to \in User : RollFor(u, to) \/ \E text \in Text : PRI(u, to, text)
    \/ \E mode \in Mode : RMO(mode)
    \/ \E a \in Account : HLB(a)
    \/ Tick

Spec == Init /\ [][Next]_vars

-----------------------------------------------------------------------------
(* Properties *)

TypeOK ==
    /\ members \subseteq online /\ online \subseteq User
    /\ chatMode \in Mode
    /\ timers \in [User -> {Never} \cup 0 .. MaxTime]
    /\ timerMap \in [User -> {NoEntry} \cup 0 .. MaxTime]
    /\ throttled \subseteq online /\ hellban \subseteq online /\ slipped \subseteq online
    /\ silenced \subseteq Account
    /\ bits \in [User -> {"none", "hellban", "clear", "outdated"}]
    /\ sent \in [User -> [{"message", "stayAd"} -> {NoEntry} \cup 0 .. MaxTime]]
    /\ heard # None => heard.by \in User /\ heard.kind \in Kind /\ heard.to \subseteq online

Heard == heard # None

\* The message is the first, or comes so much later.
Later(before, flood) == before = NoEntry \/ now - before >= flood

\* "You must wait one second between sending channel/private messages"
\* (lua_constants.cpp): of whatever kinds two messages are, those a connection
\* sends are that far apart.  A status has a timer of its own.
MessagesAreSpaced ==
    Heard /\ heard.kind # "status" => Later(heard.before.message, MSG_FLOOD)

\* As long as a member stays in the channel, its ads are LRP_FLOOD apart.
AdsOfAStayAreSpaced ==
    Heard /\ heard.kind = "ad" => Later(heard.before.stayAd, LRP_FLOOD)

\* Once the site has hellbanned an account no message, ad, dice or bottle of
\* its characters is heard, whether they were online or log in later.  The
\* exceptions: a status, whose text reaches everyone, and a character whose
\* login the site had answered without the bit and that was not in the map
\* yet when the hellban came; it is heard until it logs in again, or the
\* hellban is repeated.
SilencedAreUnheard ==
    Heard /\ heard.kind # "status" /\ heard.by \notin slipped =>
        AccountOf[heard.by] \notin silenced

\* What is heard, and from whom.
MessagesOK ==
    TypeOK /\ MessagesAreSpaced /\ AdsOfAStayAreSpaced /\ SilencedAreUnheard
=============================================================================
