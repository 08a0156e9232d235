------------------------------ MODULE Presence -------------------------------
(***************************************************************************)
(* Who is online, and in what mood, as the clients show it: a login is     *)
(* sent the list of users (LIS) and everyone is told of it (NLN), of a     *)
(* departure (FLN) and of a new status (STA, RWD).  A search (FKS) looks   *)
(* at the connections themselves, and finds who is free to play.           *)
(*                                                                         *)
(* A client shows what the messages say, and ignores the status of someone *)
(* it does not show.  Messages are sent once they are queued (WriteQueue); *)
(* they are dropped while the queue is full.  What a search goes by comes  *)
(* with the login: kinks, and tags, of which one stands for all.  Messages *)
(* has throttles; here a command that is throttled is no step.             *)
(***************************************************************************)
EXTENDS Integers, FiniteSets

CONSTANTS
    Char,
    Admin,        \* characters with the role "admin"
    Kink, Tag,
    KinksOf,      \* the kinks of a character, none if the site sends none
    TagOf,
    Settable,     \* const.status
    MaxTerms,     \* kinks in one search (5)
    MaxResults    \* characters found by one search (350)

Crown == "crown"

VARIABLES
    session,   \* of the name in connectionMap: "off", "on", "closing" (it no
               \* longer reads), or "closed" (not removed from the map yet)
    status,
    kinkList,
    full,      \* whether the connection's queue is full
    view,      \* what the connection's client shows of every character
    missed,    \* history: whether the connection missed a message
    rewarded,  \* history: the connection was given a crown
    found      \* the answer of this step, if it was a search that had one

vars == <<session, status, kinkList, full, view, missed, rewarded, found>>

Absent == "absent"
Status == Settable \cup {Crown}
AnyTag == {"any"}   \* a search without the tags
NoAnswer == [by |-> "nobody"]
Query == [kinks : SUBSET Kink, tags : SUBSET Tag \cup {AnyTag}]

\* The site says which kinks a character has; "online" is a status one may
\* set, "crown" is none.
PresenceAssumption ==
    /\ KinksOf \in [Char -> SUBSET Kink]
    /\ "online" \in Settable /\ Crown \notin Settable /\ Absent \notin Settable

Nobody == [n \in Char |-> Absent]

Open(c) == session[c] \in {"on", "closing"}
Mapped == {c \in Char : session[c] # "off"}

-----------------------------------------------------------------------------
(* Coming and going *)

\* broadcast, of what changes how c is shown by others, to new; the client of
\* c, which starts or ends with it, shows v.
Broadcast(c, v, new) ==
    /\ view' = [o \in Char |->
                   IF o = c THEN v
                   ELSE IF Open(o) /\ ~full[o] THEN [view[o] EXCEPT ![c] = new]
                   ELSE view[o]]
    /\ missed' = [o \in Char |-> o # c /\ (missed[o] \/ (Open(o) /\ full[o]))]

\* Mutated form of UserList: without those who are not "online".
UserListOnline == [n \in Char |-> IF n \in Mapped /\ status[n] = "online" THEN status[n] ELSE Absent]

\* LIS: everyone in the map.
UserList == [n \in Char |-> IF n \in Mapped THEN status[n] ELSE Absent]

\* The fields of the connection, when there is a new one or none.
NewConnection(c, kinks) ==
    /\ status' = [status EXCEPT ![c] = "online"]
    /\ kinkList' = [kinkList EXCEPT ![c] = kinks]
    /\ full' = [full EXCEPT ![c] = FALSE]
    /\ rewarded' = rewarded \ {c}
    /\ found' = NoAnswer

\* ident_callback.  An earlier connection of the name is gone by now: that
\* its FLN was sent makes no difference after NLN.
Login(c) ==
    /\ session' = [session EXCEPT ![c] = "on"]
    /\ NewConnection(c, KinksOf[c])
    /\ Broadcast(c, [UserList EXCEPT ![c] = "online"], "online")

\* ident_callback evicts an earlier connection, and refuses the account.
LoginRefused(c) ==
    /\ c \in Mapped /\ session' = [session EXCEPT ![c] = "off"]
    /\ NewConnection(c, {})
    /\ Broadcast(c, Nobody, Absent)

\* It refuses the account after u.setIdent: the name is in the map until the
\* connection closes, and nobody was told of it.
LoginBarred(c) ==
    /\ session' = [session EXCEPT ![c] = "closing"]
    /\ NewConnection(c, {})
    /\ IF c \in Mapped
       THEN Broadcast(c, Nobody, Absent)
       ELSE /\ view' = [view EXCEPT ![c] = Nobody]
            /\ missed' = [missed EXCEPT ![c] = FALSE]

\* u.close: a kick, a ban.
Close(c) ==
    /\ session[c] = "on" /\ session' = [session EXCEPT ![c] = "closing"]
    /\ UNCHANGED <<status, kinkList, full, view, missed, rewarded>> /\ found' = NoAnswer

\* Mutated form of PrepareShutdown: nobody is told.
PrepareShutdownSilent(c) ==
    /\ Open(c) /\ session' = [session EXCEPT ![c] = "closed"]
    /\ UNCHANGED <<status, kinkList, full, view, missed, rewarded>> /\ found' = NoAnswer

\* Its own client is gone.
PrepareShutdown(c) ==
    /\ Open(c) /\ session' = [session EXCEPT ![c] = "closed"]
    /\ Broadcast(c, Nobody, Absent)
    /\ full' = [full EXCEPT ![c] = FALSE]
    /\ UNCHANGED <<status, kinkList, rewarded>> /\ found' = NoAnswer

RemoveConnection(c) ==
    /\ session[c] = "closed" /\ session' = [session EXCEPT ![c] = "off"]
    /\ NewConnection(c, {})
    /\ UNCHANGED <<view, missed>>

-----------------------------------------------------------------------------
(* Status *)

\* A client shows the new status of n if it shows n.
SetStatus(n, new) ==
    /\ status' = [status EXCEPT ![n] = new]
    /\ view' = [o \in Char |->
                   IF Open(o) /\ ~full[o] /\ view[o][n] # Absent
                   THEN [view[o] EXCEPT ![n] = new] ELSE view[o]]
    /\ missed' = [o \in Char |-> missed[o] \/ (Open(o) /\ full[o])]

\* What STA makes of a word that is no status, or not one to be set.
NewStatus(asked) == IF asked \in Settable THEN asked ELSE "online"

STA(c, asked) ==
    /\ session[c] = "on"
    /\ SetStatus(c, NewStatus(asked))
    /\ UNCHANGED <<session, kinkList, full, rewarded>> /\ found' = NoAnswer

RWD(c, target) ==
    /\ session[c] = "on" /\ c \in Admin /\ target \in Mapped
    /\ SetStatus(target, Crown)
    /\ rewarded' = rewarded \cup {target}
    /\ UNCHANGED <<session, kinkList, full>> /\ found' = NoAnswer

-----------------------------------------------------------------------------
(* Searching *)

SearchFilterList(chars, tags) == {n \in chars : TagOf[n] \in tags}

SearchFilterListF(chars, kinks) == {n \in chars : \A k \in kinks : k \in kinkList[n]}

ToSearch(c) ==
    {n \in Mapped \ {c} : kinkList[n] # {} /\ status[n] \in {"online", "looking"}}

\* The filters one after another, each only if the search names it.
Results(c, query) ==
    LET tagged == IF query.tags = AnyTag THEN ToSearch(c)
                  ELSE SearchFilterList(ToSearch(c), query.tags)
    IN  SearchFilterListF(tagged, query.kinks)

SearchCommand(c, query) ==
    /\ session[c] = "on"
    /\ found' = IF /\ Cardinality(query.kinks) <= MaxTerms
                   /\ Cardinality(Results(c, query)) \in 1 .. MaxResults
                THEN [by |-> c, query |-> query, chars |-> Results(c, query)]
                ELSE NoAnswer
    /\ UNCHANGED <<session, status, kinkList, full, view, missed, rewarded>>

-----------------------------------------------------------------------------

\* The client stops reading until the queue is full, or reads on.
QueueFills(c) ==
    /\ Open(c) /\ full' = [full EXCEPT ![c] = ~@]
    /\ UNCHANGED <<session, status, kinkList, view, missed, rewarded>> /\ found' = NoAnswer

Init ==
    /\ session = [c \in Char |-> "off"]
    /\ status = [c \in Char |-> "online"]
    /\ kinkList = [c \in Char |-> {}]
    /\ full = [c \in Char |-> FALSE]
    /\ view = [c \in Char |-> Nobody]
    /\ missed = [c \in Char |-> FALSE]
    /\ rewarded = {}
    /\ found = NoAnswer

\* The words that STA is asked for, one of which is no status.
Asked == Status \cup {"other"}

Next == \E c \in Char :
    \/ Login(c) \/ LoginRefused(c) \/ LoginBarred(c)
    \/ Close(c) \/ PrepareShutdown(c) \/ RemoveConnection(c)
    \/ \E asked \in Asked : STA(c, asked)
    \/ \E target \in Char : RWD(c, target)
    \/ \E query \in Query : SearchCommand(c, query)
    \/ QueueFills(c)

Spec == Init /\ [][Next]_vars

-----------------------------------------------------------------------------
(* Properties *)

TypeOK ==
    /\ session \in [Char -> {"off", "on", "closing", "closed"}]
    /\ status \in [Char -> Status]
    /\ kinkList \in [Char -> SUBSET Kink]
    /\ full \in [Char -> BOOLEAN]
    /\ view \in [Char -> [Char -> Status \cup {Absent}]]
    /\ missed \in [Char -> BOOLEAN]
    /\ rewarded \subseteq Char

Informed(o) == session[o] = "on" /\ ~missed[o]

\* A client that missed no message shows everyone who is logged in, under
\* the status the server has: what LIS, NLN, STA and FLN say in the order
\* they come adds up to the state of the connections.
ListsAreRight ==
    \A o, n \in Char : Informed(o) /\ session[n] = "on" => view[o][n] = status[n]

\* No client shows a crown but of a connection an administrator rewarded: a
\* user cannot set it, and a new connection does not inherit it.
CrownsAreEarned ==
    \A o, n \in Char :
        Informed(o) /\ session[n] = "on" /\ view[o][n] = Crown => n \in rewarded

\* Whoever searches finds exactly those others whom the list of a client
\* that missed nothing shows as free to play, and who have the tag and every
\* kink that was asked for; those who are about to leave may come on top.
SearchAgreesWithList ==
    found # NoAnswer /\ ~missed[found.by] =>
        \A n \in {m \in Char : session[m] = "on"} \ {found.by} :
            n \in found.chars <=>
                /\ view[found.by][n] \in {"online", "looking"}
                /\ KinksOf[n] # {} /\ found.query.kinks \subseteq KinksOf[n]
                /\ found.query.tags # AnyTag => TagOf[n] \in found.query.tags

\* What the clients show of others, and what they find.
PresenceOK ==
    TypeOK /\ ListsAreRight /\ CrownsAreEarned /\ SearchAgreesWithList

\* Whoever goes disappears from every client that is online at the time and
\* missed nothing, whether the connection was closed or overtaken.
DepartedDisappear ==
    [][\A o, n \in Char :
        session[o] = "on" /\ Informed(o)' /\ Open(n) /\ session'[n] \in {"closed", "off"}
            => view'[o][n] = Absent]_vars
=============================================================================
