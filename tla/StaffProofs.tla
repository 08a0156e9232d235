---------------------------- MODULE StaffProofs -----------------------------
(***************************************************************************)
(* Proofs about StaffCalls and Moderation, for any people, accounts, roles *)
(* and times.                                                              *)
(*                                                                         *)
(* StaffCalls: a moderator who is online knows what waits, a call is       *)
(* confirmed once at most, and only its author can make it disappear.      *)
(* What is needed beyond the three is that the list and the reports that   *)
(* were made belong together (Listing): what is listed has not been        *)
(* confirmed, and is listed under the time and the author of its report,   *)
(* so no report is listed twice and none under another's identity.         *)
(*                                                                         *)
(* Moderation: the roles agree with the lists they come from, and whoever  *)
(* is banned or timed out is out.  StaffOK is inductive as it stands.      *)
(***************************************************************************)
EXTENDS Supervision, FiniteSetTheorems, TLAPS

-----------------------------------------------------------------------------
(* StaffCalls *)

Count == Cardinality(DOMAIN calls)

Call == [character : Person, time : Nat, confirmed : Nat]

\* The reports are numbered in the order they were made.
Numbering == Count \in Nat /\ calls \in [1 .. Count -> Call] /\ now \in 0 .. MaxTime

Listing ==
    \A id \in DOMAIN staffCallList :
        LET n == staffCallList[id].n IN
        /\ n \in DOMAIN calls /\ calls[n].confirmed = 0
        /\ id = CallId(calls[n].character, calls[n].time)

TargetsAreOnline == \A p \in Moderator : Online(p) => p \in staffCallTargets

Inv ==
    /\ TypeOK /\ Numbering /\ Listing /\ TargetsAreOnline
    /\ ModeratorsAreTold /\ ConfirmedOnce /\ OnlyItsAuthorReplaces

Assumptions == StaffAssumption /\ BoundAssumption

-----------------------------------------------------------------------------

\* A report is listed once, as the identity it is listed under is its own.
LEMMA ListedOnce ==
    ASSUME Listing, NEW id \in DOMAIN staffCallList, NEW jd \in DOMAIN staffCallList,
           staffCallList[id].n = staffCallList[jd].n
    PROVE  id = jd
<1> QED BY DEF Listing

LEMMA Initially == ASSUME Assumptions, Init PROVE Inv
<1>1. DOMAIN calls = {} /\ DOMAIN staffCallList = {}
  BY DEF Init
<1>2. Count = 0
  BY <1>1, FS_EmptySet DEF Count
<1>3. Numbering
  BY <1>1, <1>2 DEF Init, Numbering, Assumptions, BoundAssumption
<1>4. TypeOK
  BY <1>1 DEF Init, TypeOK
<1>5. Listing
  BY <1>1 DEF Listing
<1>6. ConfirmedOnce
  BY <1>1 DEF ConfirmedOnce
<1>7. OnlyItsAuthorReplaces
  BY <1>1 DEF OnlyItsAuthorReplaces
<1>8. \A p \in Moderator : ~Online(p)
  BY DEF Init, Online, Assumptions, StaffAssumption
<1>9. TargetsAreOnline /\ ModeratorsAreTold
  BY <1>8 DEF TargetsAreOnline, ModeratorsAreTold
<1> QED BY <1>3, <1>4, <1>5, <1>6, <1>7, <1>9 DEF Inv

\* A step that leaves the reports and the list alone.
LEMMA CallsAlone ==
    ASSUME Inv, UNCHANGED <<calls, staffCallList>>
    PROVE  /\ Count' = Count /\ Listed' = Listed
           /\ Listing' /\ ConfirmedOnce' /\ OnlyItsAuthorReplaces'
<1>1. Listed' = Listed /\ Count' = Count
  BY DEF Listed, Count
<1>2. \A n : Lost(n)' <=> Lost(n)
  BY <1>1 DEF Lost
<1> QED BY <1>1, <1>2 DEF Inv, Listing, ConfirmedOnce, OnlyItsAuthorReplaces

\* Sessions, moderators of the channel and the clock.
LEMMA OthersKeep ==
    ASSUME Assumptions, Inv,
           \/ Tick
           \/ \E p \in Person : PrepareShutdown(p) \/ RemoveConnection(p) \/ SetMod(p)
    PROVE  Inv'
<1>1. UNCHANGED <<calls, staffCallList, timers, told>>
  BY DEF Tick, PrepareShutdown, RemoveConnection, SetMod
<1>2. /\ Count' = Count /\ Listed' = Listed
      /\ Listing' /\ ConfirmedOnce' /\ OnlyItsAuthorReplaces'
  BY <1>1, CallsAlone
<1>3. /\ session' \in [Person -> {"off", "on", "closed"}] /\ mods' \subseteq Person
      /\ staffCallTargets' \subseteq {p \in Moderator : session'[p] # "off"}
      /\ \A p \in Person : session'[p] = "on" => session[p] = "on"
      /\ \A p \in Person : session'[p] = "on" /\ p \in staffCallTargets => p \in staffCallTargets'
  BY DEF Tick, PrepareShutdown, RemoveConnection, SetMod, Inv, TypeOK, Online, Assumptions,
         StaffAssumption
<1>4. now' \in 0 .. MaxTime
  BY DEF Tick, PrepareShutdown, RemoveConnection, SetMod, Inv, Numbering, Assumptions,
         BoundAssumption
<1>5. TypeOK' /\ Numbering'
  BY <1>1, <1>2, <1>3, <1>4 DEF Inv, TypeOK, Numbering
<1>6. TargetsAreOnline' /\ ModeratorsAreTold'
  BY <1>1, <1>2, <1>3 DEF Inv, TargetsAreOnline, ModeratorsAreTold, Online, Assumptions,
                          StaffAssumption
<1> QED BY <1>2, <1>5, <1>6 DEF Inv

\* Who logs in is told what waits, and becomes a target.
LEMMA LoginKeeps ==
    ASSUME Assumptions, Inv, NEW p \in Person, Login(p)
    PROVE  Inv'
<1>1. UNCHANGED <<calls, staffCallList, now, mods>>
  BY DEF Login
<1>2. /\ Count' = Count /\ Listed' = Listed
      /\ Listing' /\ ConfirmedOnce' /\ OnlyItsAuthorReplaces'
  BY <1>1, CallsAlone
<1>3. Listed \subseteq DOMAIN calls
  BY DEF Inv, Listing, Listed
<1>4. session' \in [Person -> {"off", "on", "closed"}] /\ told' \in [Person -> SUBSET DOMAIN calls']
  BY <1>1, <1>3 DEF Login, Inv, TypeOK
<1>5. timers' \in [Person -> {Never} \cup 0 .. MaxTime]
  BY DEF Login, Inv, TypeOK
<1>6. staffCallTargets' \subseteq {q \in Moderator : session'[q] # "off"}
  BY DEF Login, Inv, TypeOK
<1>7. TypeOK' /\ Numbering'
  BY <1>1, <1>2, <1>4, <1>5, <1>6 DEF Inv, TypeOK, Numbering
<1>8. ASSUME NEW q \in Moderator, session'[q] = "on"
      PROVE  q \in staffCallTargets' /\ Listed' \subseteq told'[q]
  <2>1. q \in Person
    BY DEF Assumptions, StaffAssumption
  <2>2. CASE q = p
    BY <2>1, <2>2, <1>2 DEF Login, Inv, TypeOK
  <2>3. CASE q # p
    <3>1. Online(q) /\ told'[q] = told[q] /\ (q \in staffCallTargets => q \in staffCallTargets')
      BY <2>1, <2>3, <1>8 DEF Login, Inv, TypeOK, Online
    <3> QED BY <3>1, <1>2 DEF Inv, TargetsAreOnline, ModeratorsAreTold
  <2> QED BY <2>2, <2>3
<1> QED BY <1>2, <1>7, <1>8 DEF Inv, TargetsAreOnline, ModeratorsAreTold, Online

\* Who asks is told what waits.
LEMMA PCRKeeps ==
    ASSUME Assumptions, Inv, NEW p \in Person, PCR(p)
    PROVE  Inv'
<1>1. UNCHANGED <<calls, staffCallList, now, mods, session, staffCallTargets, timers>>
  BY DEF PCR
<1>2. /\ Count' = Count /\ Listed' = Listed
      /\ Listing' /\ ConfirmedOnce' /\ OnlyItsAuthorReplaces'
  BY <1>1, CallsAlone
<1>3. Listed \subseteq DOMAIN calls
  BY DEF Inv, Listing, Listed
<1>4. told' \in [Person -> SUBSET DOMAIN calls] /\ \A q \in Person : told[q] \subseteq told'[q]
  BY <1>3 DEF PCR, Tell, Inv, TypeOK
<1>5. TypeOK' /\ Numbering'
  BY <1>1, <1>2, <1>4 DEF Inv, TypeOK, Numbering
<1>6. TargetsAreOnline' /\ ModeratorsAreTold'
  BY <1>1, <1>2, <1>4 DEF Inv, TargetsAreOnline, ModeratorsAreTold, Online, Assumptions,
                          StaffAssumption
<1> QED BY <1>2, <1>5, <1>6 DEF Inv

\* A report is put in the list, where it may replace another of its author,
\* and told to all moderators who are online.
LEMMA ReportKeeps ==
    ASSUME Assumptions, Inv, NEW p \in Person, NEW tab \in Tab, Report(p, tab)
    PROVE  Inv'
<1> DEFINE n == Count + 1
           id == CallId(p, now)
           call == [n |-> n, character |-> p, tab |-> tab]
           record == [character |-> p, time |-> now, confirmed |-> 0]
<1>1. /\ staffCallList' = [x \in DOMAIN staffCallList \cup {id} |->
                             IF x = id THEN call ELSE staffCallList[x]]
      /\ calls' = [k \in 1 .. n |-> IF k < n THEN calls[k] ELSE record]
      /\ Tell(Told(tab), {n})
      /\ UNCHANGED <<session, mods, staffCallTargets, now>>
  BY DEF Report, AddStaffCall, Count
<1>2. Count \in Nat /\ DOMAIN calls = 1 .. Count /\ calls \in [1 .. Count -> Call]
      /\ now \in Nat /\ now \in 0 .. MaxTime
  BY DEF Inv, Numbering, Assumptions, BoundAssumption
<1>3. record \in Call /\ record.character = p /\ record.time = now /\ record.confirmed = 0
  BY <1>2 DEF Call
<1>4. call \in [n : 1 .. n, character : Person, tab : Tab] /\ call.n = n
  BY <1>2
<1>5. timers' \in [Person -> {Never} \cup 0 .. MaxTime]
  BY <1>2 DEF Report, Inv, TypeOK
<1> HIDE DEF id, call, record
<1>6. /\ DOMAIN calls' = 1 .. n /\ calls'[n] = record
      /\ \A k \in 1 .. Count : k # n /\ calls'[k] = calls[k]
  BY <1>1, <1>2
<1>7. Count' = n
  BY <1>2, <1>6, FS_Interval DEF Count
<1>8. calls' \in [1 .. n -> Call]
  BY <1>1, <1>2, <1>3
<1>9. Numbering'
  BY <1>1, <1>2, <1>7, <1>8 DEF Numbering
<1>10. /\ DOMAIN staffCallList' = DOMAIN staffCallList \cup {id} /\ staffCallList'[id] = call
       /\ \A x \in DOMAIN staffCallList : x # id => staffCallList'[x] = staffCallList[x]
  BY <1>1
<1>11. Listing'
  <2>1. ASSUME NEW x \in DOMAIN staffCallList'
        PROVE  LET k == staffCallList'[x].n IN
               /\ k \in DOMAIN calls' /\ calls'[k].confirmed = 0
               /\ x = CallId(calls'[k].character, calls'[k].time)
    <3>1. CASE x = id
      BY <3>1, <1>2, <1>3, <1>4, <1>6, <1>10 DEF id
    <3>2. CASE x # id
      <4>1. x \in DOMAIN staffCallList /\ staffCallList'[x] = staffCallList[x]
        BY <3>2, <1>10
      <4> QED BY <4>1, <1>2, <1>6 DEF Inv, Listing
    <3> QED BY <3>1, <3>2
  <2> QED BY <2>1 DEF Listing, CallId
<1>12. Listed' \subseteq Listed \cup {n}
  BY <1>4, <1>10 DEF Listed
<1>13. n \in Listed' /\ \A k \in Listed : k \in Listed' \/
          \E x \in DOMAIN staffCallList : x = id /\ staffCallList[x].n = k
  BY <1>4, <1>10 DEF Listed
<1>14. ASSUME NEW k \in DOMAIN calls', Lost(k)'
       PROVE  \E j \in DOMAIN calls' :
                 /\ j > k /\ calls'[j].character = calls'[k].character
                 /\ calls'[j].time = calls'[k].time
  <2>1. k \in 1 .. Count /\ k \notin Listed' /\ calls[k].confirmed = 0
    BY <1>2, <1>6, <1>13, <1>14 DEF Lost
  <2>2. CASE k \in Listed
    <3>1. id = CallId(calls[k].character, calls[k].time)
      BY <2>1, <2>2, <1>13 DEF Inv, Listing
    <3>2. calls[k].character = p /\ calls[k].time = now
      BY <3>1 DEF id, CallId
    <3> QED BY <2>1, <3>2, <1>2, <1>3, <1>6
  <2>3. CASE k \notin Listed
    <3>1. PICK j \in DOMAIN calls : /\ j > k /\ calls[j].character = calls[k].character
                                    /\ calls[j].time = calls[k].time
      BY <2>1, <2>3, <1>2 DEF Inv, OnlyItsAuthorReplaces, Lost
    <3> QED BY <3>1, <2>1, <1>2, <1>6
  <2> QED BY <2>2, <2>3
<1>15. OnlyItsAuthorReplaces'
  BY <1>14 DEF OnlyItsAuthorReplaces
<1>16. ConfirmedOnce'
  BY <1>2, <1>3, <1>6 DEF Inv, ConfirmedOnce
<1>17. /\ told' \in [Person -> SUBSET (1 .. n)] /\ \A q \in Person : told[q] \subseteq told'[q]
       /\ \A q \in staffCallTargets \cap Person : Online(q) => n \in told'[q]
  BY <1>1, <1>2 DEF Tell, Told, Inv, TypeOK
<1>18. \A x \in DOMAIN staffCallList' : staffCallList'[x] \in [n : 1 .. n, character : Person, tab : Tab]
  BY <1>2, <1>4, <1>10 DEF Inv, TypeOK
<1>19. TypeOK'
  BY <1>1, <1>5, <1>6, <1>17, <1>18 DEF Inv, TypeOK
<1>20. TargetsAreOnline' /\ ModeratorsAreTold'
  <2>1. ASSUME NEW q \in Moderator, Online(q)
        PROVE  q \in staffCallTargets /\ Listed' \subseteq told'[q]
    BY <2>1, <1>12, <1>17 DEF Inv, TargetsAreOnline, ModeratorsAreTold, Assumptions, StaffAssumption
  <2> QED BY <2>1, <1>1 DEF TargetsAreOnline, ModeratorsAreTold, Online
<1> QED BY <1>9, <1>11, <1>15, <1>16, <1>19, <1>20 DEF Inv

\* A call that is confirmed leaves the list in the same step.
LEMMA ConfirmKeeps ==
    ASSUME Assumptions, Inv, NEW p \in Person, NEW id \in DOMAIN staffCallList, Confirm(p, id)
    PROVE  Inv'
<1> DEFINE n == staffCallList[id].n
<1>1. /\ calls' = [calls EXCEPT ![n].confirmed = @ + 1]
      /\ staffCallList' = Restrict(staffCallList, DOMAIN staffCallList \ {id})
      /\ UNCHANGED <<session, mods, staffCallTargets, timers, now, told>>
  BY DEF Confirm, RemoveStaffCall
<1>2. Count \in Nat /\ DOMAIN calls = 1 .. Count /\ calls \in [1 .. Count -> Call]
  BY DEF Inv, Numbering
<1>3. n \in 1 .. Count /\ calls[n].confirmed = 0
  BY <1>2 DEF Inv, Listing
<1>4. /\ DOMAIN staffCallList' = DOMAIN staffCallList \ {id}
      /\ \A x \in DOMAIN staffCallList' : staffCallList'[x] = staffCallList[x]
  BY <1>1 DEF Restrict
<1>5. \A x \in DOMAIN staffCallList' : staffCallList'[x].n # n
  BY <1>4, ListedOnce DEF Inv
<1> HIDE DEF n
<1>6. /\ DOMAIN calls' = 1 .. Count /\ calls' \in [1 .. Count -> Call]
      /\ calls'[n].confirmed = 1
      /\ \A k \in 1 .. Count : /\ k # n => calls'[k] = calls[k]
                               /\ calls'[k].character = calls[k].character
                               /\ calls'[k].time = calls[k].time
  BY <1>1, <1>2, <1>3 DEF Call
<1>7. Numbering'
  BY <1>1, <1>2, <1>6 DEF Numbering, Count, Inv
<1>8. TypeOK'
  BY <1>1, <1>2, <1>4, <1>6 DEF Inv, TypeOK
<1>9. Listing'
  BY <1>2, <1>4, <1>5, <1>6 DEF Inv, Listing, CallId
<1>10. ConfirmedOnce'
  BY <1>2, <1>6 DEF Inv, ConfirmedOnce
<1>11. Listed' \subseteq Listed /\ \A k \in Listed : k = n \/ k \in Listed'
  BY <1>4 DEF Listed, n
<1>12. TargetsAreOnline' /\ ModeratorsAreTold'
  BY <1>1, <1>11 DEF Inv, TargetsAreOnline, ModeratorsAreTold, Online
<1>13. ASSUME NEW k \in DOMAIN calls', Lost(k)'
       PROVE  \E j \in DOMAIN calls' :
                 /\ j > k /\ calls'[j].character = calls'[k].character
                 /\ calls'[j].time = calls'[k].time
  <2>1. k \in 1 .. Count /\ k \notin Listed' /\ calls'[k].confirmed = 0
    BY <1>6, <1>13 DEF Lost
  <2>2. k # n
    BY <2>1, <1>6
  <2>3. Lost(k)
    BY <2>1, <2>2, <1>6, <1>11 DEF Lost
  <2> QED BY <2>1, <2>3, <1>2, <1>6 DEF Inv, OnlyItsAuthorReplaces
<1>14. OnlyItsAuthorReplaces'
  BY <1>13 DEF OnlyItsAuthorReplaces
<1> QED BY <1>7, <1>8, <1>9, <1>10, <1>12, <1>14 DEF Inv

THEOREM Invariant == Spec => []Inv
<1>1. Assumptions
  BY StaffAssumption, BoundAssumption DEF Assumptions
<1>2. Init => Inv
  BY <1>1, Initially
<1>3. Inv /\ [Next]_vars => Inv'
  <2>1. ASSUME Inv, UNCHANGED vars PROVE Inv'
    <3>1. UNCHANGED <<session, mods, staffCallTargets, staffCallList, timers, now, told, calls>>
      BY <2>1 DEF vars
    <3>2. /\ Count' = Count /\ Listed' = Listed
          /\ Listing' /\ ConfirmedOnce' /\ OnlyItsAuthorReplaces'
      BY <2>1, <3>1, CallsAlone
    <3> QED BY <2>1, <3>1, <3>2 DEF Inv, TypeOK, Numbering, TargetsAreOnline, ModeratorsAreTold,
                                    Online
  <2>2. ASSUME Inv, Next PROVE Inv'
    BY <1>1, <2>2, OthersKeep, LoginKeeps, PCRKeeps, ReportKeeps, ConfirmKeeps DEF Next
  <2> QED BY <2>1, <2>2
<1> QED BY <1>2, <1>3, PTL DEF Spec

-----------------------------------------------------------------------------

\* The list, the targets and the reports keep their types.
THEOREM TypeCorrect == Spec => []TypeOK
<1> QED BY Invariant, PTL DEF Inv

\* broadcastStaffCall and sendStaffCalls between them tell a moderator who is
\* online of everything that waits, logins and closed connections included.
THEOREM AllAreTold == Spec => []ModeratorsAreTold
<1> QED BY Invariant, PTL DEF Inv

\* Of all who may confirm a call, one does.
THEOREM ConfirmedOnlyOnce == Spec => []ConfirmedOnce
<1> QED BY Invariant, PTL DEF Inv

\* A report that addStaffCall replaced was replaced by its own author.
THEOREM AuthorsReplaceTheirOwn == Spec => []OnlyItsAuthorReplaces
<1> QED BY Invariant, PTL DEF Inv

\* A report is known to those who may handle it, handled once at most, and
\* lost to nobody but its author, for any people, roles and times.
THEOREM CallsCorrect == Spec => []CallsOK
<1> QED BY TypeCorrect, AllAreTold, ConfirmedOnlyOnce, AuthorsReplaceTheirOwn, PTL DEF CallsOK

-----------------------------------------------------------------------------
(* Moderation *)

LEMMA StaffInitially == ASSUME M!ModerationAssumption, M!Init PROVE M!StaffOK
<1> USE DEF M!Init, M!ModerationAssumption
<1>1. M!TypeOK
  BY DEF M!TypeOK, M!Found, M!NoTimeout
<1>2. M!RolesAgree /\ M!BarredStayOut
  BY DEF M!RolesAgree, M!BarredStayOut, M!Found
<1> QED BY <1>1, <1>2 DEF M!StaffOK

\* A login has the roles of the lists, and is refused if it has none and its
\* account is barred.
LEMMA StaffLogin ==
    ASSUME M!ModerationAssumption, M!StaffOK, NEW c \in Char, M!Login(c)
    PROVE  M!StaffOK'
<1> DEFINE identified == M!RolesAtLogin(c)
           refused == M!Barred(AccountOf[c]) /\ identified = {}
<1> USE DEF M!ModerationAssumption, M!StaffOK
<1>1. /\ identified \subseteq {"admin", "global"}
      /\ "global" \in identified <=> c \in opList
  BY DEF M!RolesAtLogin, M!SetGlobMod, M!SetAdmin, M!IsOp
<1>2. /\ connected' = [connected EXCEPT ![c] = IF refused THEN "closing" ELSE "on"]
      /\ \/ roles' = [roles EXCEPT ![c] = identified]
         \/ roles' = [roles EXCEPT ![c] = identified \cup {"super-cop"}]
      /\ targets' \subseteq targets \cup {c} /\ invites' \subseteq invites \cup {c}
      /\ inside' \subseteq inside \cup {c} /\ demoted' = demoted \ {c}
      /\ UNCHANGED <<opList, bans, timeouts, clock>>
  BY DEF M!Login, M!AddRole, M!lists
<1> HIDE DEF identified, refused
<1>3. M!TypeOK'
  <2>1. /\ connected' \in [Char -> {"off", "on", "closing"}]
        /\ roles' \in [Char -> SUBSET {"admin", "global", "super-cop"}]
    <3>1. /\ identified \in SUBSET {"admin", "global", "super-cop"}
          /\ identified \cup {"super-cop"} \in SUBSET {"admin", "global", "super-cop"}
      BY <1>1
    <3> DEFINE R == SUBSET {"admin", "global", "super-cop"}
    <3>2. \E r \in R : roles' = [roles EXCEPT ![c] = r]
      BY <1>2, <3>1
    <3>. roles \in [Char -> R]
      BY DEF M!TypeOK
    <3>. HIDE DEF R
    <3>4. roles' \in [Char -> R]
      BY <3>2
    <3>3. connected' \in [Char -> {"off", "on", "closing"}]
      BY <1>2 DEF M!TypeOK
    <3> QED BY <3>3, <3>4 DEF R
  <2>2. \A d \in Char : connected'[d] = "off" => connected[d] = "off" /\ d # c
    BY <1>2 DEF M!TypeOK
  <2> QED BY <1>2, <2>1, <2>2 DEF M!TypeOK, M!Found, M!BanList, M!NoTimeout
<1>4. M!RolesAgree'
  BY <1>1, <1>2 DEF M!TypeOK, M!RolesAgree, M!Found, M!HasRole, M!IsOp
<1>5. M!BarredStayOut'
  <2>1. \A a : M!Barred(a)' <=> M!Barred(a)
    BY <1>2 DEF M!Barred, M!IsBanned, M!IsTimedOut, M!NoTimeout
  <2> QED
    BY <1>1, <1>2, <2>1
    DEF M!TypeOK, M!BarredStayOut, M!HasAnyRole, M!StaffRoles, refused
<1> QED BY <1>3, <1>4, <1>5

LEMMA StaffDisconnect ==
    ASSUME M!ModerationAssumption, M!StaffOK, NEW c \in Char, M!Disconnect(c)
    PROVE  M!StaffOK'
<1> USE DEF M!StaffOK, M!Disconnect, M!Ended, M!lists
<1>1. M!TypeOK'
  <2>1. \A d \in Char : connected'[d] = "off" <=> connected[d] = "off" \/ d = c
    BY DEF M!TypeOK
  <2> QED BY <2>1 DEF M!TypeOK, M!Found, M!BanList, M!NoTimeout
<1>2. M!RolesAgree'
  BY DEF M!TypeOK, M!RolesAgree, M!Found, M!HasRole, M!IsOp
<1>3. M!BarredStayOut'
  <2>1. \A a : M!Barred(a)' <=> M!Barred(a)
    BY DEF M!Barred, M!IsBanned, M!IsTimedOut, M!NoTimeout
  <2> QED BY <2>1 DEF M!TypeOK, M!BarredStayOut, M!HasAnyRole, M!StaffRoles
<1> QED BY <1>1, <1>2, <1>3

\* Time only ends time-outs.
LEMMA StaffTick ==
    ASSUME M!ModerationAssumption, M!StaffOK, M!Tick PROVE M!StaffOK'
<1> USE DEF M!StaffOK, M!Tick, M!lists, M!room, M!ModerationAssumption
<1>1. M!TypeOK'
  BY DEF M!TypeOK, M!Found, M!BanList, M!NoTimeout
<1>2. M!RolesAgree'
  BY DEF M!RolesAgree, M!Found, M!HasRole, M!IsOp
<1>3. M!BarredStayOut'
  <2>1. \A a \in Account : M!Barred(a)' => M!Barred(a)
    BY DEF M!TypeOK, M!Barred, M!IsBanned, M!IsTimedOut, M!NoTimeout
  <2> QED BY <2>1 DEF M!TypeOK, M!BarredStayOut, M!HasAnyRole, M!StaffRoles
<1> QED BY <1>1, <1>2, <1>3

\* A promotion and a demotion change the list and the role together; whoever
\* loses the role while it is on is remembered.
LEMMA StaffOperators ==
    ASSUME M!ModerationAssumption, M!StaffOK, NEW u \in Char, NEW v \in Char,
           M!AOP(u, v) \/ M!DOP(u, v)
    PROVE  M!StaffOK'
<1> USE DEF M!StaffOK, M!AOP, M!DOP, M!room, M!SetGlobMod
<1>1. M!TypeOK'
  BY DEF M!TypeOK, M!Found, M!BanList, M!NoTimeout
<1>2. M!RolesAgree'
  BY DEF M!TypeOK, M!RolesAgree, M!Found, M!HasRole, M!IsOp
<1>3. M!BarredStayOut'
  <2>1. \A a : M!Barred(a)' <=> M!Barred(a)
    BY DEF M!Barred, M!IsBanned, M!IsTimedOut, M!NoTimeout
  <2>2. \A c \in Char : M!HasAnyRole(c, M!StaffRoles) \/ c \in demoted =>
                          M!HasAnyRole(c, M!StaffRoles)' \/ c \in demoted'
                          \/ connected[c] = "off"
    BY DEF M!TypeOK, M!HasAnyRole, M!StaffRoles, M!Found
  <2> QED BY <2>1, <2>2 DEF M!TypeOK, M!BarredStayOut
<1> QED BY <1>1, <1>2, <1>3

\* What u.close leaves: nobody is on whom it was told of, and nobody off.
LEMMA Closes ==
    ASSUME M!TypeOK, NEW chars, M!Close(chars)
    PROVE  /\ connected' \in [Char -> {"off", "on", "closing"}]
           /\ \A c \in Char : connected'[c] = "off" <=> connected[c] = "off"
           /\ \A c \in Char : connected'[c] = "on" => connected[c] = "on" /\ c \notin chars
BY DEF M!TypeOK, M!Close, M!Found

\* A time-out closes every connection of the account; nothing else bars one.
LEMMA StaffTimeout ==
    ASSUME M!ModerationAssumption, M!StaffOK, NEW u \in Char, NEW v \in Char,
           NEW length \in Length, M!TMO(u, v, length)
    PROVE  M!StaffOK'
<1> USE DEF M!StaffOK, M!ModerationAssumption
<1>1. /\ M!Close(M!GetByAccount(v)) /\ timeouts' = M!AddTimeout(v, length)
      /\ UNCHANGED <<roles, targets, opList, bans, invites, inside, clock, demoted>>
  BY DEF M!TMO, M!room
<1>2. M!TypeOK'
  <2>1. timeouts' \in [Account -> [end : Int, character : Char \cup {NoChar}]]
    BY <1>1 DEF M!TypeOK, M!AddTimeout
  <2> QED BY <1>1, <2>1, Closes DEF M!TypeOK, M!Found, M!BanList
<1>3. M!RolesAgree'
  BY <1>1, Closes DEF M!RolesAgree, M!Found, M!HasRole, M!IsOp
<1>4. M!BarredStayOut'
  <2>1. \A a \in Account : a # AccountOf[v] => (M!Barred(a)' <=> M!Barred(a))
    BY <1>1 DEF M!TypeOK, M!AddTimeout, M!Barred, M!IsBanned, M!IsTimedOut, M!NoTimeout
  <2>2. \A c \in Char : connected'[c] = "on" =>
            connected[c] = "on" /\ AccountOf[c] # AccountOf[v]
    BY <1>1, Closes DEF M!GetByAccount, M!Found
  <2> QED BY <1>1, <2>1, <2>2 DEF M!TypeOK, M!BarredStayOut, M!HasAnyRole
<1> QED BY <1>2, <1>3, <1>4

\* An attempted ban, a pardon and a kick bar nobody.
LEMMA StaffOthers ==
    ASSUME M!ModerationAssumption, M!StaffOK, NEW u \in Char, NEW v \in Char,
           M!ACB(u, v) \/ M!UNB(u, v) \/ M!KIK(u, v)
    PROVE  M!StaffOK'
<1> USE DEF M!StaffOK, M!ModerationAssumption
<1>1. M!ACBCode(u, v) # "FERR_OK"
  BY DEF M!ACBCode
<1>2. /\ \E chars : M!Close(chars) \/ UNCHANGED connected
      /\ UNCHANGED <<roles, targets, opList, invites, inside, clock, demoted>>
      /\ \/ bans' = bans /\ timeouts' = timeouts
         \/ bans' = M!RemoveBan(v) /\ timeouts' = M!RemoveTimeout(v)
  BY <1>1 DEF M!ACB, M!UNB, M!KIK, M!room, M!lists
<1>3. /\ connected' \in [Char -> {"off", "on", "closing"}]
      /\ \A c \in Char : connected'[c] = "off" <=> connected[c] = "off"
      /\ \A c \in Char : connected'[c] = "on" => connected[c] = "on"
  BY <1>2, Closes DEF M!TypeOK
<1>4. /\ bans' \in M!BanList
      /\ timeouts' \in [Account -> [end : Int, character : Char \cup {NoChar}]]
      /\ \A a \in Account : /\ bans'[a] \in {bans[a], NoChar}
                            /\ timeouts'[a] \in {timeouts[a], M!NoTimeout}
  BY <1>2 DEF M!TypeOK, M!RemoveBan, M!RemoveTimeout, M!BanList, M!NoTimeout
<1>5. M!TypeOK'
  BY <1>2, <1>3, <1>4 DEF M!TypeOK, M!Found, M!BanList
<1>6. M!RolesAgree'
  BY <1>2, <1>3 DEF M!RolesAgree, M!Found, M!HasRole, M!IsOp
<1>7. M!BarredStayOut'
  <2>1. \A a \in Account : M!Barred(a)' => M!Barred(a)
    BY <1>2, <1>4 DEF M!Barred, M!IsBanned, M!IsTimedOut, M!NoTimeout
  <2> QED BY <1>2, <1>3, <2>1 DEF M!TypeOK, M!BarredStayOut, M!HasAnyRole
<1> QED BY <1>5, <1>6, <1>7

LEMMA StaffFrame == ASSUME M!StaffOK, UNCHANGED M!vars PROVE M!StaffOK'
BY DEF M!vars, M!lists, M!room, M!StaffOK, M!TypeOK, M!RolesAgree, M!BarredStayOut, M!Found,
       M!HasRole, M!HasAnyRole, M!StaffRoles, M!IsOp, M!Barred, M!IsBanned, M!IsTimedOut,
       M!BanList, M!NoTimeout

\* For any characters, accounts and roles: the role of an operator and the
\* list of operators agree, and a barred account has no session but of its
\* staff, whatever promotions, time-outs and logins come between (AOP, DOP, TMO
\* and ident_callback in the Lua scripts, lua_chat.cpp).
THEOREM StaffCorrect ==
    ASSUME M!ModerationAssumption PROVE M!Spec => []StaffOK
<1>1. M!Init => M!StaffOK
  BY StaffInitially
<1>2. M!StaffOK /\ [M!Next]_M!vars => M!StaffOK'
  BY StaffLogin, StaffDisconnect, StaffTick, StaffOperators, StaffTimeout,
     StaffOthers, StaffFrame
  DEF M!Next, M!SessionStep, M!StaffStep
<1> QED BY <1>1, <1>2, PTL DEF M!Spec, StaffOK
=============================================================================
