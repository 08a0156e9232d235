---------------------------- MODULE UsersProofs -----------------------------
(***************************************************************************)
(* Proofs about IgnoreLists, Messages and RoomLists, for any number of     *)
(* connections, users, names and rooms and any limits.                     *)
(*                                                                         *)
(* IgnoreLists: nobody who was put on the list is forgotten, but for names *)
(* that an answer under way is without, and no client ignores somebody its *)
(* connection has not got.  The two are inductive with TypeOK.  What makes *)
(* them so is that propagateIgnoreList only inserts (Propagated): the      *)
(* weakness that lets a deleted name stay in a copy is what keeps an added *)
(* one there.                                                              *)
(*                                                                         *)
(* Messages: what was passed on is spaced by the timers, as these are never*)
(* behind it (TimersCoverSent), and the silenced are unheard, as every     *)
(* connection of a silenced account is marked, or had an outdated answer   *)
(* (SilencedAreMarked).                                                    *)
(*                                                                         *)
(* RoomLists: a list is right for the time it was made, and every change   *)
(* of a room it does not show came later (MadeOf).                         *)
(***************************************************************************)
EXTENDS Conversation, FiniteSets, TLAPS

-----------------------------------------------------------------------------
(* IgnoreLists *)

Inv == TypeOK /\ IgnoredStayIgnored /\ ClientsNotAhead

-----------------------------------------------------------------------------

LEMMA LowerNames ==
    ASSUME NameAssumption
    PROVE  /\ \A x \in Name : LowerOf[x] \in Lower /\ LowerOf[LowerOf[x]] = LowerOf[x]
           /\ Lower \subseteq Name
<1> QED BY DEF NameAssumption, Name

\* What propagateIgnoreList makes of the copies: names, none of those who are
\* not online, c's the list and every other at least what it was and the list.
LEMMA PropagatedCopies ==
    ASSUME TypeOK, NEW c \in online, NEW list \in SUBSET Name
    PROVE  /\ Propagated(c, list) \in [Con -> SUBSET Name]
           /\ \A d \in Con \ online : Propagated(c, list)[d] = {}
           /\ Propagated(c, list)[c] = list
           /\ \A d \in online : d # c => Propagated(c, list)[d] = ignores[d] \cup list
<1> QED BY DEF TypeOK, Propagated

LEMMA LoweredNames ==
    ASSUME NameAssumption, NEW S \in SUBSET Name, NEW T \in SUBSET Name, S \subseteq T
    PROVE  Lowered(S) \subseteq Lowered(T) /\ Lowered(T) \in SUBSET Lower
<1> QED BY LowerNames DEF Lowered

LEMMA Initially == ASSUME NameAssumption, Init PROVE Inv
<1> QED BY DEF Init, Inv, TypeOK, IgnoredStayIgnored, ClientsNotAhead

LEMMA AnswerPreserves ==
    ASSUME Inv, NEW c \in Con, Answer(c)
    PROVE  Inv'
<1>1. /\ UNCHANGED <<online, ignores, stored, client, kept>>
      /\ c \notin online /\ identifying' = identifying \cup {c}
      /\ array_ignores' = [array_ignores EXCEPT ![c] = stored]
  BY DEF Answer
<1>2. TypeOK'
  BY <1>1 DEF Inv, TypeOK
<1>3. \A d \in identifying' : kept' \subseteq array_ignores'[d]
  BY <1>1 DEF Inv, TypeOK, IgnoredStayIgnored
<1> QED
  BY <1>1, <1>2, <1>3 DEF Inv, IgnoredStayIgnored, ClientsNotAhead, Lowered

\* An answer that has been used, or has come too late, leaves the others.
LEMMA AnsweredFacts ==
    ASSUME Inv, NEW c \in Con, Answered(c)
    PROVE  /\ c \in identifying /\ identifying' = identifying \ {c}
           /\ array_ignores' \in [Con -> SUBSET Name]
           /\ \A d \in identifying' : array_ignores'[d] = array_ignores[d]
<1> QED BY DEF Answered, Inv, TypeOK

LEMMA LoginPreserves ==
    ASSUME NameAssumption, Inv, NEW c \in Con, Login(c)
    PROVE  Inv'
<1> DEFINE list == array_ignores[c]
<1>1. /\ Answered(c) /\ UNCHANGED <<stored, kept>> /\ online' = online \cup {c}
      /\ ignores' = [ignores EXCEPT ![c] = list]
      /\ client' = [client EXCEPT ![c] = Lowered(list)]
  BY DEF Login
<1>2. list \in SUBSET Name /\ kept \subseteq list
  BY <1>1, AnsweredFacts DEF Inv, TypeOK, IgnoredStayIgnored
<1>3. Lowered(list) \in SUBSET Lower
  BY <1>2, LoweredNames
<1> HIDE DEF list
<1>4. TypeOK'
  BY <1>1, <1>2, <1>3, AnsweredFacts DEF Inv, TypeOK
<1>5. ASSUME NEW d \in online'
      PROVE  kept' \subseteq ignores'[d] /\ client'[d] \subseteq Lowered(ignores'[d])
  <2>1. CASE d = c
    <3>1. ignores'[d] = list /\ client'[d] = Lowered(list)
      BY <1>1, <2>1 DEF Inv, TypeOK
    <3> QED BY <1>1, <1>2, <3>1
  <2>2. CASE d # c
    <3>1. d \in online /\ ignores'[d] = ignores[d] /\ client'[d] = client[d]
      BY <1>1, <1>5, <2>2 DEF Inv, TypeOK
    <3> QED BY <1>1, <3>1 DEF Inv, IgnoredStayIgnored, ClientsNotAhead
  <2> QED BY <2>1, <2>2
<1>6. \A d \in identifying' : kept' \subseteq array_ignores'[d]
  BY <1>1, AnsweredFacts DEF Inv, IgnoredStayIgnored
<1>7. \A d \in online' : client'[d] \subseteq Lowered(ignores[d])'
  BY <1>5 DEF Lowered
<1> QED
  BY <1>1, <1>4, <1>5, <1>6, <1>7 DEF Inv, IgnoredStayIgnored, ClientsNotAhead

LEMMA LoginFailsPreserves ==
    ASSUME Inv, NEW c \in Con, LoginFails(c)
    PROVE  Inv'
<1>1. Answered(c) /\ UNCHANGED <<online, ignores, stored, client, kept>>
  BY DEF LoginFails
<1>2. TypeOK'
  BY <1>1, AnsweredFacts DEF Inv, TypeOK
<1>3. \A d \in identifying' : kept' \subseteq array_ignores'[d]
  BY <1>1, AnsweredFacts DEF Inv, IgnoredStayIgnored
<1> QED
  BY <1>1, <1>2, <1>3 DEF Inv, IgnoredStayIgnored, ClientsNotAhead, Lowered

LEMMA DisconnectPreserves ==
    ASSUME Inv, NEW c \in Con, Disconnect(c)
    PROVE  Inv'
<1>1. TypeOK'
  BY DEF Inv, TypeOK, Disconnect
<1>2. \A d \in online' : d \in online /\ ignores'[d] = ignores[d] /\ client'[d] = client[d]
  BY DEF Inv, TypeOK, Disconnect
<1>3. UNCHANGED <<stored, identifying, array_ignores, kept>>
  BY DEF Disconnect
<1> QED BY <1>1, <1>2, <1>3 DEF Inv, IgnoredStayIgnored, ClientsNotAhead, Lowered

LEMMA IgnAddPreserves ==
    ASSUME NameAssumption, Inv, NEW c \in Con, NEW name \in Name, IgnAdd(c, name)
    PROVE  Inv'
<1> DEFINE low == LowerOf[name]
           list == ignores[c] \cup {low}
<1>1. low \in Lower /\ low \in Name /\ LowerOf[low] = low
  BY LowerNames
<1>2. c \in online /\ online' = online
  BY DEF IgnAdd
<1>3. list \in SUBSET Name /\ ignores[c] \subseteq list
  BY <1>1 DEF Inv, TypeOK
<1>4. /\ ignores' = Propagated(c, list) /\ stored' = list
      /\ kept' = kept \cup {n \in {low} : \A d \in identifying : n \in array_ignores[d]}
      /\ UNCHANGED <<identifying, array_ignores>>
      /\ client' = [d \in Con |-> IF d \in online THEN client[d] \cup {low} ELSE {}]
  BY DEF IgnAdd
<1> HIDE DEF low, list
<1>5. TypeOK'
  BY <1>1, <1>2, <1>3, <1>4, PropagatedCopies DEF Inv, TypeOK
<1>6. kept' \subseteq list
  BY <1>2, <1>3, <1>4 DEF Inv, IgnoredStayIgnored, list
<1>7. ASSUME NEW d \in online
      PROVE  ignores[d] \cup {low} \subseteq ignores'[d] /\ kept' \subseteq ignores'[d]
  <2>1. low \in list
    BY DEF list
  <2>2. CASE d = c
    BY <2>1, <2>2, <1>2, <1>3, <1>4, <1>6, PropagatedCopies DEF Inv
  <2>3. CASE d # c
    BY <2>1, <2>3, <1>2, <1>3, <1>4, <1>6, PropagatedCopies DEF Inv
  <2> QED BY <2>2, <2>3
<1>8. ASSUME NEW d \in online, NEW x \in client'[d]
      PROVE  \E y \in ignores'[d] : LowerOf[y] = x
  <2>1. x \in client[d] \cup {low}
    BY <1>4, <1>8 DEF Inv, TypeOK
  <2>2. CASE x = low
    BY <2>2, <1>1, <1>7
  <2>3. CASE x \in client[d]
    BY <2>3, <1>7 DEF Inv, ClientsNotAhead, Lowered
  <2> QED BY <2>1, <2>2, <2>3
<1>9. ClientsNotAhead'
  BY <1>2, <1>8 DEF ClientsNotAhead, Lowered
<1>10. \A d \in identifying' : kept' \subseteq array_ignores'[d]
  BY <1>4 DEF Inv, IgnoredStayIgnored
<1> QED BY <1>2, <1>4, <1>5, <1>6, <1>7, <1>9, <1>10 DEF Inv, IgnoredStayIgnored

LEMMA IgnDeletePreserves ==
    ASSUME NameAssumption, Inv, NEW c \in Con, NEW name \in Name, IgnDelete(c, name)
    PROVE  Inv'
<1> DEFINE low == LowerOf[name]
           list == ignores[c] \ {low}
<1>1. low \in Lower /\ low \in Name /\ LowerOf[low] = low
  BY LowerNames
<1>2. c \in online /\ online' = online
  BY DEF IgnDelete
<1>3. list \in SUBSET Name
  BY DEF Inv, TypeOK
<1>4. /\ ignores' = Propagated(c, list) /\ stored' = list /\ kept' = kept \ {low}
      /\ UNCHANGED <<identifying, array_ignores>>
      /\ client' = [d \in Con |-> client[d] \ {low}]
  BY DEF IgnDelete
<1> HIDE DEF low, list
<1>5. TypeOK'
  BY <1>1, <1>2, <1>3, <1>4, PropagatedCopies DEF Inv, TypeOK
<1>6. kept' \subseteq list
  BY <1>2, <1>4 DEF Inv, IgnoredStayIgnored, list
<1>7. ASSUME NEW d \in online
      PROVE  ignores[d] \ {low} \subseteq ignores'[d] /\ kept' \subseteq ignores'[d]
  <2>1. CASE d = c
    BY <2>1, <1>2, <1>3, <1>4, <1>6, PropagatedCopies DEF Inv, list
  <2>2. CASE d # c
    BY <2>2, <1>2, <1>3, <1>4, <1>6, PropagatedCopies DEF Inv
  <2> QED BY <2>1, <2>2
<1>8. ASSUME NEW d \in online, NEW x \in client'[d]
      PROVE  \E y \in ignores'[d] : LowerOf[y] = x
  <2>1. x \in client[d] /\ x # low
    BY <1>4, <1>8 DEF Inv, TypeOK
  <2>2. PICK y \in ignores[d] : LowerOf[y] = x
    BY <2>1 DEF Inv, ClientsNotAhead, Lowered
  <2>3. y # low
    BY <2>1, <2>2, <1>1
  <2> QED BY <2>2, <2>3, <1>7
<1>9. ClientsNotAhead'
  BY <1>2, <1>8 DEF ClientsNotAhead, Lowered
<1> QED BY <1>2, <1>4, <1>5, <1>6, <1>7, <1>9 DEF Inv, IgnoredStayIgnored

LEMMA IgnDeleteAllPreserves ==
    ASSUME NameAssumption, Inv, NEW c \in Con, IgnDeleteAll(c)
    PROVE  Inv'
<1>1. c \in online /\ online' = online /\ kept' = {}
      /\ UNCHANGED <<identifying, array_ignores>>
  BY DEF IgnDeleteAll
<1>2. ignores' = Propagated(c, ignores[c]) /\ ignores[c] \in SUBSET Name
  BY DEF IgnDeleteAll, Inv, TypeOK
<1>3. \A d \in online : ignores[d] \subseteq ignores'[d]
  BY <1>1, <1>2, PropagatedCopies DEF Inv
<1>4. /\ stored' \in SUBSET Name /\ Lowered(ignores[c]) \in SUBSET Lower
      /\ client' = [client EXCEPT ![c] = Lowered(ignores[c])]
  BY <1>2, LoweredNames DEF IgnDeleteAll, Inv, TypeOK
<1>5. TypeOK'
  BY <1>1, <1>2, <1>4, PropagatedCopies DEF Inv, TypeOK
<1>6. ASSUME NEW d \in online PROVE client'[d] \subseteq Lowered(ignores[d])
  BY <1>4 DEF Inv, TypeOK, ClientsNotAhead
<1>7. ClientsNotAhead'
  BY <1>1, <1>3, <1>6 DEF ClientsNotAhead, Lowered
<1> QED BY <1>1, <1>5, <1>7 DEF Inv, IgnoredStayIgnored

THEOREM Invariant == Spec => []Inv
<1>1. NameAssumption
  BY NameAssumption
<1>2. Init => Inv
  BY <1>1, Initially
<1>3. Inv /\ [Next]_vars => Inv'
  <2>1. ASSUME Inv, UNCHANGED vars PROVE Inv'
    BY <2>1 DEF vars, Inv, TypeOK, IgnoredStayIgnored, ClientsNotAhead, Lowered
  <2>2. ASSUME Inv, Next PROVE Inv'
    BY <1>1, <2>2, AnswerPreserves, LoginPreserves, LoginFailsPreserves, DisconnectPreserves,
       IgnAddPreserves, IgnDeletePreserves, IgnDeleteAllPreserves DEF Next
  <2> QED BY <2>1, <2>2
<1> QED BY <1>2, <1>3, PTL DEF Spec

\* The copies are lists of names, and nobody has one who is not online.
THEOREM TypeCorrect == Spec => []TypeOK
<1> QED BY Invariant, PTL DEF Inv

\* Whatever the account's connections add and remove in whatever order, the
\* merges of propagateIgnoreList and the writes to Redis lose nobody who was
\* put on the list and is in every answer that a login waits to use.
THEOREM NobodyIsForgotten == Spec => []IgnoredStayIgnored
<1> QED BY Invariant, PTL DEF Inv

\* No client ignores somebody its connection's copy has not got.
THEOREM ClientsFollow == Spec => []ClientsNotAhead
<1> QED BY Invariant, PTL DEF Inv

\* Nobody who was put on the list of an account is forgotten, but for a name
\* that was added while the answer to a login was under way without it; and no
\* client is ahead of its connection.  For any names, connections and limit.
THEOREM IgnoresCorrect == Spec => []IgnoresOK
<1> QED BY TypeCorrect, NobodyIsForgotten, ClientsFollow, PTL DEF IgnoresOK

-----------------------------------------------------------------------------
(* Messages *)

\* The timers are never behind what was sent: the connection's is set before
\* anything is passed on, the channel's before an ad is and for the whole stay.
TimersCoverSent ==
    /\ \A u \in User : sent[u].message # M!NoEntry => sent[u].message <= timers[u]
    /\ \A u \in User : sent[u].stayAd # M!NoEntry =>
           u \in members /\ timerMap[u] # M!NoEntry /\ sent[u].stayAd <= timerMap[u]

\* Every connection of a silenced account is marked, or has slipped through; an
\* answer that a login waits to use and that says the account is clear is right.
SilencedAreMarked ==
    /\ \A u \in users : AccountOf[u] \in silenced => u \in hellban \cup slipped
    /\ \A u \in User : bits[u] = "clear" => AccountOf[u] \notin silenced

MessagesInv ==
    /\ M!MessagesOK /\ now \in 0 .. LastTime
    /\ TimersCoverSent /\ SilencedAreMarked

LEMMA MessagesInitially == ASSUME M!MessagesAssumption, M!Init PROVE MessagesInv
<1> USE DEF M!Init, M!MessagesAssumption, M!Nothing, M!NoEntry, M!None
<1>1. M!TypeOK
  BY DEF M!TypeOK, M!Mode
<1>2. TimersCoverSent /\ SilencedAreMarked
  BY DEF TimersCoverSent, SilencedAreMarked
<1> QED
  BY <1>1, <1>2
  DEF MessagesInv, M!MessagesOK, M!MessagesAreSpaced, M!AdsOfAStayAreSpaced,
      M!SilencedAreUnheard, M!Heard

\* The bounds of the times.
LEMMA MessageTimes ==
    ASSUME M!MessagesAssumption, MessagesInv
    PROVE  /\ now \in Int
           /\ \A u \in User : /\ timers[u] \in Int /\ timerMap[u] \in Int
                              /\ sent[u].message \in Int /\ sent[u].stayAd \in Int
BY DEF M!MessagesAssumption, MessagesInv, M!MessagesOK, M!TypeOK, M!Never, M!NoEntry

LEMMA PostFacts ==
    ASSUME M!MessagesAssumption, MessagesInv, NEW u \in User, NEW kind \in M!Kind, NEW to,
           M!Post(u, kind, to)
    PROVE  /\ sent' \in [User -> [{"message", "stayAd"} -> {M!NoEntry} \cup 0 .. LastTime]]
           /\ \A v \in User \ {u} : sent'[v] = sent[v]
           /\ sent'[u].message = IF kind = "status" THEN sent[u].message ELSE now
           /\ sent'[u].stayAd = IF kind = "ad" THEN now ELSE sent[u].stayAd
           /\ heard'.by = u /\ heard'.kind = kind /\ heard'.to = to
           /\ heard'.before = sent[u]
<1> DEFINE T == [{"message", "stayAd"} -> {M!NoEntry} \cup 0 .. LastTime]
<1>1. sent \in [User -> T] /\ now \in 0 .. LastTime
  BY DEF MessagesInv, M!MessagesOK, M!TypeOK
<1>2. \A s \in T : /\ [s EXCEPT !.message = now] \in T
                   /\ [s EXCEPT !.message = now].message = now
                   /\ [s EXCEPT !.message = now].stayAd = s.stayAd
  BY <1>1
<1>3. \A s \in T : /\ [s EXCEPT !.message = now, !.stayAd = now] \in T
                   /\ [s EXCEPT !.message = now, !.stayAd = now].message = now
                   /\ [s EXCEPT !.message = now, !.stayAd = now].stayAd = now
  BY <1>1
<1> DEFINE new == CASE kind = "message" -> [sent[u] EXCEPT !.message = now]
                    [] kind = "ad" -> [sent[u] EXCEPT !.message = now, !.stayAd = now]
                    [] kind = "status" -> sent[u]
<1>4. /\ new \in T
      /\ new.message = IF kind = "status" THEN sent[u].message ELSE now
      /\ new.stayAd = IF kind = "ad" THEN now ELSE sent[u].stayAd
  BY <1>1, <1>2, <1>3 DEF M!Kind
<1>5. sent' = [sent EXCEPT ![u] = new]
  BY DEF M!Post
<1> HIDE DEF T, new
<1>6. /\ sent' \in [User -> T] /\ sent'[u] = new
      /\ \A v \in User \ {u} : sent'[v] = sent[v]
  BY <1>1, <1>4, <1>5
<1>7. /\ heard'.by = u /\ heard'.kind = kind /\ heard'.to = to
      /\ heard'.before = sent[u]
  BY DEF M!Post
<1> QED BY <1>4, <1>6, <1>7 DEF T

\* Whatever is passed on is passed on by a connection whose timer, and for an
\* ad the channel's, allowed it, and whose account is not silenced.
LEMMA PostKeeps ==
    ASSUME M!MessagesAssumption, MessagesInv,
           NEW u \in users, NEW kind \in M!Kind, NEW to \in SUBSET users,
           M!Post(u, kind, to), ~M!Throttled(u), ~M!Hellbanned(u), M!SetTimer(u),
           UNCHANGED <<M!context, throttled>>,
           \/ kind = "message" /\ UNCHANGED timerMap
           \/ kind = "ad" /\ u \in members /\ ~M!AdThrottled(u)
              /\ timerMap' = [timerMap EXCEPT ![u] = now]
    PROVE  MessagesInv'
<1> USE DEF M!MessagesAssumption
<1>1. /\ u \in User /\ members \subseteq users /\ users \subseteq User
      /\ UNCHANGED <<users, members, chatMode, hellban, bits, now, silenced, slipped, throttled>>
      /\ timers' = [timers EXCEPT ![u] = now]
  BY DEF MessagesInv, M!MessagesOK, M!TypeOK, M!context, M!SetTimer
<1>2. M!TypeOK' /\ now' \in 0 .. LastTime
  BY <1>1, PostFacts DEF MessagesInv, M!MessagesOK, M!TypeOK
<1>3. \A v \in User : /\ timers'[v] = IF v = u THEN now ELSE timers[v]
                      /\ timerMap'[v] = IF v = u /\ kind = "ad" THEN now ELSE timerMap[v]
  BY <1>1 DEF MessagesInv, M!MessagesOK, M!TypeOK, M!Kind
<1>4. TimersCoverSent'
  BY <1>1, <1>3, MessageTimes, PostFacts DEF TimersCoverSent, MessagesInv, M!NoEntry
<1>5. SilencedAreMarked'
  BY <1>1 DEF SilencedAreMarked, MessagesInv
<1>6. M!MessagesAreSpaced'
  <2>1. sent[u].message = M!NoEntry \/ now - sent[u].message >= MSG_FLOOD
    BY <1>1, MessageTimes DEF M!Throttled, MessagesInv, TimersCoverSent
  <2> QED BY <1>1, <2>1, PostFacts DEF M!MessagesAreSpaced, M!Later
<1>7. M!AdsOfAStayAreSpaced'
  <2>1. kind = "ad" =>
          sent[u].stayAd = M!NoEntry \/ now - sent[u].stayAd >= LRP_FLOOD
    BY <1>1, MessageTimes DEF M!AdThrottled, MessagesInv, TimersCoverSent
  <2> QED BY <1>1, <2>1, PostFacts DEF M!AdsOfAStayAreSpaced, M!Later
<1>8. M!SilencedAreUnheard'
  BY <1>1, PostFacts
  DEF M!SilencedAreUnheard, M!Hellbanned, MessagesInv, SilencedAreMarked
<1> QED
  BY <1>2, <1>4, <1>5, <1>6, <1>7, <1>8 DEF MessagesInv, M!MessagesOK

\* A step that passes nothing on keeps what is said of messages.
LEMMA NothingHeard ==
    ASSUME heard' = M!None
    PROVE  /\ M!MessagesAreSpaced' /\ M!AdsOfAStayAreSpaced' /\ M!SilencedAreUnheard'
BY DEF M!MessagesAreSpaced, M!AdsOfAStayAreSpaced, M!SilencedAreUnheard, M!Heard, M!None

\* Nor does a command that is held back, though it sets the timers.
LEMMA WithholdKeeps ==
    ASSUME M!MessagesAssumption, MessagesInv, NEW u \in users, M!Withhold, M!SetTimer(u),
           ~M!Throttled(u), UNCHANGED <<M!context, throttled>>,
           \/ UNCHANGED timerMap
           \/ ~M!AdThrottled(u) /\ timerMap' = [timerMap EXCEPT ![u] = now]
    PROVE  MessagesInv'
<1> USE DEF M!MessagesAssumption
<1>1. /\ u \in User /\ members \subseteq users /\ users \subseteq User
      /\ UNCHANGED <<users, members, chatMode, hellban, bits, now, silenced, slipped, sent>>
      /\ UNCHANGED throttled
      /\ timers' = [timers EXCEPT ![u] = now] /\ heard' = M!None
  BY DEF MessagesInv, M!MessagesOK, M!TypeOK, M!context, M!SetTimer, M!Withhold
<1>2. M!TypeOK' /\ now' \in 0 .. LastTime
  BY <1>1 DEF MessagesInv, M!MessagesOK, M!TypeOK
<1>3. /\ \A v \in User : timers[v] <= timers'[v]
      /\ \A v \in User : timerMap[v] <= timerMap'[v]
                         /\ (timerMap[v] # M!NoEntry => timerMap'[v] # M!NoEntry)
  BY <1>1, MessageTimes
  DEF MessagesInv, M!MessagesOK, M!TypeOK, M!Throttled, M!AdThrottled, M!NoEntry,
      M!MessagesAssumption
<1>4. TimersCoverSent'
  <2>1. \A v \in User : timers'[v] \in Int /\ timerMap'[v] \in Int
    BY <1>2 DEF M!TypeOK, M!Never, M!NoEntry
  <2> QED BY <1>1, <1>3, <2>1, MessageTimes DEF TimersCoverSent, MessagesInv
<1>5. SilencedAreMarked'
  BY <1>1 DEF SilencedAreMarked, MessagesInv
<1> QED
  BY <1>1, <1>2, <1>4, <1>5, NothingHeard DEF MessagesInv, M!MessagesOK

\* A status leaves the two timers alone, and what is said of messages.
LEMMA StatusKeeps ==
    ASSUME M!MessagesAssumption, MessagesInv, NEW u \in User, NEW text, M!STA(u, text)
    PROVE  MessagesInv'
<1>1. /\ u \in users /\ users \subseteq User
      /\ UNCHANGED <<users, members, chatMode, hellban, bits, now, silenced, slipped>>
      /\ UNCHANGED <<timers, timerMap>> /\ throttled' = throttled \cup {u}
      /\ M!Post(u, "status", users) \/ M!Withhold
  BY DEF M!STA, M!context, MessagesInv, M!MessagesOK, M!TypeOK
<1>2. CASE M!Post(u, "status", users)
  <2>1. /\ sent' \in [User -> [{"message", "stayAd"} -> {M!NoEntry} \cup 0 .. LastTime]]
        /\ \A v \in User : /\ sent'[v].message = sent[v].message
                           /\ sent'[v].stayAd = sent[v].stayAd
        /\ heard'.by = u /\ heard'.kind = "status" /\ heard'.to = users
    BY <1>2, PostFacts DEF M!Kind
  <2>2. M!TypeOK' /\ now' \in 0 .. LastTime
    BY <1>1, <2>1 DEF MessagesInv, M!MessagesOK, M!TypeOK, M!Kind
  <2>3. TimersCoverSent' /\ SilencedAreMarked'
    BY <1>1, <2>1 DEF TimersCoverSent, SilencedAreMarked, MessagesInv
  <2>4. M!MessagesAreSpaced' /\ M!AdsOfAStayAreSpaced' /\ M!SilencedAreUnheard'
    BY <2>1 DEF M!MessagesAreSpaced, M!AdsOfAStayAreSpaced, M!SilencedAreUnheard
  <2> QED BY <2>2, <2>3, <2>4 DEF MessagesInv, M!MessagesOK
<1>3. CASE M!Withhold
  <2>1. heard' = M!None /\ sent' = sent
    BY <1>3 DEF M!Withhold
  <2>2. M!TypeOK' /\ now' \in 0 .. LastTime
    BY <1>1, <2>1 DEF MessagesInv, M!MessagesOK, M!TypeOK
  <2>3. TimersCoverSent' /\ SilencedAreMarked'
    BY <1>1, <2>1 DEF TimersCoverSent, SilencedAreMarked, MessagesInv
  <2> QED BY <2>1, <2>2, <2>3, NothingHeard DEF MessagesInv, M!MessagesOK
<1> QED BY <1>1, <1>2, <1>3

\* Each command either passes something on or withholds it.
LEMMA CommandsKeep ==
    ASSUME M!MessagesAssumption, MessagesInv, NEW u \in User, NEW text \in M!Text,
           NEW to \in User,
           M!MSG(u, text) \/ M!LRP(u, text) \/ M!PRI(u, to, text)
               \/ M!RollFor(u, to) \/ M!RollInChannel(u)
    PROVE  MessagesInv'
<1>1. members \subseteq users
  BY DEF MessagesInv, M!MessagesOK, M!TypeOK
<1> USE DEF M!Kind
<1>2. CASE M!MSG(u, text)
  BY <1>1, <1>2, PostKeeps, WithholdKeeps DEF M!MSG, M!SendChannel
<1>3. CASE M!LRP(u, text)
  <2>1. /\ u \in users /\ ~M!Throttled(u) /\ M!SetTimer(u) /\ UNCHANGED <<M!context, throttled>>
        /\ \/ M!Withhold /\ UNCHANGED timerMap
           \/ /\ M!Withhold /\ ~M!AdThrottled(u)
              /\ timerMap' = [timerMap EXCEPT ![u] = now]
           \/ /\ M!Post(u, "ad", members \ {u}) /\ ~M!Hellbanned(u)
              /\ u \in members /\ ~M!AdThrottled(u)
              /\ timerMap' = [timerMap EXCEPT ![u] = now]
    BY <1>3 DEF M!LRP, M!SendChannel
  <2> QED BY <1>1, <2>1, PostKeeps, WithholdKeeps
<1>4. CASE M!PRI(u, to, text)
  BY <1>1, <1>4, PostKeeps, WithholdKeeps DEF M!PRI
<1>5. CASE M!RollFor(u, to)
  BY <1>1, <1>5, PostKeeps, WithholdKeeps DEF M!RollFor
<1>6. CASE M!RollInChannel(u)
  BY <1>1, <1>6, PostKeeps, WithholdKeeps DEF M!RollInChannel, M!SendAll
<1> QED BY <1>2, <1>3, <1>4, <1>5, <1>6

\* A connection that goes takes with it what it sent, and a stay that ends its
\* ads.  A login starts with the mark that the answer to it had.
LEMMA SessionsKeep ==
    ASSUME M!MessagesAssumption, MessagesInv, NEW u \in User,
           M!Answer(u) \/ M!Login(u) \/ M!LoginFails(u) \/ M!Join(u) \/ M!Part(u)
               \/ M!Disconnect(u)
    PROVE  MessagesInv'
<1> USE DEF M!MessagesAssumption
<1> DEFINE T == [{"message", "stayAd"} -> {M!NoEntry} \cup 0 .. LastTime]
<1>1. sent \in [User -> T] /\ now \in 0 .. LastTime
  BY DEF MessagesInv, M!MessagesOK, M!TypeOK
<1>2. CASE M!Answer(u) \/ M!Login(u) \/ M!LoginFails(u) \/ M!Join(u)
  <2> USE DEF M!Answer, M!Answered, M!Login, M!LoginFails, M!Join
  <2>1. heard' = M!None /\ UNCHANGED <<timers, timerMap, now, silenced, sent>>
    BY <1>2
  <2>2. M!TypeOK' /\ now' \in 0 .. LastTime
    BY <1>2, <2>1 DEF MessagesInv, M!MessagesOK, M!TypeOK, M!None
  <2>3. members \subseteq members'
    BY <1>2
  <2>4. TimersCoverSent'
    BY <2>1, <2>3 DEF TimersCoverSent, MessagesInv
  <2>5. SilencedAreMarked'
    BY <1>2 DEF SilencedAreMarked, MessagesInv, M!MessagesOK, M!TypeOK
  <2> QED BY <2>1, <2>2, <2>4, <2>5, NothingHeard DEF MessagesInv, M!MessagesOK
<1>3. CASE M!Part(u)
  <2>1. \A s \in T : /\ [s EXCEPT !.stayAd = M!NoEntry] \in T
                     /\ [s EXCEPT !.stayAd = M!NoEntry].stayAd = M!NoEntry
                     /\ [s EXCEPT !.stayAd = M!NoEntry].message = s.message
    OBVIOUS
  <2> HIDE DEF T
  <2>2. sent' = [sent EXCEPT ![u] = [sent[u] EXCEPT !.stayAd = M!NoEntry]]
    BY <1>3 DEF M!Part
  <2>3. /\ sent' \in [User -> T] /\ sent'[u].stayAd = M!NoEntry
        /\ sent'[u].message = sent[u].message
        /\ \A v \in User \ {u} : sent'[v] = sent[v]
    BY <1>1, <2>1, <2>2
  <2>4. /\ heard' = M!None /\ members' = members \ {u}
        /\ timerMap' = [timerMap EXCEPT ![u] = M!NoEntry]
        /\ UNCHANGED <<users, chatMode, timers, throttled, hellban, bits, now, silenced,
                       slipped>>
    BY <1>3 DEF M!Part, M!Parted
  <2>5. M!TypeOK' /\ now' \in 0 .. LastTime
    BY <1>1, <2>3, <2>4 DEF MessagesInv, M!MessagesOK, M!TypeOK, T, M!None
  <2>6. TimersCoverSent'
    BY <2>3, <2>4 DEF TimersCoverSent, MessagesInv, M!MessagesOK, M!TypeOK
  <2>7. SilencedAreMarked'
    BY <2>4 DEF SilencedAreMarked, MessagesInv
  <2> QED BY <2>4, <2>5, <2>6, <2>7, NothingHeard DEF MessagesInv, M!MessagesOK
<1>4. CASE M!Disconnect(u)
  <2>1. /\ M!Nothing \in T /\ M!Nothing.message = M!NoEntry /\ M!Nothing.stayAd = M!NoEntry
    BY DEF M!Nothing
  <2> HIDE DEF T
  <2>2. /\ heard' = M!None /\ users' = users \ {u} /\ members' = members \ {u}
        /\ sent' = [sent EXCEPT ![u] = M!Nothing]
        /\ timers' = [timers EXCEPT ![u] = M!Never]
        /\ timerMap' = [timerMap EXCEPT ![u] = M!NoEntry] \/ timerMap' = timerMap
        /\ throttled' = throttled \ {u} /\ hellban' = hellban \ {u}
        /\ slipped' = slipped \ {u} /\ UNCHANGED <<chatMode, bits, now, silenced>>
    BY <1>4 DEF M!Disconnect, M!Parted
  <2>3. /\ sent' \in [User -> T] /\ sent'[u] = M!Nothing
        /\ \A v \in User \ {u} : sent'[v] = sent[v]
    BY <1>1, <2>1, <2>2
  <2>4. M!TypeOK' /\ now' \in 0 .. LastTime
    BY <1>1, <2>2, <2>3 DEF MessagesInv, M!MessagesOK, M!TypeOK, T, M!None
  <2>5. TimersCoverSent'
    BY <2>1, <2>2, <2>3 DEF TimersCoverSent, MessagesInv, M!MessagesOK, M!TypeOK
  <2>6. SilencedAreMarked'
    BY <2>2 DEF SilencedAreMarked, MessagesInv
  <2> QED BY <2>2, <2>4, <2>5, <2>6, NothingHeard DEF MessagesInv, M!MessagesOK
<1> QED BY <1>2, <1>3, <1>4

\* The rest: the mode, the clock, and the site's hellban, which marks all that
\* the account has and makes the answers that are under way outdated.
LEMMA RoomKeeps ==
    ASSUME M!MessagesAssumption, MessagesInv,
           M!Tick \/ (\E mode \in M!Mode : M!RMO(mode))
               \/ (\E a \in Account : M!HLB(a))
    PROVE  MessagesInv'
<1> USE DEF M!MessagesAssumption
<1>1. CASE M!Tick \/ \E mode \in M!Mode : M!RMO(mode)
  <2> USE DEF M!Tick, M!RMO
  <2>1. M!TypeOK' /\ now' \in 0 .. LastTime
    BY <1>1 DEF MessagesInv, M!MessagesOK, M!TypeOK, M!None
  <2>2. TimersCoverSent' /\ SilencedAreMarked' /\ heard' = M!None
    BY <1>1 DEF TimersCoverSent, SilencedAreMarked, MessagesInv
  <2> QED BY <2>1, <2>2, NothingHeard DEF MessagesInv, M!MessagesOK
<1>2. ASSUME NEW a \in Account, M!HLB(a) PROVE MessagesInv'
  <2>1. /\ bits' \in [User -> {"none", "hellban", "clear", "outdated"}]
        /\ \A u \in User : bits'[u] = "clear" => bits[u] = "clear" /\ AccountOf[u] # a
    BY <1>2 DEF M!HLB, MessagesInv, M!MessagesOK, M!TypeOK
  <2>2. /\ silenced' = silenced \cup {a} /\ heard' = M!None
        /\ hellban' = hellban \cup {u \in users : AccountOf[u] = a}
        /\ slipped' = {u \in slipped : AccountOf[u] # a}
        /\ UNCHANGED <<users, members, chatMode, timers, throttled, timerMap, now, sent>>
    BY <1>2 DEF M!HLB
  <2>3. M!TypeOK' /\ now' \in 0 .. LastTime
    BY <2>1, <2>2 DEF MessagesInv, M!MessagesOK, M!TypeOK, M!None
  <2>4. TimersCoverSent'
    BY <2>2 DEF TimersCoverSent, MessagesInv
  <2>5. SilencedAreMarked'
    BY <2>1, <2>2 DEF SilencedAreMarked, MessagesInv
  <2> QED BY <2>2, <2>3, <2>4, <2>5, NothingHeard DEF MessagesInv, M!MessagesOK
<1> QED BY <1>1, <1>2

LEMMA MessagesFrame == ASSUME MessagesInv, UNCHANGED M!vars PROVE MessagesInv'
BY DEF M!vars, MessagesInv, M!MessagesOK, M!TypeOK, TimersCoverSent, SilencedAreMarked,
       M!MessagesAreSpaced, M!AdsOfAStayAreSpaced, M!SilencedAreUnheard, M!Heard, M!Later,
       M!None, M!Mode, M!Kind

\* For any users, accounts and intervals: the messages of a connection are
\* MSG_FLOOD apart and the ads of a stay LRP_FLOOD, of whatever kinds they are,
\* and no message, ad or roll of a character of an account that the site has
\* silenced is heard (MSG, LRP, PRI and RLL, and the throttles they share), but
\* for one whose login the site had answered before.  A status (STA) is heard.
THEOREM MessagesCorrect ==
    ASSUME M!MessagesAssumption PROVE M!Spec => []MessagesOK
<1>1. M!Init => MessagesInv
  BY MessagesInitially
<1>2. MessagesInv /\ [M!Next]_M!vars => MessagesInv'
  <2> SUFFICES ASSUME MessagesInv, [M!Next]_M!vars PROVE MessagesInv'
    OBVIOUS
  <2>1. ASSUME NEW u \in User,
               \/ M!Answer(u) \/ M!Login(u) \/ M!LoginFails(u) \/ M!Join(u)
               \/ M!Part(u) \/ M!Disconnect(u)
        PROVE  MessagesInv'
    BY <2>1, SessionsKeep
  <2>2. ASSUME NEW u \in User,
               \/ M!RollInChannel(u)
               \/ \E text \in M!Text : M!MSG(u, text) \/ M!LRP(u, text) \/ M!STA(u, text)
               \/ \E to \in User : \/ M!RollFor(u, to)
                                   \/ \E text \in M!Text : M!PRI(u, to, text)
        PROVE  MessagesInv'
    BY <2>2, CommandsKeep, StatusKeeps DEF M!Text
  <2> QED
    BY <2>1, <2>2, RoomKeeps, MessagesFrame DEF M!Next
<1>3. MessagesInv => M!MessagesOK
  BY DEF MessagesInv
<1> QED BY <1>1, <1>2, <1>3, PTL DEF M!Spec, MessagesOK

-----------------------------------------------------------------------------
(* RoomLists *)

ListsType ==
    /\ clock \in 0 .. ListTime
    /\ cache \in [L!List -> [time : Int, rooms : SUBSET Room]]
    /\ until \in [Room -> [L!Type -> Int]]

\* A list was made CACHE seconds before its end, of the rooms there were then.
\* A room that was not one of them became one since, and one that is none any
\* longer ceased to be one since.
MadeOf(list) ==
    LET made == cache[list].time - CACHE IN
    /\ made <= clock
    /\ \A r \in cache[list].rooms :
         type[r] = L!Wanted[list] \/ until[r][L!Wanted[list]] >= made
    /\ \A r \in Room :
         type[r] = L!Wanted[list] /\ since[r] < made => r \in cache[list].rooms

ListsInv == L!ListsOK /\ ListsType /\ \A list \in L!List : MadeOf(list)

LEMMA WantedTypes ==
    ASSUME NEW list \in L!List
    PROVE  L!Wanted[list] \in L!Type /\ L!Wanted[list] # "none"
BY DEF L!List, L!Wanted, L!Type

LEMMA ListsInitially == ASSUME L!ListsAssumption, L!Init PROVE ListsInv
<1> USE DEF L!Init, L!ListsAssumption, L!Never
<1>1. L!TypeOK /\ ListsType
  BY DEF L!TypeOK, ListsType
<1>2. ASSUME NEW list \in L!List PROVE MadeOf(list)
  BY <1>2 DEF MadeOf
<1> QED
  BY <1>1, <1>2 DEF ListsInv, L!ListsOK, L!ListedNotLong, L!OpenRoomsAreListed, L!Answered

LEMMA NothingSent ==
    ASSUME answer' = L!None PROVE L!ListedNotLong' /\ L!OpenRoomsAreListed'
BY DEF L!ListedNotLong, L!OpenRoomsAreListed, L!Answered

\* A room that changes its type does so after every list was made.
LEMMA SetTypeKeeps ==
    ASSUME L!ListsAssumption, ListsInv, NEW r \in Room, NEW t \in {"none"} \cup L!Type,
           type[r] # t, L!SetType(r, t)
    PROVE  ListsInv'
<1> USE DEF L!ListsAssumption
<1>1. /\ type' = [type EXCEPT ![r] = t] /\ since' = [since EXCEPT ![r] = clock]
      /\ UNCHANGED <<cache, listTimers, clock>> /\ answer' = L!None
      /\ type \in [Room -> {"none"} \cup L!Type]
      /\ since \in [Room -> {L!Never} \cup 0 .. ListTime]
      /\ clock \in 0 .. ListTime
  BY DEF L!SetType, ListsInv, L!ListsOK, L!TypeOK, ListsType
<1>2. /\ until' \in [Room -> [L!Type -> Int]]
      /\ \A s \in Room : s # r => until'[s] = until[s]
      /\ type[r] # "none" => until'[r][type[r]] = clock
      /\ \A u \in L!Type : u # type[r] => until'[r][u] = until[r][u]
  <2>1. until \in [Room -> [L!Type -> Int]]
    BY DEF ListsInv, ListsType
  <2>2. CASE type[r] = "none"
    <3>1. until' = [until EXCEPT ![r] = @]
      BY <2>2 DEF L!SetType
    <3> QED BY <2>1, <2>2, <3>1
  <2>3. CASE type[r] # "none"
    <3>1. until' = [until EXCEPT ![r] = [@ EXCEPT ![type[r]] = clock]]
      BY <2>3 DEF L!SetType
    <3>2. type[r] \in L!Type
      BY <1>1, <2>3
    <3> QED BY <1>1, <2>1, <2>3, <3>1, <3>2
  <2> QED BY <2>2, <2>3
<1>3. L!TypeOK' /\ ListsType'
  BY <1>1, <1>2 DEF ListsInv, L!ListsOK, L!TypeOK, ListsType, L!Never
<1>4. ASSUME NEW list \in L!List PROVE MadeOf(list)'
  <2> DEFINE w == L!Wanted[list]
             made == cache[list].time - CACHE
  <2>1. /\ made \in Int /\ made <= clock /\ cache[list].rooms \subseteq Room
        /\ \A s \in cache[list].rooms : type[s] = w \/ until[s][w] >= made
        /\ \A s \in Room : type[s] = w /\ since[s] < made => s \in cache[list].rooms
    BY <1>4 DEF ListsInv, ListsType, MadeOf
  <2>2. w \in L!Type /\ w # "none"
    BY WantedTypes
  <2>3. /\ type'[r] = t /\ since'[r] = clock
        /\ \A s \in Room \ {r} : type'[s] = type[s] /\ since'[s] = since[s]
    BY <1>1
  <2> HIDE DEF w, made
  <2>4. ASSUME NEW s \in cache[list].rooms PROVE type'[s] = w \/ until'[s][w] >= made
    <3>1. CASE s # r
      BY <1>2, <2>1, <2>2, <2>3, <3>1
    <3>2. CASE s = r /\ type[r] = w
      BY <1>1, <1>2, <2>1, <2>2, <2>3, <3>2
    <3>3. CASE s = r /\ type[r] # w
      BY <1>2, <2>1, <2>2, <2>3, <3>3
    <3> QED BY <3>1, <3>2, <3>3
  <2>5. ASSUME NEW s \in Room, type'[s] = w, since'[s] < made
        PROVE  s \in cache[list].rooms
    <3>1. s # r
      BY <1>1, <2>1, <2>3, <2>5
    <3> QED BY <2>1, <2>3, <2>5, <3>1
  <2> QED BY <1>1, <2>1, <2>4, <2>5 DEF MadeOf, w, made
<1> QED BY <1>1, <1>3, <1>4, NothingSent DEF ListsInv, L!ListsOK

\* A list is made of the rooms there are now, or one is sent that is not older
\* than CACHE seconds.
LEMMA AskKeeps ==
    ASSUME L!ListsAssumption, ListsInv, NEW u \in Reader, NEW list \in L!List, L!Ask(u, list)
    PROVE  ListsInv'
<1> USE DEF L!ListsAssumption, L!CacheName
<1>1. /\ UNCHANGED <<type, clock, since, until>>
      /\ type \in [Room -> {"none"} \cup L!Type]
      /\ since \in [Room -> {L!Never} \cup 0 .. ListTime]
      /\ clock \in 0 .. ListTime
      /\ cache \in [L!List -> [time : Int, rooms : SUBSET Room]]
      /\ \A l \in L!List : MadeOf(l)
  BY DEF L!Ask, ListsInv, L!ListsOK, L!TypeOK, ListsType
<1>2. listTimers' \in [Reader -> [L!List -> {L!Never} \cup 0 .. ListTime]]
  <2> DEFINE T == [L!List -> {L!Never} \cup 0 .. ListTime]
  <2>1. listTimers \in [Reader -> T]
    BY DEF ListsInv, L!ListsOK, L!TypeOK
  <2>2. [listTimers[u] EXCEPT ![list] = clock] \in T
    BY <1>1, <2>1
  <2>3. listTimers' = [listTimers EXCEPT ![u] = [listTimers[u] EXCEPT ![list] = clock]]
    BY DEF L!Ask
  <2> HIDE DEF T
  <2>4. listTimers' \in [Reader -> T]
    BY <2>1, <2>2, <2>3
  <2> QED BY <2>4 DEF T
<1>3. CASE L!Fresh(list)
  <2>1. /\ cache' = cache /\ answer'.list = list
        /\ answer'.rooms = cache[list].rooms
    BY <1>3 DEF L!Ask
  <2>2. cache[list].time > clock
    BY <1>3 DEF L!Fresh
  <2>3. L!TypeOK' /\ ListsType'
    BY <1>1, <1>2, <2>1 DEF ListsInv, L!ListsOK, L!TypeOK, ListsType, L!Never
  <2>4. \A l \in L!List : MadeOf(l)'
    BY <1>1, <2>1 DEF MadeOf
  <2>5. L!ListedNotLong'
    <3>1. \A r \in cache[list].rooms :
             \/ type[r] = L!Wanted[list]
             \/ until[r][L!Wanted[list]] > clock - CACHE
      <4>1. \A r \in cache[list].rooms : until[r][L!Wanted[list]] \in Int
        BY <1>1, WantedTypes DEF ListsInv, ListsType
      <4> QED BY <1>1, <2>2, <4>1 DEF MadeOf
    <3> QED BY <1>1, <2>1, <3>1 DEF L!ListedNotLong
  <2>6. L!OpenRoomsAreListed'
    <3>1. \A r \in Room : since[r] \in Int
      BY <1>1 DEF L!Never
    <3>2. \A r \in Room : type[r] = L!Wanted[list] /\ since[r] <= clock - CACHE
                            => r \in cache[list].rooms
      BY <1>1, <2>2, <3>1 DEF MadeOf
    <3> QED BY <1>1, <2>1, <3>2 DEF L!OpenRoomsAreListed
  <2> QED BY <2>3, <2>4, <2>5, <2>6 DEF ListsInv, L!ListsOK
<1>4. CASE ~L!Fresh(list)
  <2> DEFINE c == [time |-> clock + CACHE, rooms |-> L!Rooms(list)]
  <2>1. /\ cache' = [cache EXCEPT ![list] = c]
        /\ answer'.list = list /\ answer'.rooms = L!Rooms(list)
    BY <1>4 DEF L!Ask
  <2>2. /\ c \in [time : Int, rooms : SUBSET Room]
        /\ c.time = clock + CACHE /\ c.rooms = L!Rooms(list)
    BY <1>1 DEF L!Rooms
  <2> HIDE DEF c
  <2>3. /\ cache' \in [L!List -> [time : Int, rooms : SUBSET Room]]
        /\ cache'[list] = c /\ \A l \in L!List \ {list} : cache'[l] = cache[l]
    BY <1>1, <2>1, <2>2
  <2>4. L!TypeOK' /\ ListsType'
    BY <1>1, <1>2, <2>2, <2>3
    DEF ListsInv, L!ListsOK, L!TypeOK, ListsType, L!Never, L!Rooms
  <2>5. ASSUME NEW l \in L!List PROVE MadeOf(l)'
    <3>1. CASE l = list
      <4>1. cache'[l].time - CACHE = clock
        BY <1>1, <2>2, <2>3, <3>1
      <4> QED BY <1>1, <2>2, <2>3, <3>1, <4>1 DEF MadeOf, L!Rooms
    <3>2. CASE l # list
      BY <1>1, <2>3, <3>2 DEF MadeOf
    <3> QED BY <3>1, <3>2
  <2>6. L!ListedNotLong' /\ L!OpenRoomsAreListed'
    BY <1>1, <2>1 DEF L!ListedNotLong, L!OpenRoomsAreListed, L!Rooms
  <2> QED BY <2>4, <2>5, <2>6 DEF ListsInv, L!ListsOK
<1> QED BY <1>3, <1>4

LEMMA ListsTick == ASSUME L!ListsAssumption, ListsInv, L!Tick PROVE ListsInv'
<1> USE DEF L!ListsAssumption, L!Tick
<1>1. L!TypeOK' /\ ListsType'
  BY DEF ListsInv, L!ListsOK, L!TypeOK, ListsType, L!Never
<1>2. ASSUME NEW list \in L!List PROVE MadeOf(list)'
  <2>1. cache[list].time \in Int /\ clock \in Int /\ MadeOf(list)
    BY <1>2 DEF ListsInv, ListsType
  <2> QED BY <2>1 DEF MadeOf
<1> QED BY <1>1, <1>2, NothingSent DEF ListsInv, L!ListsOK

LEMMA ListsFrame == ASSUME ListsInv, UNCHANGED L!vars PROVE ListsInv'
BY DEF L!vars, ListsInv, L!ListsOK, L!TypeOK, ListsType, MadeOf, L!ListedNotLong,
       L!OpenRoomsAreListed, L!Answered, L!None

\* For any rooms and intervals: a list shows no room that has not been of its
\* kind within the last CACHE seconds, and every room that has been of it that
\* long (sendCHA and sendORS of the Lua scripts, and their static cache).
THEOREM ListsCorrect == ASSUME L!ListsAssumption PROVE L!Spec => []ListsOK
<1>1. L!Init => ListsInv
  BY ListsInitially
<1>2. ListsInv /\ [L!Next]_L!vars => ListsInv'
  <2> SUFFICES ASSUME ListsInv, [L!Next]_L!vars PROVE ListsInv'
    OBVIOUS
  <2>1. ASSUME NEW r \in Room,
               \/ L!CreateChannel(r) \/ L!CreatePrivateChannel(r) \/ L!DestroyChannel(r)
               \/ \E bepublic \in BOOLEAN : L!SetPublic(r, bepublic)
        PROVE  ListsInv'
    BY <2>1, SetTypeKeeps
    DEF L!CreateChannel, L!CreatePrivateChannel, L!DestroyChannel, L!SetPublic, L!Type
  <2> QED
    BY <2>1, AskKeeps, ListsTick, ListsFrame DEF L!Next
<1>3. ListsInv => L!ListsOK
  BY DEF ListsInv
<1> QED BY <1>1, <1>2, <1>3, PTL DEF L!Spec, ListsOK
=============================================================================
