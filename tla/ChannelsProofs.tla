--------------------------- MODULE ChannelsProofs ---------------------------
(***************************************************************************)
(* Proofs about Channels: type correctness, the agreement of the two       *)
(* copies of who is in which channel, the participant counts, that members *)
(* are online, and the list of channel operators; and what no step does to *)
(* a channel: outlive its users, leave a banned user in, let someone in    *)
(* without the right, ban an operator.  For any users, channels and roles. *)
(***************************************************************************)
EXTENDS Channels, FiniteSetTheorems, TLAPS

-----------------------------------------------------------------------------
(* The inductive invariant, in parts that speak of given values of the     *)
(* variables: what is right with one channel object, and how the channels  *)
(* C, the channel lists L and the users' presence P fit together.          *)

ChannelOK(k) ==
    /\ k \in Channel
    /\ k.participantCount = Cardinality(k.participants)
    /\ k.type = "absent" => k.participants = {}

EveryChannelOK(C) == C \in [Chan -> Channel] /\ \A ch \in Chan : ChannelOK(C[ch])
Sync(C, L) ==
    /\ L \in [User -> SUBSET Chan]
    /\ \A u \in User, ch \in Chan : u \in C[ch].participants <=> ch \in L[u]
Presence == {"online", "closed", "offline"}
MembersOK(C, P) ==
    /\ P \in [User -> Presence]
    /\ \A ch \in Chan : \A u \in C[ch].participants : P[u] = "online"
OpsOK(C, ops, cops) ==
    ops \subseteq User /\ cops \subseteq User /\ ops = ChannelOps(C)

IndInv ==
    /\ EveryChannelOK(chan)
    /\ Sync(chan, channelList)
    /\ MembersOK(chan, presence)
    /\ OpsOK(chan, channelOpList, cop)

-----------------------------------------------------------------------------
(* What the operations on one channel object do. *)

LEMMA ParticipantsFinite ==
    ASSUME NEW k \in Channel
    PROVE  IsFiniteSet(k.participants)
BY UserAssumption, FS_Subset DEF Channel

\* A channel object keeps what makes ChannelOps of it.
SameOps(k, r) ==
    /\ r.type = "public" <=> k.type = "public"
    /\ k.type = "public" => r.moderators = k.moderators

LEMMA NewChannelFacts ==
    ASSUME NEW type \in {"public", "private", "pubprivate", "absent"}
    PROVE  LET r == NewChannel(type) IN
           /\ ChannelOK(r)
           /\ r.type = type /\ r.participants = {} /\ r.moderators = {}
BY FS_EmptySet DEF NewChannel, ChannelOK, Channel, Ban

LEMMA NoChannelFacts ==
    /\ ChannelOK(NoChannel)
    /\ NoChannel.type = "absent" /\ NoChannel.participants = {}
    /\ NoChannel.moderators = {}
BY NewChannelFacts DEF NoChannel

LEMMA PrivateChannelFacts ==
    ASSUME NEW u \in User
    PROVE  LET r == PrivateChannel(u) IN
           ChannelOK(r) /\ r.type = "private" /\ r.participants = {}
<1> DEFINE n == NewChannel("private")
<1>1. ChannelOK(n) /\ n.type = "private" /\ n.participants = {}
  BY NewChannelFacts
<1> HIDE DEF n
<1>2. PrivateChannel(u) = [n EXCEPT !.invites = {u}, !.owner = u]
  BY DEF PrivateChannel, n
<1> DEFINE r == PrivateChannel(u)
<1> HIDE DEF r
<1>3. r \in Channel
  <2>1. n \in Channel /\ {u} \in SUBSET User /\ u \in User \cup {NoUser}
    BY <1>1 DEF ChannelOK
  <2> QED
    BY <1>2, <2>1 DEF r, Channel
<1>4. /\ r.participants = n.participants /\ r.type = n.type
      /\ r.participantCount = n.participantCount
  BY <1>1, <1>2 DEF r, ChannelOK, Channel
<1> QED
  BY <1>1, <1>3, <1>4 DEF r, ChannelOK

LEMMA SpecialPrivateChannelFacts ==
    LET r == SpecialPrivateChannel IN
    ChannelOK(r) /\ r.type = "private" /\ r.participants = {}
<1> DEFINE n == NewChannel("private")
<1>1. ChannelOK(n) /\ n.type = "private" /\ n.participants = {}
  BY NewChannelFacts
<1> HIDE DEF n
<1>2. SpecialPrivateChannel = [n EXCEPT !.canDestroy = FALSE]
  BY DEF SpecialPrivateChannel, n
<1> QED
  BY <1>1, <1>2 DEF ChannelOK, Channel

LEMMA JoinFacts ==
    ASSUME NEW k, ChannelOK(k), k.type # "absent",
           NEW u \in User, u \notin k.participants
    PROVE  LET r == Join(k, u) IN
           /\ ChannelOK(r)
           /\ r.participants = k.participants \cup {u}
           /\ SameOps(k, r)
<1>1. IsFiniteSet(k.participants)
  BY ParticipantsFinite DEF ChannelOK
<1>2. Cardinality(k.participants \cup {u}) = Cardinality(k.participants) + 1
  BY <1>1, FS_AddElement
<1>3. Cardinality(k.participants) \in Nat
  BY <1>1, FS_CardinalityType
<1> DEFINE r == Join(k, u)
           count == k.participantCount + 1
           top == IF count > k.topUsers THEN count ELSE k.topUsers
<1>4. count \in Int /\ top \in Nat /\ k.participants \cup {u} \in SUBSET User
  BY <1>3 DEF ChannelOK, Channel
<1>5. r = [k EXCEPT !.participantCount = count,
                    !.participants = k.participants \cup {u}, !.topUsers = top]
  BY DEF Join
<1> HIDE DEF r, count, top
<1>6. r \in Channel
  BY <1>4, <1>5 DEF ChannelOK, Channel
<1>7. /\ r.participantCount = count
      /\ r.participants = k.participants \cup {u}
      /\ r.type = k.type /\ r.moderators = k.moderators
  BY <1>5 DEF ChannelOK, Channel
<1>8. count = Cardinality(k.participants) + 1
  BY DEF count, ChannelOK
<1> QED
  BY <1>2, <1>6, <1>7, <1>8 DEF r, ChannelOK, SameOps

LEMMA PartFacts ==
    ASSUME NEW k, ChannelOK(k), NEW u \in k.participants
    PROVE  LET r == Part(k, u) IN
           /\ ChannelOK(r)
           /\ r.participants = k.participants \ {u}
           /\ r.participantCount <= 0 => r.participants = {}
           /\ r.type = k.type
           /\ SameOps(k, r)
<1>1. IsFiniteSet(k.participants)
  BY ParticipantsFinite DEF ChannelOK
<1>2. /\ IsFiniteSet(k.participants \ {u})
      /\ Cardinality(k.participants \ {u}) = Cardinality(k.participants) - 1
  BY <1>1, FS_RemoveElement
<1>3. /\ Cardinality(k.participants) \in Nat
      /\ Cardinality(k.participants \ {u}) \in Nat
      /\ Cardinality(k.participants \ {u}) = 0 => k.participants \ {u} = {}
  BY <1>1, <1>2, FS_CardinalityType, FS_EmptySet
<1> DEFINE r == Part(k, u)
<1>4. r = [k EXCEPT !.participantCount = k.participantCount - 1,
                    !.participants = k.participants \ {u}]
  BY DEF Part
<1> HIDE DEF r
<1>5. k.participantCount - 1 \in Int /\ k.participants \ {u} \in SUBSET User
  BY DEF ChannelOK, Channel
<1>6. r \in Channel
  BY <1>4, <1>5 DEF ChannelOK, Channel
<1>7. /\ r.participantCount = k.participantCount - 1
      /\ r.participants = k.participants \ {u}
      /\ r.type = k.type /\ r.moderators = k.moderators
  BY <1>4 DEF ChannelOK, Channel
<1>8. r.participantCount = Cardinality(r.participants)
  BY <1>2, <1>7 DEF ChannelOK
<1>9. r.participantCount <= 0 => r.participants = {}
  BY <1>3, <1>7, <1>8
<1> QED
  <2>1. ChannelOK(r)
    BY <1>2, <1>7, <1>8, <1>6 DEF ChannelOK
  <2>2. SameOps(k, r)
    BY <1>7 DEF SameOps
  <2> QED
    BY <1>7, <1>9, <2>1, <2>2 DEF r

LEMMA RemainsFacts ==
    ASSUME NEW k, ChannelOK(k), NEW u \in k.participants
    PROVE  LET r == Remains(k, u) IN
           /\ ChannelOK(r)
           /\ r.participants = k.participants \ {u}
           /\ Abandoned(Part(k, u)) => k.participants = {u}
           /\ SameOps(k, r)
<1> DEFINE p == Part(k, u)
<1>1. /\ ChannelOK(p) /\ p.participants = k.participants \ {u}
      /\ p.participantCount <= 0 => p.participants = {}
      /\ p.type = k.type /\ SameOps(k, p)
  BY PartFacts
<1>2. Abandoned(p) => p.participants = {} /\ k.type # "public"
  <2> HIDE DEF p
  <2> QED BY <1>1 DEF Abandoned
<1> QED
  <2> HIDE DEF p
  <2>1. Remains(k, u) = IF Abandoned(p) THEN NoChannel ELSE p
    BY DEF Remains, p
  <2> QED
    BY <1>1, <1>2, <2>1, NoChannelFacts DEF SameOps, p

\* An update of a channel object that moves nobody.
Quiet(k, r) == ChannelOK(r) /\ r.participants = k.participants /\ SameOps(k, r)

LEMMA UninviteFacts ==
    ASSUME NEW k, ChannelOK(k), NEW u
    PROVE  Quiet(k, Uninvite(k, u)) /\ Uninvite(k, u).type = k.type
BY DEF Uninvite, Quiet, ChannelOK, Channel, SameOps

LEMMA QuietFacts ==
    ASSUME NEW k, ChannelOK(k), NEW u \in User, NEW b \in Ban
    PROVE  /\ Quiet(k, k)
           /\ Quiet(k, [k EXCEPT !.bans[u] = b])
           /\ Quiet(k, [k EXCEPT !.owner = u])
           /\ k.type = "private" => Quiet(k, [k EXCEPT !.invites = @ \cup {u}])
           /\ Quiet(k, [k EXCEPT !.participantCount =
                                    Cardinality(k.participants)])
           /\ [k EXCEPT !.bans[u] = b].type = k.type
<1>1. Quiet(k, k)
  BY DEF Quiet, SameOps
<1>2. Quiet(k, [k EXCEPT !.bans[u] = b]) /\ [k EXCEPT !.bans[u] = b].type = k.type
  BY DEF Quiet, SameOps, ChannelOK, Channel
<1>3. Quiet(k, [k EXCEPT !.owner = u])
  BY DEF Quiet, SameOps, ChannelOK, Channel
<1>4. Quiet(k, [k EXCEPT !.invites = @ \cup {u}])
  BY DEF Quiet, SameOps, ChannelOK, Channel
<1>5. Quiet(k, [k EXCEPT !.participantCount = Cardinality(k.participants)])
  BY DEF Quiet, SameOps, ChannelOK, Channel
<1> QED
  BY <1>1, <1>2, <1>3, <1>4, <1>5

-----------------------------------------------------------------------------
(* Steps of the whole state. *)

Others(u) == \A v \in User \ {u} : presence'[v] = presence[v]

LEMMA OpsKept ==
    ASSUME NEW C, NEW D, \A ch \in Chan : SameOps(C[ch], D[ch])
    PROVE  ChannelOps(D) = ChannelOps(C)
BY DEF ChannelOps, SameOps

LEMMA OpsTyped ==
    ASSUME NEW C, EveryChannelOK(C)
    PROVE  ChannelOps(C) \subseteq User
BY DEF EveryChannelOK, ChannelOK, Channel, ChannelOps

\* Channel objects change, and nobody moves.
LEMMA QuietStep ==
    ASSUME IndInv, chan' = [ch \in Chan |-> chan'[ch]],
           \A ch \in Chan : Quiet(chan[ch], chan'[ch]),
           UNCHANGED <<channelList, presence, cop, channelOpList>>
    PROVE  IndInv'
<1>1. EveryChannelOK(chan')
  BY DEF Quiet, EveryChannelOK, ChannelOK
<1>2. Sync(chan', channelList)
  BY DEF IndInv, Quiet, Sync
<1>3. MembersOK(chan', presence)
  BY DEF IndInv, Quiet, MembersOK
<1>4. ChannelOps(chan') = ChannelOps(chan)
  BY OpsKept DEF Quiet
<1> QED
  BY <1>1, <1>2, <1>3, <1>4 DEF IndInv, OpsOK

LEMMA QuietUpdate ==
    ASSUME IndInv, NEW ch \in Chan, NEW r, Quiet(chan[ch], r),
           chan' = [chan EXCEPT ![ch] = r],
           UNCHANGED <<channelList, presence, cop, channelOpList>>
    PROVE  IndInv'
<1>1. chan' = [x \in Chan |-> chan'[x]]
  BY DEF IndInv, EveryChannelOK
<1>2. \A x \in Chan : Quiet(chan[x], chan'[x])
  BY DEF IndInv, EveryChannelOK, Quiet, SameOps
<1> QED
  BY <1>1, <1>2, QuietStep

\* u enters a channel, which may be new or have been changed on the way.
LEMMA EnterStep ==
    ASSUME IndInv, NEW ch \in Chan, NEW u \in User, NEW k,
           ChannelOK(k), k.type # "absent", SameOps(chan[ch], k),
           k.participants = chan[ch].participants, u \notin k.participants,
           JoinChannel(ch, k, u),
           presence' \in [User -> Presence], presence'[u] = "online", Others(u)
    PROVE  /\ EveryChannelOK(chan') /\ Sync(chan', channelList')
           /\ MembersOK(chan', presence')
           /\ ChannelOps(chan') = ChannelOps(chan)
<1> DEFINE r == Join(k, u)
<1>1. /\ ChannelOK(r) /\ r.participants = chan[ch].participants \cup {u}
      /\ SameOps(k, r)
  BY JoinFacts
<1>2. /\ chan' = [chan EXCEPT ![ch] = r]
      /\ channelList' = [channelList EXCEPT ![u] = @ \cup {ch}]
  BY DEF JoinChannel
<1> HIDE DEF r
<1>3. EveryChannelOK(chan')
  BY <1>1, <1>2 DEF IndInv, EveryChannelOK, ChannelOK
<1>4. Sync(chan', channelList')
  BY <1>1, <1>2 DEF IndInv, EveryChannelOK, Sync
<1>5. MembersOK(chan', presence')
  <2> SUFFICES ASSUME NEW x \in Chan, NEW v \in chan'[x].participants
               PROVE  presence'[v] = "online"
    BY DEF MembersOK
  <2>1. v \in User
    BY <1>3 DEF EveryChannelOK, ChannelOK, Channel
  <2>2. v = u \/ v \in chan[x].participants
    BY <1>1, <1>2 DEF IndInv, EveryChannelOK
  <2> QED
    BY <2>1, <2>2 DEF IndInv, MembersOK, Others
<1>6. \A x \in Chan : SameOps(chan[x], chan'[x])
  BY <1>1, <1>2 DEF IndInv, EveryChannelOK, SameOps
<1> QED
  BY <1>3, <1>4, <1>5, <1>6, OpsKept

\* u leaves a channel that may have been changed on the way.
LEMMA LeaveStep ==
    ASSUME IndInv, NEW ch \in Chan, NEW u \in User, NEW k,
           Quiet(chan[ch], k), u \in k.participants,
           PartChannel(ch, k, u),
           UNCHANGED <<presence, cop, channelOpList>>
    PROVE  IndInv'
<1> DEFINE r == Remains(k, u)
           gone == IF Abandoned(Part(k, u)) THEN {ch} ELSE {}
<1>1. /\ ChannelOK(r) /\ r.participants = chan[ch].participants \ {u}
      /\ SameOps(k, r)
  BY RemainsFacts DEF Quiet
<1>2. gone = {} \/ (gone = {ch} /\ chan[ch].participants = {u})
  BY RemainsFacts DEF Quiet
<1>3. chan' = [chan EXCEPT ![ch] = r] /\ channelList' = ListsAfter({ch}, gone, u)
  BY DEF PartChannel
<1> HIDE DEF r, gone
<1>4. EveryChannelOK(chan')
  BY <1>1, <1>3 DEF IndInv, EveryChannelOK, ChannelOK
<1>5. channelList' = [v \in User |-> IF v = u THEN channelList[v] \ {ch}
                                     ELSE channelList[v]]
  <2> SUFFICES ASSUME NEW v \in User
               PROVE  channelList[v] \ ((IF v = u THEN {ch} ELSE {})
                          \cup {x \in gone : v \in chan[x].participants})
                      = IF v = u THEN channelList[v] \ {ch} ELSE channelList[v]
    BY <1>3 DEF ListsAfter
  <2> QED
    BY <1>2
<1>6. Sync(chan', channelList')
  <2>1. channelList' \in [User -> SUBSET Chan]
    BY <1>5 DEF IndInv, Sync
  <2>2. ASSUME NEW v \in User, NEW x \in Chan
        PROVE  v \in chan'[x].participants <=> x \in channelList'[v]
    <3>1. CASE x = ch
      <4>1. v \in chan'[ch].participants <=> v # u /\ v \in chan[ch].participants
        BY <1>1, <1>3 DEF IndInv, EveryChannelOK
      <4>2. ch \in channelList'[v] <=> v # u /\ ch \in channelList[v]
        BY <1>5
      <4> QED
        BY <3>1, <4>1, <4>2 DEF IndInv, Sync
    <3>2. CASE x # ch
      <4>1. chan'[x] = chan[x]
        BY <1>3, <3>2 DEF IndInv, EveryChannelOK
      <4>2. x \in channelList'[v] <=> x \in channelList[v]
        BY <1>5, <3>2
      <4> QED
        BY <4>1, <4>2 DEF IndInv, Sync
    <3> QED
      BY <3>1, <3>2
  <2> QED
    BY <2>1, <2>2 DEF Sync
<1>7. MembersOK(chan', presence')
  BY <1>1, <1>3 DEF IndInv, EveryChannelOK, MembersOK
<1>8. \A x \in Chan : SameOps(chan[x], chan'[x])
  BY <1>1, <1>3 DEF IndInv, EveryChannelOK, SameOps, Quiet
<1> QED
  BY <1>4, <1>6, <1>7, <1>8, OpsKept DEF IndInv, OpsOK

\* A channel is destroyed, and everyone in it parted.
LEMMA DestroyStep ==
    ASSUME IndInv, NEW ch \in Chan, DestroyChannel(ch),
           UNCHANGED <<presence, cop>>
    PROVE  IndInv'
<1>1. /\ chan' = [chan EXCEPT ![ch] = NoChannel]
      /\ channelList' = [v \in User |-> IF v \in chan[ch].participants
                                         THEN channelList[v] \ {ch}
                                         ELSE channelList[v]]
  BY DEF DestroyChannel
<1>2. EveryChannelOK(chan')
  BY <1>1, NoChannelFacts DEF IndInv, EveryChannelOK, ChannelOK
<1>3. Sync(chan', channelList')
  <2>1. channelList' \in [User -> SUBSET Chan]
    BY <1>1 DEF IndInv, Sync
  <2>2. \A v \in User, x \in Chan :
            v \in chan'[x].participants <=> x \in channelList'[v]
    BY <1>1, NoChannelFacts DEF IndInv, EveryChannelOK, Sync
  <2> QED
    BY <2>1, <2>2 DEF Sync
<1>4. MembersOK(chan', presence')
  BY <1>1, NoChannelFacts DEF IndInv, EveryChannelOK, MembersOK
<1>5. OpsOK(chan', channelOpList', cop')
  <2>1. CASE chan[ch].type = "public"
    BY <1>2, <2>1, OpsTyped DEF DestroyChannel, IndInv, OpsOK
  <2>2. CASE chan[ch].type # "public"
    <3>1. \A x \in Chan : SameOps(chan[x], chan'[x])
      BY <1>1, <2>2, NoChannelFacts DEF IndInv, EveryChannelOK, SameOps
    <3> QED
      BY <2>2, <3>1, OpsKept DEF DestroyChannel, IndInv, OpsOK
  <2> QED
    BY <2>1, <2>2
<1> QED
  BY <1>2, <1>3, <1>4, <1>5 DEF IndInv

\* pre_disconnect takes u out of every channel and leaves the others there.
LEMMA PreDisconnectStep ==
    ASSUME IndInv, NEW u \in User, PreDisconnect(u)
    PROVE  /\ EveryChannelOK(chan') /\ Sync(chan', channelList')
           /\ \A ch \in Chan :
                chan'[ch].participants = chan[ch].participants \ {u}
           /\ ChannelOps(chan') = ChannelOps(chan)
<1> DEFINE left == channelList[u]
           after == [ch \in Chan |-> IF ch \in left THEN Remains(chan[ch], u)
                                     ELSE chan[ch]]
           gone == {ch \in left : Abandoned(Part(chan[ch], u))}
<1>1. /\ chan' = [after EXCEPT ![StaffRoom] = Uninvite(after[StaffRoom], u)]
      /\ channelList' = ListsAfter(left, gone, u)
  BY DEF PreDisconnect
<1>2. left \subseteq Chan /\ \A ch \in Chan : ch \in left <=> u \in chan[ch].participants
  BY DEF IndInv, Sync
<1>3. ASSUME NEW ch \in Chan
      PROVE  /\ ChannelOK(after[ch]) /\ SameOps(chan[ch], after[ch])
             /\ after[ch].participants = chan[ch].participants \ {u}
             /\ ch \in gone => chan[ch].participants = {u}
  <2>1. ChannelOK(chan[ch])
    BY DEF IndInv, EveryChannelOK
  <2>2. CASE ch \in left
    BY <1>2, <2>1, <2>2, RemainsFacts
  <2>3. CASE ch \notin left
    BY <1>2, <2>1, <2>3 DEF SameOps
  <2> QED
    BY <2>2, <2>3
<1>4. \A ch \in Chan : Quiet(after[ch], chan'[ch])
  <2>1. Quiet(after[StaffRoom], Uninvite(after[StaffRoom], u))
    BY <1>3, UninviteFacts, ChanAssumption
  <2>2. \A ch \in Chan : Quiet(after[ch], after[ch])
    BY <1>3 DEF Quiet, SameOps
  <2> HIDE DEF after
  <2> QED
    BY <1>1, <2>1, <2>2 DEF after
<1>5. chan' = [ch \in Chan |-> chan'[ch]]
  BY <1>1
<1> HIDE DEF after, gone
<1>6. EveryChannelOK(chan')
  BY <1>4, <1>5 DEF EveryChannelOK, ChannelOK, Quiet
<1>7. \A ch \in Chan : chan'[ch].participants = chan[ch].participants \ {u}
  BY <1>3, <1>4 DEF Quiet
<1>8. \A ch \in Chan : SameOps(chan[ch], chan'[ch])
  BY <1>3, <1>4 DEF Quiet, SameOps
<1>9. channelList' = [v \in User |-> IF v = u THEN {} ELSE channelList[v]]
  <2> SUFFICES ASSUME NEW v \in User
               PROVE  channelList[v] \ ((IF v = u THEN left ELSE {})
                          \cup {x \in gone : v \in chan[x].participants})
                      = IF v = u THEN {} ELSE channelList[v]
    BY <1>1 DEF ListsAfter
  <2>1. CASE v = u
    BY <2>1
  <2>2. CASE v # u
    <3>1. {x \in gone : v \in chan[x].participants} = {}
      BY <1>2, <1>3, <2>2 DEF gone
    <3> QED
      BY <2>2, <3>1
  <2> QED
    BY <2>1, <2>2
<1>10. Sync(chan', channelList')
  <2>1. channelList' \in [User -> SUBSET Chan]
    BY <1>9 DEF IndInv, Sync
  <2>2. \A v \in User, x \in Chan :
            v \in chan'[x].participants <=> x \in channelList'[v]
    BY <1>7, <1>9 DEF IndInv, Sync
  <2> QED
    BY <2>1, <2>2 DEF Sync
<1> QED
  BY <1>6, <1>7, <1>8, <1>10, OpsKept

\* Channel objects change, and nobody moves; the operators may change.
LEMMA StillStep ==
    ASSUME IndInv, chan' = [ch \in Chan |-> chan'[ch]],
           \A ch \in Chan : /\ ChannelOK(chan'[ch])
                            /\ chan'[ch].participants = chan[ch].participants,
           UNCHANGED <<channelList, presence>>
    PROVE  /\ EveryChannelOK(chan') /\ Sync(chan', channelList')
           /\ MembersOK(chan', presence')
<1>1. EveryChannelOK(chan')
  BY DEF EveryChannelOK, ChannelOK
<1> QED
  BY <1>1 DEF IndInv, Sync, MembersOK

-----------------------------------------------------------------------------
(* The invariant holds at first, and every step keeps it. *)

LEMMA InitInv == Init => IndInv
<1> SUFFICES ASSUME Init PROVE IndInv
  OBVIOUS
<1>1. \A ch \in Chan : /\ ChannelOK(chan[ch])
                       /\ chan[ch].participants = {}
                       /\ chan[ch].type = "public" => chan[ch].moderators = {}
  BY NewChannelFacts, NoChannelFacts, SpecialPrivateChannelFacts DEF Init
<1>2. EveryChannelOK(chan)
  BY <1>1 DEF Init, EveryChannelOK, ChannelOK
<1>3. Sync(chan, channelList) /\ MembersOK(chan, presence)
  BY <1>1 DEF Init, Sync, MembersOK, Presence
<1>4. OpsOK(chan, channelOpList, cop)
  BY <1>1 DEF Init, OpsOK, ChannelOps
<1> QED
  BY <1>2, <1>3, <1>4 DEF IndInv

LEMMA ChanOK == IndInv => \A ch \in Chan : ChannelOK(chan[ch])
BY DEF IndInv, EveryChannelOK

LEMMA JCHInv ==
    ASSUME IndInv, NEW u \in User, NEW ch \in Chan, JCH(u, ch)
    PROVE  IndInv'
<1>1. /\ ChannelOK(chan[ch]) /\ chan[ch].type # "absent"
      /\ SameOps(chan[ch], chan[ch]) /\ u \notin chan[ch].participants
      /\ presence' \in [User -> Presence] /\ presence'[u] = "online"
      /\ Others(u)
  BY ChanOK DEF JCH, Commands, Exists, Online, SameOps, Others, IndInv, MembersOK
<1>2. JoinChannel(ch, chan[ch], u)
  BY DEF JCH
<1>3. /\ EveryChannelOK(chan') /\ Sync(chan', channelList')
      /\ MembersOK(chan', presence') /\ ChannelOps(chan') = ChannelOps(chan)
  BY <1>1, <1>2, EnterStep
<1> QED
  BY <1>3 DEF JCH, IndInv, OpsOK

LEMMA CCRInv ==
    ASSUME IndInv, NEW u \in User, NEW ch \in Chan, CCR(u, ch)
    PROVE  IndInv'
<1> DEFINE k == PrivateChannel(u)
<1>1. ChannelOK(k) /\ k.type = "private" /\ k.participants = {}
  BY PrivateChannelFacts
<1>2. JoinChannel(ch, k, u)
  BY DEF CCR
<1> HIDE DEF k
<1>3. chan[ch].type = "absent" /\ chan[ch].participants = {}
  BY ChanOK DEF CCR, Exists, ChannelOK
<1>4. /\ presence' \in [User -> Presence] /\ presence'[u] = "online"
      /\ Others(u)
  BY DEF CCR, Online, Others, IndInv, MembersOK
<1>5. k.type # "absent" /\ SameOps(chan[ch], k) /\ u \notin k.participants
  BY <1>1, <1>3 DEF SameOps
<1>6. /\ EveryChannelOK(chan') /\ Sync(chan', channelList')
      /\ MembersOK(chan', presence') /\ ChannelOps(chan') = ChannelOps(chan)
  BY <1>1, <1>2, <1>3, <1>4, <1>5, EnterStep
<1> QED
  BY <1>6 DEF CCR, IndInv, OpsOK

LEMMA LoginInv ==
    ASSUME IndInv, NEW u \in User, Login(u)
    PROVE  IndInv'
<1>1. /\ presence' \in [User -> Presence] /\ presence'[u] = "online"
      /\ Others(u)
      /\ \A v \in User : presence[v] = "online" => presence'[v] = "online"
  BY DEF Login, IndInv, MembersOK, Presence, Others
<1>2. cop' \subseteq User /\ channelOpList' = channelOpList
  BY DEF Login, IndInv, OpsOK
<1>3. CASE IsStaff(u) /\ chan[StaffRoom].type = "private"
  <2> DEFINE k == [chan[StaffRoom] EXCEPT !.invites = @ \cup {u}]
  <2>1. ChannelOK(chan[StaffRoom]) /\ StaffRoom \in Chan
    BY ChanOK, ChanAssumption
  <2>2. Quiet(chan[StaffRoom], k)
    BY <1>3, <2>1, QuietFacts DEF Ban
  <2>3. JoinChannel(StaffRoom, k, u)
    BY <1>3 DEF Login
  <2> HIDE DEF k
  <2>4. u \notin chan[StaffRoom].participants
    BY <2>1 DEF Login, IndInv, MembersOK
  <2>5. /\ ChannelOK(k) /\ SameOps(chan[StaffRoom], k)
        /\ k.participants = chan[StaffRoom].participants
    BY <2>2 DEF Quiet
  <2>6. k.type # "absent"
    BY <1>3 DEF k
  <2>7. /\ EveryChannelOK(chan') /\ Sync(chan', channelList')
        /\ MembersOK(chan', presence') /\ ChannelOps(chan') = ChannelOps(chan)
    BY <1>1, <2>1, <2>3, <2>4, <2>5, <2>6, EnterStep
  <2> QED
    BY <1>2, <2>7 DEF IndInv, OpsOK
<1>4. CASE ~(IsStaff(u) /\ chan[StaffRoom].type = "private")
  <2>1. UNCHANGED <<chan, channelList>>
    BY <1>4 DEF Login
  <2>2. MembersOK(chan', presence')
    <3> SUFFICES ASSUME NEW ch \in Chan, NEW v \in chan[ch].participants
                 PROVE  presence'[v] = "online"
      BY <1>1, <2>1 DEF MembersOK
    <3>1. v \in User
      BY ChanOK DEF ChannelOK, Channel
    <3> QED
      BY <1>1, <3>1 DEF IndInv, MembersOK
  <2> QED
    BY <1>2, <2>1, <2>2 DEF IndInv, OpsOK
<1> QED
  BY <1>3, <1>4

\* Disconnect and Evict: u is out of every channel, whatever it is then.
LEMMA GoneInv ==
    ASSUME IndInv, NEW u \in User, PreDisconnect(u),
           presence' \in [User -> Presence], Others(u),
           UNCHANGED <<cop, channelOpList>>
    PROVE  IndInv'
<1>1. /\ EveryChannelOK(chan') /\ Sync(chan', channelList')
      /\ \A ch \in Chan : chan'[ch].participants = chan[ch].participants \ {u}
      /\ ChannelOps(chan') = ChannelOps(chan)
  BY PreDisconnectStep
<1>2. MembersOK(chan', presence')
  <2> SUFFICES ASSUME NEW ch \in Chan, NEW v \in chan'[ch].participants
               PROVE  presence'[v] = "online"
    BY DEF MembersOK
  <2>1. v \in chan[ch].participants /\ v # u
    BY <1>1
  <2>2. v \in User
    BY <2>1, ChanOK DEF ChannelOK, Channel
  <2> QED
    BY <2>1, <2>2 DEF IndInv, MembersOK, Others
<1> QED
  BY <1>1, <1>2 DEF IndInv, OpsOK

LEMMA CRCInv ==
    ASSUME IndInv, NEW u \in User, NEW ch \in Chan, CRC(u, ch)
    PROVE  IndInv'
<1> DEFINE r == NewChannel("public")
<1>1. /\ ChannelOK(r) /\ r.type = "public" /\ r.participants = {}
      /\ r.moderators = {}
  BY NewChannelFacts
<1>2. chan' = [chan EXCEPT ![ch] = r] /\ ch \in Chan
  BY DEF CRC
<1> HIDE DEF r
<1>3. chan[ch].type = "absent" /\ chan[ch].participants = {}
  BY ChanOK DEF CRC, Exists, ChannelOK
<1>4. \A x \in Chan : /\ chan'[x] = IF x = ch THEN r ELSE chan[x]
                      /\ ChannelOK(chan'[x])
                      /\ chan'[x].participants = chan[x].participants
  BY <1>1, <1>2, <1>3 DEF IndInv, EveryChannelOK
<1>5. chan' = [x \in Chan |-> chan'[x]]
  BY <1>2 DEF IndInv, EveryChannelOK
<1>6. /\ EveryChannelOK(chan') /\ Sync(chan', channelList')
      /\ MembersOK(chan', presence')
  BY <1>4, <1>5, StillStep DEF CRC
<1>7. ChannelOps(chan') = ChannelOps(chan)
  BY <1>1, <1>3, <1>4 DEF ChannelOps
<1> QED
  BY <1>6, <1>7 DEF CRC, IndInv, OpsOK

LEMMA BanOrTimeoutInv ==
    ASSUME IndInv, NEW u \in User, NEW ch \in Chan, NEW v \in User,
           NEW ban \in {"timed", "permanent"}, BanOrTimeout(u, ch, v, ban)
    PROVE  IndInv'
<1> DEFINE k == Uninvite(chan[ch], v)
           banned == [k EXCEPT !.bans[v] = ban]
<1>1. Quiet(chan[ch], k) /\ ChannelOK(k)
  BY ChanOK, UninviteFacts DEF Quiet
<1>2. Quiet(k, banned)
  <2> HIDE DEF k
  <2> QED BY <1>1, QuietFacts DEF Ban
<1>3. Quiet(chan[ch], banned)
  BY <1>1, <1>2 DEF Quiet, SameOps
<1>4. /\ UNCHANGED <<presence, cop, channelOpList>>
      /\ \/ chan' = [chan EXCEPT ![ch] = k] /\ UNCHANGED channelList
         \/ chan' = [chan EXCEPT ![ch] = banned] /\ UNCHANGED channelList
         \/ v \in k.participants /\ PartChannel(ch, banned, v)
  BY DEF BanOrTimeout
<1>5. banned.participants = k.participants
  BY <1>2 DEF Quiet
<1> HIDE DEF k, banned
<1>6. CASE chan' = [chan EXCEPT ![ch] = k] /\ UNCHANGED channelList
  BY <1>1, <1>4, <1>6, QuietUpdate
<1>7. CASE chan' = [chan EXCEPT ![ch] = banned] /\ UNCHANGED channelList
  BY <1>3, <1>4, <1>7, QuietUpdate
<1>8. CASE v \in k.participants /\ PartChannel(ch, banned, v)
  BY <1>3, <1>4, <1>5, <1>8, LeaveStep
<1> QED
  BY <1>4, <1>6, <1>7, <1>8

LEMMA COAInv ==
    ASSUME IndInv, NEW u \in User, NEW ch \in Chan, NEW v \in User, COA(u, ch, v)
    PROVE  IndInv'
<1> DEFINE r == [chan[ch] EXCEPT !.moderators = @ \cup {v}]
<1>1. /\ ChannelOK(r) /\ r.participants = chan[ch].participants
      /\ r.type = chan[ch].type
  BY ChanOK DEF ChannelOK, Channel
<1>2. chan' = [chan EXCEPT ![ch] = r]
  BY DEF COA
<1> HIDE DEF r
<1>3. \A x \in Chan : /\ chan'[x] = IF x = ch THEN r ELSE chan[x]
                      /\ ChannelOK(chan'[x])
                      /\ chan'[x].participants = chan[x].participants
  BY <1>1, <1>2 DEF IndInv, EveryChannelOK
<1>4. chan' = [x \in Chan |-> chan'[x]]
  BY <1>2 DEF IndInv, EveryChannelOK
<1>5. /\ EveryChannelOK(chan') /\ Sync(chan', channelList')
      /\ MembersOK(chan', presence')
  BY <1>3, <1>4, StillStep DEF COA
<1>6. CASE chan[ch].type = "public"
  <2>1. channelOpList' = ChannelOps(chan') /\ cop' \subseteq User
    BY <1>6 DEF COA, IndInv, OpsOK
  <2> QED
    BY <1>5, <2>1, OpsTyped DEF IndInv, OpsOK
<1>7. CASE chan[ch].type # "public"
  <2>1. \A x \in Chan : SameOps(chan[x], chan'[x])
    BY <1>1, <1>3, <1>7 DEF SameOps
  <2> QED
    BY <1>5, <1>7, <2>1, OpsKept DEF COA, IndInv, OpsOK
<1> QED
  BY <1>6, <1>7

LEMMA CORInv ==
    ASSUME IndInv, NEW u \in User, NEW ch \in Chan, NEW v \in User, COR(u, ch, v)
    PROVE  IndInv'
<1> DEFINE r == [chan[ch] EXCEPT !.moderators = @ \ {v}]
           removed == [chan EXCEPT ![ch] = r]
           after == [removed EXCEPT ![StaffRoom] =
                        Uninvite(removed[StaffRoom], v)]
<1>1. /\ ChannelOK(r) /\ r.participants = chan[ch].participants
      /\ r.type = chan[ch].type
  BY ChanOK DEF ChannelOK, Channel
<1>2. IF chan[ch].type = "public"
      THEN /\ chan' = after /\ channelOpList' = ChannelOps(removed)
           /\ cop' \subseteq User
      ELSE chan' = removed /\ UNCHANGED <<cop, channelOpList>>
  BY DEF COR, IndInv, OpsOK
<1> HIDE DEF r
<1>3. /\ removed = [x \in Chan |-> removed[x]]
      /\ \A x \in Chan : /\ removed[x] = IF x = ch THEN r ELSE chan[x]
                         /\ ChannelOK(removed[x])
                         /\ removed[x].participants = chan[x].participants
  BY <1>1 DEF IndInv, EveryChannelOK
<1> HIDE DEF removed
<1>4. /\ after = [x \in Chan |-> after[x]]
      /\ \A x \in Chan : Quiet(removed[x], after[x])
  <2>1. Quiet(removed[StaffRoom], Uninvite(removed[StaffRoom], v))
    BY <1>3, UninviteFacts, ChanAssumption
  <2>2. \A x \in Chan : Quiet(removed[x], removed[x])
    BY <1>3 DEF Quiet, SameOps
  <2> QED
    BY <1>3, <2>1, <2>2
<1>5. ChannelOps(after) = ChannelOps(removed)
  BY <1>4, OpsKept DEF Quiet
<1> HIDE DEF after
<1>6. chan' = removed \/ chan' = after
  BY <1>2
<1>7. /\ EveryChannelOK(chan') /\ Sync(chan', channelList')
      /\ MembersOK(chan', presence')
  <2>1. /\ chan' = [x \in Chan |-> chan'[x]]
        /\ \A x \in Chan : /\ ChannelOK(chan'[x])
                           /\ chan'[x].participants = chan[x].participants
    BY <1>3, <1>4, <1>6 DEF Quiet
  <2>2. UNCHANGED <<channelList, presence>>
    BY DEF COR
  <2> QED
    BY <2>1, <2>2, StillStep
<1>8. OpsOK(chan', channelOpList', cop')
  <2>1. CASE chan[ch].type = "public"
    BY <1>2, <1>5, <1>7, <2>1, OpsTyped DEF OpsOK
  <2>2. CASE chan[ch].type # "public"
    <3>1. \A x \in Chan : SameOps(chan[x], chan'[x])
      BY <1>1, <1>2, <1>3, <2>2 DEF SameOps
    <3> QED
      BY <1>2, <2>2, <3>1, OpsKept DEF IndInv, OpsOK
  <2> QED
    BY <2>1, <2>2
<1> QED
  BY <1>7, <1>8 DEF IndInv

LEMMA MemberStepInv ==
    ASSUME IndInv, NEW u \in User, MemberStep(u)
    PROVE  IndInv'
<1>1. CASE Login(u)
  BY <1>1, LoginInv
<1>2. CASE Disconnect(u)
  <2>1. presence' \in [User -> Presence] /\ Others(u)
    BY <1>2 DEF Disconnect, IndInv, MembersOK, Presence, Others
  <2> QED
    BY <1>2, <2>1, GoneInv DEF Disconnect
<1>3. CASE CleanUp(u)
  <2>1. MembersOK(chan', presence')
    BY <1>3 DEF CleanUp, IndInv, MembersOK, Presence
  <2> QED
    BY <1>3, <2>1 DEF CleanUp, IndInv
<1>4. CASE Evict(u)
  <2>1. presence' \in [User -> Presence] /\ Others(u)
    BY <1>4 DEF Evict, IndInv, MembersOK, Presence, Others
  <2> QED
    BY <1>4, <2>1, GoneInv DEF Evict
<1>5. CASE ReloadLua(u)
  <2>1. ChannelOK(chan[StaffRoom]) /\ StaffRoom \in Chan
    BY ChanOK, ChanAssumption
  <2>2. Quiet(chan[StaffRoom], SpecialPrivateChannel)
    BY <1>5, <2>1, SpecialPrivateChannelFacts
       DEF ReloadLua, Exists, Quiet, ChannelOK, SameOps
  <2> QED
    BY <1>5, <2>1, <2>2, QuietUpdate DEF ReloadLua
<1>6. ASSUME NEW ch \in Chan,
             JCH(u, ch) \/ LCH(u, ch) \/ CCR(u, ch) \/ CRC(u, ch) \/ KIC(u, ch)
      PROVE  IndInv'
  <2>1. Quiet(chan[ch], chan[ch])
    BY ChanOK DEF Quiet, SameOps
  <2>2. CASE LCH(u, ch)
    BY <2>1, <2>2, LeaveStep DEF LCH
  <2>3. CASE KIC(u, ch)
    BY <2>3, DestroyStep DEF KIC
  <2> QED
    BY <1>6, <2>2, <2>3, JCHInv, CCRInv, CRCInv
<1>7. ASSUME NEW ch \in Chan, NEW status \in {"private", "pubprivate"},
             RST(u, ch, status)
      PROVE  IndInv'
  <2> DEFINE r == [chan[ch] EXCEPT !.type = status]
  <2>1. Quiet(chan[ch], r)
    BY <1>7, ChanOK DEF RST, Quiet, SameOps, ChannelOK, Channel
  <2>2. chan' = [chan EXCEPT ![ch] = r]
    BY <1>7 DEF RST
  <2> HIDE DEF r
  <2> QED
    BY <1>7, <2>1, <2>2, QuietUpdate DEF RST
<1> QED
  BY <1>1, <1>2, <1>3, <1>4, <1>5, <1>6, <1>7 DEF MemberStep

LEMMA ModeratorStepInv ==
    ASSUME IndInv, NEW u \in User, NEW ch \in Chan, NEW v \in User,
           ModeratorStep(u, ch, v)
    PROVE  IndInv'
<1>1. ChannelOK(chan[ch])
  BY ChanOK
<1>2. CASE CKU(u, ch, v)
  <2>1. Quiet(chan[ch], Uninvite(chan[ch], v))
    BY <1>1, UninviteFacts
  <2>2. v \in Uninvite(chan[ch], v).participants
    BY <1>2, <2>1 DEF CKU, Quiet
  <2> QED
    BY <1>2, <2>1, <2>2, LeaveStep DEF CKU
<1>3. CASE CUB(u, ch, v)
  <2> DEFINE r == [chan[ch] EXCEPT !.bans[v] = "none"]
  <2>1. Quiet(chan[ch], r)
    BY <1>1, QuietFacts DEF Ban
  <2>2. chan' = [chan EXCEPT ![ch] = r]
    BY <1>3 DEF CUB
  <2> QED
    BY <1>3, <2>1, <2>2, QuietUpdate DEF CUB
<1>4. CASE CIU(u, ch, v)
  <2> DEFINE r == [chan[ch] EXCEPT !.invites = @ \cup {v}]
  <2>1. Quiet(chan[ch], r)
    BY <1>1, <1>4, QuietFacts DEF Ban, CIU
  <2>2. chan' = [chan EXCEPT ![ch] = r]
    BY <1>4 DEF CIU
  <2> QED
    BY <1>4, <2>1, <2>2, QuietUpdate DEF CIU
<1>5. CASE CSO(u, ch, v)
  <2> DEFINE r == [chan[ch] EXCEPT !.owner = v]
  <2>1. Quiet(chan[ch], r)
    BY <1>1, QuietFacts DEF Ban
  <2>2. chan' = [chan EXCEPT ![ch] = r]
    BY <1>5 DEF CSO
  <2> QED
    BY <1>5, <2>1, <2>2, QuietUpdate DEF CSO
<1> QED
  BY <1>2, <1>3, <1>4, <1>5, BanOrTimeoutInv, COAInv, CORInv DEF ModeratorStep

LEMMA TimeoutEndsInv ==
    ASSUME IndInv, NEW ch \in Chan, NEW v \in User, TimeoutEnds(ch, v)
    PROVE  IndInv'
<1> DEFINE r == [chan[ch] EXCEPT !.bans[v] = "none"]
<1>1. Quiet(chan[ch], r)
  BY ChanOK, QuietFacts DEF Ban
<1>2. chan' = [chan EXCEPT ![ch] = r]
  BY DEF TimeoutEnds
<1> QED
  BY <1>1, <1>2, QuietUpdate DEF TimeoutEnds

LEMMA RemoveUnusedChannelsInv ==
    ASSUME IndInv, NEW unused \in SUBSET Chan, RemoveUnusedChannels(unused)
    PROVE  IndInv'
<1> DEFINE r(ch) == [chan[ch] EXCEPT !.participantCount =
                                        Cardinality(chan[ch].participants)]
<1>1. chan' = [ch \in Chan |-> IF ch \in unused THEN NoChannel ELSE r(ch)]
  BY DEF RemoveUnusedChannels
<1>2. ASSUME NEW ch \in Chan
      PROVE  Quiet(chan[ch], chan'[ch])
  <2>1. CASE ch \in unused
    <3>1. chan[ch].type = "pubprivate" /\ chan[ch].participants = {}
      BY <2>1 DEF RemoveUnusedChannels
    <3>2. chan'[ch] = NoChannel
      BY <1>1, <2>1
    <3> QED
      BY <3>1, <3>2, NoChannelFacts DEF Quiet, SameOps
  <2>2. CASE ch \notin unused
    <3>1. chan'[ch] = r(ch)
      BY <1>1, <2>2
    <3>2. Quiet(chan[ch], r(ch))
      BY ChanOK DEF Quiet, SameOps, ChannelOK, Channel
    <3> QED
      BY <3>1, <3>2
  <2> QED
    BY <2>1, <2>2
<1> HIDE DEF r
<1>3. chan' = [ch \in Chan |-> chan'[ch]]
  BY <1>1
<1> QED
  BY <1>2, <1>3, QuietStep DEF RemoveUnusedChannels

LEMMA NextInv == IndInv /\ [Next]_vars => IndInv'
<1> SUFFICES ASSUME IndInv, [Next]_vars PROVE IndInv'
  OBVIOUS
<1>1. CASE UNCHANGED vars
  BY <1>1 DEF vars, IndInv
<1>2. CASE Next
  BY <1>2, MemberStepInv, ModeratorStepInv, TimeoutEndsInv,
     RemoveUnusedChannelsInv DEF Next
<1> QED
  BY <1>1, <1>2

LEMMA SpecInv == Spec => []IndInv
BY InitInv, NextInv, PTL DEF Spec

-----------------------------------------------------------------------------
(* What a step does to one channel object, k before and r after it: who is *)
(* out of it or in it, and who is newly banned.                            *)

\* AbandonedIsDestroyed, BanTakesEffect and EntryByRight for a channel.
Ended(k, r) ==
    k.participants # {} /\ r.participants = {} =>
        \/ r.type \in {"absent", "public"}
        \/ r.type = "private" /\ ~r.canDestroy
        \/ r.type = "pubprivate" /\ r.topUsers >= TopUsers
Effective(k, r) ==
    \A u \in User :
        k.bans[u] = "none" /\ r.bans[u] # "none" =>
            /\ u \notin r.participants
            /\ r.type = "private" => u \notin r.invites
ByRight(ch, k, r) ==
    \A u \in User :
        u \in r.participants \ k.participants =>
            \/ IsOwner(r, u) \/ u \in Staff
            \/ /\ IsBanned(k, u) => ch = StaffRoom
               /\ k.type = "private" => u \in r.invites
Right(ch, k, r) == Ended(k, r) /\ Effective(k, r) /\ ByRight(ch, k, r)

\* Nobody but those of B is newly banned.
BansOnly(k, r, B) ==
    \A u \in User \ B : k.bans[u] = "none" => r.bans[u] = "none"

\* Channels of CRC are public, and an operator's role is known wherever the
\* operator is found by name.
Ranked ==
    /\ \A ch \in PublicChan : chan[ch].type \in {"public", "absent"}
    /\ \A u \in User : Found(u) /\ u \in channelOpList \cap LowerCase => u \in cop

LEMMA SameIsRight ==
    ASSUME NEW ch, NEW k, NEW r, r.participants = k.participants,
           BansOnly(k, r, {})
    PROVE  Right(ch, k, r)
BY DEF Right, Ended, Effective, ByRight, BansOnly

LEMMA NoChannelIsRight ==
    ASSUME NEW ch, NEW k
    PROVE  Right(ch, k, NoChannel) /\ BansOnly(k, NoChannel, {})
BY DEF NoChannel, NewChannel, Right, Ended, Effective, ByRight, BansOnly

LEMMA UninviteKeeps ==
    ASSUME NEW k, ChannelOK(k), NEW u
    PROVE  LET r == Uninvite(k, u) IN
           /\ r.type = k.type /\ r.participants = k.participants
           /\ r.bans = k.bans /\ r.topUsers = k.topUsers
           /\ r.canDestroy = k.canDestroy /\ r.owner = k.owner
           /\ r.type = "private" => r.invites = k.invites \ {u}
BY DEF Uninvite, ChannelOK, Channel

\* The object q that a user leaves may have been changed on the way, by a
\* ban and a withdrawn invitation of that user.
LEMMA RemainsIsRight ==
    ASSUME NEW ch, NEW k, NEW q, NEW u \in q.participants, ChannelOK(q),
           q.participants = k.participants, BansOnly(k, q, {u}),
           k.bans[u] = "none" /\ q.bans[u] # "none" /\ q.type = "private"
               => u \notin q.invites
    PROVE  /\ Right(ch, k, Remains(q, u))
           /\ Remains(q, u).participants = k.participants \ {u}
           /\ \A B : BansOnly(k, q, B) => BansOnly(k, Remains(q, u), B)
<1> DEFINE p == Part(q, u)
<1>1. /\ ChannelOK(p) /\ p.participants = q.participants \ {u}
      /\ p.type = q.type
  BY PartFacts
<1>2. p.bans = q.bans /\ p.invites = q.invites
  BY DEF Part, ChannelOK, Channel
<1> HIDE DEF p
<1>3. Remains(q, u) = IF Abandoned(p) THEN NoChannel ELSE p
  BY DEF Remains, p
<1>4. Remains(q, u).participants = k.participants \ {u}
  BY RemainsFacts
<1>5. CASE Abandoned(p)
  BY <1>3, <1>4, <1>5, NoChannelIsRight DEF BansOnly
<1>6. CASE ~Abandoned(p)
  <2>1. Ended(k, p)
    <3> SUFFICES ASSUME p.participants = {},
                        p.type \notin {"absent", "public"}
                 PROVE  \/ p.type = "private" /\ ~p.canDestroy
                        \/ p.type = "pubprivate" /\ p.topUsers >= TopUsers
      BY DEF Ended
    <3>1. p.participantCount = 0
      BY <1>1, FS_EmptySet DEF ChannelOK
    <3>2. p.type \in {"private", "pubprivate"} /\ p.topUsers \in Nat
      BY <1>1 DEF ChannelOK, Channel
    <3> QED
      BY <1>6, <3>1, <3>2, BoundAssumption DEF Abandoned
  <2>2. Effective(k, p)
    BY <1>1, <1>2 DEF Effective, BansOnly
  <2>3. ByRight(ch, k, p)
    BY <1>1 DEF ByRight
  <2> QED
    BY <1>2, <1>3, <1>4, <1>6, <2>1, <2>2, <2>3 DEF Right, BansOnly
<1> QED
  BY <1>5, <1>6

\* Entering a channel by right.
LEMMA JoinIsRight ==
    ASSUME NEW ch, NEW k, NEW q, NEW u \in User, ChannelOK(q), q.type # "absent",
           u \notin q.participants, q.participants = k.participants,
           BansOnly(k, q, {}),
           \/ IsOwner(q, u) \/ u \in Staff
           \/ /\ IsBanned(k, u) => ch = StaffRoom
              /\ k.type = "private" => u \in q.invites
    PROVE  Right(ch, k, Join(q, u)) /\ BansOnly(k, Join(q, u), {})
<1> DEFINE r == Join(q, u)
<1>1. r.participants = k.participants \cup {u}
  BY JoinFacts
<1>2. r.bans = q.bans /\ r.owner = q.owner /\ r.invites = q.invites
  BY DEF Join, ChannelOK, Channel
<1> HIDE DEF r
<1>3. Right(ch, k, r) /\ BansOnly(k, r, {})
  BY <1>1, <1>2
     DEF Right, Ended, Effective, ByRight, BansOnly, IsOwner
<1> QED
  BY <1>3 DEF r

\* What a step does is right, and of ch only those of B are newly banned.
AllRight(ch, B) ==
    \A x \in Chan : /\ Right(x, chan[x], chan'[x])
                    /\ BansOnly(chan[x], chan'[x], IF x = ch THEN B ELSE {})

\* One channel object is replaced by another.
LEMMA UpdateIsRight ==
    ASSUME IndInv, NEW ch \in Chan, NEW r, NEW B, Right(ch, chan[ch], r),
           BansOnly(chan[ch], r, B), chan' = [chan EXCEPT ![ch] = r]
    PROVE  AllRight(ch, B)
<1> SUFFICES ASSUME NEW x \in Chan
             PROVE  /\ Right(x, chan[x], chan'[x])
                    /\ BansOnly(chan[x], chan'[x], IF x = ch THEN B ELSE {})
  BY DEF AllRight
<1>1. CASE x = ch
  BY <1>1 DEF IndInv, EveryChannelOK
<1>2. CASE x # ch
  <2>1. chan'[x] = chan[x]
    BY <1>2 DEF IndInv, EveryChannelOK
  <2>2. BansOnly(chan[x], chan'[x], {})
    BY <2>1 DEF BansOnly
  <2> QED
    BY <1>2, <2>1, <2>2, SameIsRight
<1> QED
  BY <1>1, <1>2

\* Nobody moves and nobody is newly banned.
LEMMA StillIsRight ==
    ASSUME NEW ch, \A x \in Chan : /\ chan'[x].participants = chan[x].participants
                                   /\ BansOnly(chan[x], chan'[x], {})
    PROVE  AllRight(ch, {})
BY SameIsRight DEF AllRight

LEMMA JoinsAreRight ==
    ASSUME IndInv, NEW u \in User, NEW ch \in Chan, JCH(u, ch) \/ CCR(u, ch)
    PROVE  AllRight(ch, {})
<1>1. CASE JCH(u, ch)
  <2>1. /\ ChannelOK(chan[ch]) /\ chan[ch].type # "absent"
        /\ u \notin chan[ch].participants
        /\ chan' = [chan EXCEPT ![ch] = Join(chan[ch], u)]
    BY <1>1, ChanOK DEF JCH, Commands, Exists, JoinChannel
  <2>2. BansOnly(chan[ch], chan[ch], {})
    BY DEF BansOnly
  <2>3. Right(ch, chan[ch], Join(chan[ch], u)) /\ BansOnly(chan[ch], Join(chan[ch], u), {})
    BY <1>1, <2>1, <2>2, JoinIsRight DEF JCH, MayJoin
  <2> QED
    BY <2>1, <2>3, UpdateIsRight
<1>2. CASE CCR(u, ch)
  <2> DEFINE q == PrivateChannel(u)
  <2>1. ChannelOK(q) /\ q.type = "private" /\ q.participants = {}
    BY PrivateChannelFacts
  <2>2. /\ chan[ch].participants = {} /\ chan' = [chan EXCEPT ![ch] = Join(q, u)]
    BY <1>2, ChanOK DEF CCR, Exists, ChannelOK, JoinChannel
  <2>3. IsOwner(q, u) /\ BansOnly(chan[ch], q, {})
    BY DEF PrivateChannel, NewChannel, IsOwner, BansOnly
  <2> HIDE DEF q
  <2>4. Right(ch, chan[ch], Join(q, u)) /\ BansOnly(chan[ch], Join(q, u), {})
    BY <2>1, <2>2, <2>3, JoinIsRight
  <2> QED
    BY <2>2, <2>4, UpdateIsRight
<1> QED
  BY <1>1, <1>2

LEMMA LoginIsRight ==
    ASSUME IndInv, NEW u \in User, Login(u)
    PROVE  AllRight(StaffRoom, {})
<1>1. CASE IsStaff(u) /\ chan[StaffRoom].type = "private"
  <2> DEFINE k == chan[StaffRoom]
             q == [k EXCEPT !.invites = @ \cup {u}]
  <2>1. ChannelOK(k) /\ StaffRoom \in Chan
    BY ChanOK, ChanAssumption
  <2>2. Quiet(k, q)
    BY <1>1, <2>1, QuietFacts DEF Ban
  <2>3. chan' = [chan EXCEPT ![StaffRoom] = Join(q, u)]
    BY <1>1 DEF Login, JoinChannel
  <2>4. u \notin k.participants
    BY <2>1 DEF Login, IndInv, MembersOK
  <2>5. q.type = "private" /\ q.bans = k.bans /\ u \in q.invites
    BY <1>1, <2>1 DEF ChannelOK, Channel
  <2> HIDE DEF k, q
  <2>6. ChannelOK(q) /\ q.participants = k.participants /\ BansOnly(k, q, {})
    BY <2>2, <2>5 DEF Quiet, BansOnly
  <2>7. Right(StaffRoom, k, Join(q, u)) /\ BansOnly(k, Join(q, u), {})
    BY <2>4, <2>5, <2>6, JoinIsRight
  <2> QED
    BY <2>1, <2>3, <2>7, UpdateIsRight DEF k
<1>2. CASE ~(IsStaff(u) /\ chan[StaffRoom].type = "private")
  BY <1>2, StillIsRight DEF Login, BansOnly
<1> QED
  BY <1>1, <1>2

LEMMA PreDisconnectIsRight ==
    ASSUME IndInv, NEW u \in User, PreDisconnect(u)
    PROVE  AllRight(StaffRoom, {})
<1> DEFINE left == channelList[u]
           after == [ch \in Chan |-> IF ch \in left THEN Remains(chan[ch], u)
                                     ELSE chan[ch]]
<1>1. chan' = [after EXCEPT ![StaffRoom] = Uninvite(after[StaffRoom], u)]
  BY DEF PreDisconnect
<1>2. left \subseteq Chan /\ \A ch \in Chan : ch \in left <=> u \in chan[ch].participants
  BY DEF IndInv, Sync
<1>3. ASSUME NEW ch \in Chan
      PROVE  /\ Right(ch, chan[ch], after[ch]) /\ BansOnly(chan[ch], after[ch], {})
             /\ ChannelOK(after[ch])
             /\ after[ch].participants \subseteq chan[ch].participants
  <2>1. ChannelOK(chan[ch]) /\ \A B : BansOnly(chan[ch], chan[ch], B)
    BY ChanOK DEF BansOnly
  <2>2. CASE ch \in left
    <3> DEFINE r == Remains(chan[ch], u)
    <3>1. u \in chan[ch].participants /\ after[ch] = r
      BY <1>2, <2>2
    <3>2. /\ Right(ch, chan[ch], r) /\ BansOnly(chan[ch], r, {})
          /\ r.participants = chan[ch].participants \ {u}
      <4> DEFINE k == chan[ch]
      <4>1. /\ ChannelOK(k) /\ u \in k.participants
            /\ BansOnly(k, k, {u}) /\ BansOnly(k, k, {})
        BY <2>1, <3>1
      <4> HIDE DEF k
      <4>2. /\ Right(ch, k, Remains(k, u)) /\ BansOnly(k, Remains(k, u), {})
            /\ Remains(k, u).participants = k.participants \ {u}
        BY <4>1, RemainsIsRight
      <4> QED BY <4>2 DEF k
    <3>3. ChannelOK(r)
      BY <2>1, <3>1, RemainsFacts
    <3> QED
      BY <3>1, <3>2, <3>3
  <2>3. CASE ch \notin left
    BY <2>1, <2>3, SameIsRight
  <2> QED
    BY <2>2, <2>3
<1>4. StaffRoom \in Chan /\ DOMAIN after = Chan
  BY ChanAssumption
<1> HIDE DEF after
<1>5. ASSUME NEW ch \in Chan
      PROVE  Right(ch, chan[ch], chan'[ch]) /\ BansOnly(chan[ch], chan'[ch], {})
  <2>1. CASE ch # StaffRoom
    BY <1>1, <1>3, <1>4, <2>1
  <2>2. CASE ch = StaffRoom
    <3> DEFINE p == after[ch]
               r == Uninvite(p, u)
    <3>1. chan'[ch] = r
      BY <1>1, <1>4, <2>2
    <3>2. /\ Right(ch, chan[ch], p) /\ BansOnly(chan[ch], p, {})
          /\ p.participants \subseteq chan[ch].participants
      BY <1>3
    <3>3. /\ r.type = p.type /\ r.participants = p.participants
          /\ r.bans = p.bans /\ r.topUsers = p.topUsers
          /\ r.canDestroy = p.canDestroy
          /\ r.type = "private" => r.invites \subseteq p.invites
      BY <1>3, UninviteKeeps
    <3> HIDE DEF p, r
    <3>4. Right(ch, chan[ch], r) /\ BansOnly(chan[ch], r, {})
      BY <3>2, <3>3 DEF Right, Ended, Effective, ByRight, BansOnly
    <3> QED
      BY <3>1, <3>4
  <2> QED
    BY <2>1, <2>2
<1> QED
  BY <1>5 DEF AllRight

LEMMA BanOrTimeoutIsRight ==
    ASSUME IndInv, NEW u \in User, NEW ch \in Chan, NEW v \in User,
           NEW ban \in {"timed", "permanent"}, BanOrTimeout(u, ch, v, ban)
    PROVE  AllRight(ch, {v})
<1> DEFINE k == Uninvite(chan[ch], v)
           banned == [k EXCEPT !.bans[v] = ban]
<1>1. ChannelOK(chan[ch]) /\ ChannelOK(k)
  BY ChanOK, UninviteFacts DEF Quiet
<1>2. /\ k.participants = chan[ch].participants /\ k.bans = chan[ch].bans
      /\ k.type = "private" => v \notin k.invites
  BY <1>1, UninviteKeeps
<1>3. \/ chan' = [chan EXCEPT ![ch] = k]
      \/ ~IsBanned(k, v) /\ (~Found(v) \/ v \notin k.participants)
         /\ chan' = [chan EXCEPT ![ch] = banned]
      \/ ~IsBanned(k, v) /\ v \in k.participants
         /\ chan' = [chan EXCEPT ![ch] = Remains(banned, v)]
  BY DEF BanOrTimeout, PartChannel
<1>4. Found(v) \/ v \notin k.participants
  BY <1>2 DEF IndInv, MembersOK, Found
<1> HIDE DEF k
<1>5. /\ ChannelOK(banned) /\ banned.participants = k.participants
      /\ banned.type = k.type /\ banned.invites = k.invites
      /\ \A w \in User \ {v} : banned.bans[w] = k.bans[w]
  <2>1. Quiet(k, banned)
    BY <1>1, QuietFacts DEF Ban
  <2> QED
    BY <1>1, <2>1 DEF Quiet, ChannelOK, Channel
<1> HIDE DEF banned
<1>6. BansOnly(chan[ch], k, {v}) /\ BansOnly(chan[ch], k, {})
      /\ BansOnly(chan[ch], banned, {v})
  BY <1>2, <1>5 DEF BansOnly
<1>7. CASE chan' = [chan EXCEPT ![ch] = k]
  <2>1. Right(ch, chan[ch], k)
    BY <1>2, <1>6, SameIsRight
  <2> QED
    BY <1>6, <1>7, <2>1, UpdateIsRight
<1>8. CASE /\ v \notin k.participants
           /\ chan' = [chan EXCEPT ![ch] = banned]
  <2>1. Right(ch, chan[ch], banned)
    BY <1>2, <1>5, <1>6, <1>8
       DEF Right, Ended, Effective, ByRight, BansOnly
  <2> QED
    BY <1>6, <1>8, <2>1, UpdateIsRight
<1>9. CASE /\ v \in k.participants
           /\ chan' = [chan EXCEPT ![ch] = Remains(banned, v)]
  <2>1. /\ Right(ch, chan[ch], Remains(banned, v))
        /\ BansOnly(chan[ch], Remains(banned, v), {v})
    BY <1>2, <1>5, <1>6, <1>9, RemainsIsRight
  <2> QED
    BY <1>9, <2>1, UpdateIsRight
<1> QED
  BY <1>3, <1>4, <1>7, <1>8, <1>9

\* Who leaves by LCH or is kicked.
LEMMA LeavingIsRight ==
    ASSUME IndInv, NEW ch \in Chan, NEW u \in User, NEW q,
           q = chan[ch] \/ q = Uninvite(chan[ch], u), u \in chan[ch].participants,
           PartChannel(ch, q, u)
    PROVE  AllRight(ch, {})
<1> DEFINE k == chan[ch]
<1>1. ChannelOK(k)
  BY ChanOK
<1>2. ChannelOK(q) /\ q.participants = k.participants /\ q.bans = k.bans
  BY <1>1, UninviteFacts, UninviteKeeps DEF Quiet
<1>3. \A B : BansOnly(k, q, B)
  BY <1>2 DEF BansOnly
<1>4. Right(ch, k, Remains(q, u)) /\ BansOnly(k, Remains(q, u), {})
  <2> HIDE DEF k
  <2>1. BansOnly(k, q, {u}) /\ BansOnly(k, q, {}) /\ u \in q.participants
    BY <1>2, <1>3 DEF k
  <2> QED
    BY <1>2, <2>1, RemainsIsRight
<1>5. chan' = [chan EXCEPT ![ch] = Remains(q, u)]
  BY DEF PartChannel
<1> QED
  BY <1>4, <1>5, UpdateIsRight

\* The commands that change what a channel says of its users but for who is
\* in it.
LEMMA EditIsRight ==
    ASSUME IndInv, NEW ch \in Chan, NEW r, r.participants = chan[ch].participants,
           BansOnly(chan[ch], r, {}), chan' = [chan EXCEPT ![ch] = r]
    PROVE  AllRight(ch, {})
BY SameIsRight, UpdateIsRight

LEMMA EditsAreRight ==
    ASSUME IndInv, NEW u \in User, NEW v \in User, NEW ch \in Chan,
           NEW status \in {"private", "pubprivate"},
           \/ RST(u, ch, status) \/ CUB(u, ch, v) \/ CIU(u, ch, v)
           \/ CSO(u, ch, v) \/ COA(u, ch, v) \/ TimeoutEnds(ch, v)
    PROVE  AllRight(ch, {})
<1> DEFINE k == chan[ch]
<1>1. k \in Channel
  BY ChanOK DEF ChannelOK
<1>2. \/ chan' = [chan EXCEPT ![ch] = [k EXCEPT !.type = status]]
      \/ chan' = [chan EXCEPT ![ch] = [k EXCEPT !.bans[v] = "none"]]
      \/ chan' = [chan EXCEPT ![ch] = [k EXCEPT !.invites = @ \cup {v}]]
      \/ chan' = [chan EXCEPT ![ch] = [k EXCEPT !.owner = v]]
      \/ chan' = [chan EXCEPT ![ch] = [k EXCEPT !.moderators = @ \cup {v}]]
  BY DEF RST, CUB, CIU, CSO, COA, TimeoutEnds
<1>3. PICK r : /\ chan' = [chan EXCEPT ![ch] = r]
               /\ r.participants = k.participants
               /\ BansOnly(k, r, {})
  <2> HIDE DEF k
  <2>1. \/ \E r : r = [k EXCEPT !.type = status] /\ chan' = [chan EXCEPT ![ch] = r]
        \/ \E r : r = [k EXCEPT !.bans[v] = "none"]
                  /\ chan' = [chan EXCEPT ![ch] = r]
        \/ \E r : r = [k EXCEPT !.invites = @ \cup {v}]
                  /\ chan' = [chan EXCEPT ![ch] = r]
        \/ \E r : r = [k EXCEPT !.owner = v] /\ chan' = [chan EXCEPT ![ch] = r]
        \/ \E r : r = [k EXCEPT !.moderators = @ \cup {v}]
                  /\ chan' = [chan EXCEPT ![ch] = r]
    BY <1>2
  <2> QED
    BY <1>1, <2>1 DEF Channel, BansOnly
<1> QED
  BY <1>3, EditIsRight

LEMMA CORIsRight ==
    ASSUME IndInv, NEW u \in User, NEW ch \in Chan, NEW v \in User, COR(u, ch, v)
    PROVE  AllRight(ch, {})
<1> DEFINE r == [chan[ch] EXCEPT !.moderators = @ \ {v}]
           removed == [chan EXCEPT ![ch] = r]
           after == [removed EXCEPT ![StaffRoom] = Uninvite(@, v)]
<1>1. chan' = removed \/ chan' = after
  BY DEF COR
<1>2. /\ ChannelOK(r) /\ r.participants = chan[ch].participants
      /\ r.bans = chan[ch].bans
  BY ChanOK DEF ChannelOK, Channel
<1> HIDE DEF r
<1>3. \A x \in Chan : /\ ChannelOK(removed[x])
                      /\ removed[x].participants = chan[x].participants
                      /\ removed[x].bans = chan[x].bans
  BY <1>2, ChanOK DEF IndInv, EveryChannelOK
<1>4. DOMAIN removed = Chan /\ StaffRoom \in Chan
  BY ChanAssumption DEF IndInv, EveryChannelOK
<1> HIDE DEF removed
<1>5. \A x \in Chan : /\ after[x].participants = chan[x].participants
                      /\ after[x].bans = chan[x].bans
  <2>1. /\ Uninvite(removed[StaffRoom], v).participants = chan[StaffRoom].participants
        /\ Uninvite(removed[StaffRoom], v).bans = chan[StaffRoom].bans
    BY <1>3, <1>4, UninviteKeeps
  <2>2. \A x \in Chan : after[x] = IF x = StaffRoom
                                   THEN Uninvite(removed[StaffRoom], v)
                                   ELSE removed[x]
    BY <1>4
  <2> QED
    BY <1>3, <2>1, <2>2
<1> QED
  BY <1>1, <1>3, <1>5, StillIsRight DEF BansOnly

LEMMA RemoveUnusedIsRight ==
    ASSUME IndInv, NEW unused \in SUBSET Chan, RemoveUnusedChannels(unused),
           NEW ch
    PROVE  AllRight(ch, {})
<1> SUFFICES ASSUME NEW x \in Chan
             PROVE  /\ chan'[x].participants = chan[x].participants
                    /\ BansOnly(chan[x], chan'[x], {})
  BY StillIsRight
<1>1. CASE x \in unused
  BY <1>1, NoChannelFacts, NoChannelIsRight DEF RemoveUnusedChannels
<1>2. CASE x \notin unused
  BY <1>2, ChanOK DEF RemoveUnusedChannels, ChannelOK, Channel, BansOnly
<1> QED
  BY <1>1, <1>2

LEMMA MakingIsRight ==
    ASSUME IndInv, NEW u \in User, NEW ch \in Chan,
           CRC(u, ch) \/ KIC(u, ch) \/ (ReloadLua(u) /\ ch = StaffRoom)
    PROVE  AllRight(ch, {})
<1>1. CASE KIC(u, ch)
  BY <1>1, NoChannelIsRight, UpdateIsRight DEF KIC, DestroyChannel
<1>2. CASE CRC(u, ch) \/ (ReloadLua(u) /\ ch = StaffRoom)
  <2>1. chan[ch].participants = {}
    BY <1>2, ChanOK DEF CRC, ReloadLua, Exists, ChannelOK
  <2>2. PICK r \in {NewChannel("public"), SpecialPrivateChannel} :
            chan' = [chan EXCEPT ![ch] = r]
    BY <1>2 DEF CRC, ReloadLua
  <2>3. r.participants = {} /\ BansOnly(chan[ch], r, {})
    BY DEF NewChannel, SpecialPrivateChannel, BansOnly
  <2> QED
    BY <2>1, <2>2, <2>3, EditIsRight
<1> QED
  BY <1>1, <1>2

\* Every step is right, and only BanOrTimeout newly bans, and whom it says.
LEMMA StepIsRight ==
    ASSUME IndInv, [Next]_vars, NEW x \in Chan
    PROVE  /\ Right(x, chan[x], chan'[x])
           /\ \/ BansOnly(chan[x], chan'[x], {})
              \/ \E u, v \in User, ban \in {"timed", "permanent"} :
                   /\ BanOrTimeout(u, x, v, ban)
                   /\ BansOnly(chan[x], chan'[x], {v})
<1>1. \A ch : AllRight(ch, {}) => /\ Right(x, chan[x], chan'[x])
                                  /\ BansOnly(chan[x], chan'[x], {})
  BY DEF AllRight
<1>2. CASE UNCHANGED vars
  BY <1>1, <1>2, StillIsRight DEF vars, BansOnly
<1>3. ASSUME NEW u \in User, MemberStep(u)
      PROVE  \E ch : AllRight(ch, {})
  <2>1. CASE Login(u) \/ Disconnect(u) \/ Evict(u)
    BY <2>1, LoginIsRight, PreDisconnectIsRight DEF Disconnect, Evict
  <2>2. CASE CleanUp(u)
    BY <2>2, StillIsRight DEF CleanUp, BansOnly
  <2>3. CASE ReloadLua(u)
    BY <2>3, MakingIsRight, ChanAssumption
  <2>4. ASSUME NEW ch \in Chan,
               JCH(u, ch) \/ LCH(u, ch) \/ CCR(u, ch) \/ CRC(u, ch) \/ KIC(u, ch)
        PROVE  AllRight(ch, {})
    <3>1. CASE LCH(u, ch)
      BY <3>1, LeavingIsRight DEF LCH
    <3> QED
      BY <2>4, <3>1, JoinsAreRight, MakingIsRight
  <2>5. ASSUME NEW ch \in Chan, NEW status \in {"private", "pubprivate"},
               RST(u, ch, status)
        PROVE  AllRight(ch, {})
    BY <2>5, EditsAreRight
  <2> QED
    BY <1>3, <2>1, <2>2, <2>3, <2>4, <2>5 DEF MemberStep
<1>4. ASSUME NEW u \in User, NEW v \in User, NEW ch \in Chan,
             ModeratorStep(u, ch, v)
      PROVE  \/ \E y : AllRight(y, {})
             \/ \E ban \in {"timed", "permanent"} :
                    BanOrTimeout(u, ch, v, ban) /\ AllRight(ch, {v})
  <2>1. CASE CKU(u, ch, v)
    BY <2>1, LeavingIsRight DEF CKU
  <2>2. CASE CUB(u, ch, v) \/ CIU(u, ch, v) \/ CSO(u, ch, v) \/ COA(u, ch, v)
    BY <2>2, EditsAreRight
  <2> QED
    BY <1>4, <2>1, <2>2, CORIsRight, BanOrTimeoutIsRight DEF ModeratorStep
<1>5. ASSUME NEW u \in User, NEW v \in User, NEW ch \in Chan,
             NEW ban \in {"timed", "permanent"},
             BanOrTimeout(u, ch, v, ban), AllRight(ch, {v})
      PROVE  /\ Right(x, chan[x], chan'[x])
             /\ \/ BansOnly(chan[x], chan'[x], {})
                \/ BanOrTimeout(u, x, v, ban) /\ BansOnly(chan[x], chan'[x], {v})
  BY <1>5 DEF AllRight
<1>6. CASE \E ch \in Chan, v \in User : TimeoutEnds(ch, v)
  BY <1>1, <1>6, EditsAreRight
<1>7. CASE \E unused \in SUBSET Chan : RemoveUnusedChannels(unused)
  BY <1>1, <1>7, RemoveUnusedIsRight
<1>8. CASE \E u \in User : MemberStep(u)
  BY <1>1, <1>3, <1>8
<1>9. CASE \E u, v \in User, ch \in Chan : ModeratorStep(u, ch, v)
  <2>1. PICK u \in User, v \in User, ch \in Chan : ModeratorStep(u, ch, v)
    BY <1>9
  <2>2. CASE \E y : AllRight(y, {})
    BY <1>1, <2>2
  <2>3. CASE \E ban \in {"timed", "permanent"} :
                BanOrTimeout(u, ch, v, ban) /\ AllRight(ch, {v})
    BY <1>5, <2>3
  <2> QED
    BY <1>4, <2>1, <2>2, <2>3
<1>10. Next \/ UNCHANGED vars
  OBVIOUS
<1> QED
  BY <1>2, <1>6, <1>7, <1>8, <1>9, <1>10 DEF Next

-----------------------------------------------------------------------------
(* The roles of operators *)

LEMMA InitRanked == Init => Ranked
BY ChanAssumption
   DEF Init, Ranked, NewChannel, Found

LEMMA RemainsKeepsType ==
    ASSUME NEW k \in Channel, NEW u
    PROVE  Remains(k, u).type \in {k.type, "absent"}
BY DEF Remains, Part, NoChannel, NewChannel, Channel

\* The channels of CRC stay public as long as they exist.
LEMMA PublicStaysPublic ==
    ASSUME IndInv, Ranked, [Next]_vars, NEW ch \in PublicChan
    PROVE  chan'[ch].type \in {"public", "absent"}
<1>1. /\ ch \in Chan /\ ch # StaffRoom /\ ChannelOK(chan[ch]) /\ DOMAIN chan = Chan
      /\ chan[ch].type \in {"public", "absent"} /\ chan[ch] \in Channel
  BY ChanAssumption, ChanOK DEF Ranked, ChannelOK, IndInv, EveryChannelOK
<1>2. NewChannel("public").type = "public" /\ NoChannel.type = "absent"
  BY NewChannelFacts, NoChannelFacts
<1>3. CASE UNCHANGED vars
  BY <1>1, <1>3 DEF vars
<1>4. ASSUME NEW u \in User, PreDisconnect(u)
      PROVE  chan'[ch].type \in {"public", "absent"}
  <2>1. chan'[ch] = IF ch \in channelList[u] THEN Remains(chan[ch], u)
                    ELSE chan[ch]
    BY <1>1, <1>4 DEF PreDisconnect
  <2> QED
    BY <1>1, <2>1, RemainsKeepsType
<1>5. ASSUME NEW u \in User, MemberStep(u)
      PROVE  chan'[ch].type \in {"public", "absent"}
  <2>1. CASE Login(u) \/ CleanUp(u) \/ ReloadLua(u)
    BY <1>1, <2>1 DEF Login, CleanUp, ReloadLua, JoinChannel
  <2>2. CASE Disconnect(u) \/ Evict(u)
    BY <1>4, <2>2 DEF Disconnect, Evict
  <2>3. ASSUME NEW x \in Chan,
               JCH(u, x) \/ LCH(u, x) \/ CCR(u, x) \/ CRC(u, x) \/ KIC(u, x)
        PROVE  chan'[ch].type \in {"public", "absent"}
    <3>1. CASE JCH(u, x)
      BY <1>1, <3>1 DEF JCH, JoinChannel, Join, Channel
    <3>2. CASE LCH(u, x)
      BY <1>1, <3>2, RemainsKeepsType DEF LCH, PartChannel
    <3>3. CASE CCR(u, x)
      BY <1>1, <3>3 DEF CCR, JoinChannel
    <3>4. CASE CRC(u, x) \/ KIC(u, x)
      BY <1>1, <1>2, <3>4 DEF CRC, KIC, DestroyChannel
    <3> QED
      BY <2>3, <3>1, <3>2, <3>3, <3>4
  <2>4. ASSUME NEW x \in Chan, NEW status \in {"private", "pubprivate"},
               RST(u, x, status)
        PROVE  chan'[ch].type \in {"public", "absent"}
    BY <1>1, <2>4 DEF RST
  <2> QED
    BY <1>5, <2>1, <2>2, <2>3, <2>4 DEF MemberStep
<1>6. ASSUME NEW u \in User, NEW v \in User, NEW x \in Chan, ModeratorStep(u, x, v)
      PROVE  chan'[ch].type \in {"public", "absent"}
  <2>1. ASSUME NEW ban \in {"timed", "permanent"}, BanOrTimeout(u, x, v, ban)
        PROVE  chan'[ch].type \in {"public", "absent"}
    <3> DEFINE k == Uninvite(chan[x], v)
               banned == [k EXCEPT !.bans[v] = ban]
    <3>1. Quiet(k, banned) /\ banned.type = k.type /\ k.type = chan[x].type
      <4>1. ChannelOK(k) /\ k.type = chan[x].type
        BY ChanOK, UninviteFacts DEF Quiet
      <4> HIDE DEF k
      <4> QED BY <4>1, QuietFacts DEF Ban
    <3>2. \E r \in {k, banned, Remains(banned, v)} : chan' = [chan EXCEPT ![x] = r]
      BY <2>1 DEF BanOrTimeout, PartChannel
    <3> HIDE DEF k, banned
    <3> QED
      BY <1>1, <3>1, <3>2, RemainsKeepsType DEF Quiet, ChannelOK
  <2>2. CASE CKU(u, x, v)
    <3> DEFINE k == Uninvite(chan[x], v)
    <3>1. ChannelOK(k) /\ k.type = chan[x].type
      BY ChanOK, UninviteFacts DEF Quiet
    <3>2. chan' = [chan EXCEPT ![x] = Remains(k, v)]
      BY <2>2 DEF CKU, PartChannel
    <3> HIDE DEF k
    <3> QED
      BY <1>1, <3>1, <3>2, RemainsKeepsType DEF ChannelOK
  <2>3. CASE CUB(u, x, v) \/ CIU(u, x, v) \/ CSO(u, x, v) \/ COA(u, x, v)
    BY <1>1, <2>3 DEF CUB, CIU, CSO, COA, Channel
  <2>4. CASE COR(u, x, v)
    BY <1>1, <2>4 DEF COR, Channel
  <2> QED
    BY <1>6, <2>1, <2>2, <2>3, <2>4 DEF ModeratorStep
<1>7. CASE \E x \in Chan, v \in User : TimeoutEnds(x, v)
  BY <1>1, <1>7 DEF TimeoutEnds, Channel
<1>8. CASE \E unused \in SUBSET Chan : RemoveUnusedChannels(unused)
  BY <1>1, <1>2, <1>8 DEF RemoveUnusedChannels, Channel
<1> QED
  BY <1>3, <1>5, <1>6, <1>7, <1>8 DEF Next

\* Whatever happens, the list of operators gains whom COA adds, and who is
\* found keeps the role "cop" while on the list.
LEMMA OperatorsKeepRole ==
    ASSUME IndInv, Ranked, [Next]_vars, IndInv', NEW v \in User,
           Found(v)', v \in channelOpList' \cap LowerCase
    PROVE  v \in cop'
<1>1. /\ channelOpList = ChannelOps(chan) /\ channelOpList' = ChannelOps(chan')
      /\ Found(v) /\ v \in channelOpList => v \in cop
  BY DEF IndInv, OpsOK, Ranked
<1>2. CASE UNCHANGED vars
  BY <1>1, <1>2 DEF vars, Found
<1>3. CASE UNCHANGED <<presence, cop>> /\ channelOpList' \subseteq channelOpList
  BY <1>1, <1>3 DEF Found
<1>4. ASSUME NEW u \in User, Login(u)
      PROVE  v \in cop'
  BY <1>1, <1>4 DEF Login, Found, IndInv, MembersOK
<1>5. ASSUME NEW u \in User, Disconnect(u) \/ CleanUp(u) \/ Evict(u)
      PROVE  v \in cop'
  <2>1. UNCHANGED <<cop, channelOpList>> /\ Found(v)
    BY <1>5 DEF Disconnect, CleanUp, Evict, Found, Online, IndInv, MembersOK
  <2> QED
    BY <1>1, <2>1
<1>6. ASSUME NEW u \in User, NEW ch \in Chan, KIC(u, ch)
      PROVE  v \in cop'
  <2>1. \A x \in Chan : chan'[x] = chan[x] \/ chan'[x].type # "public"
    BY <1>6, NoChannelFacts DEF KIC, DestroyChannel, IndInv, EveryChannelOK
  <2>2. ChannelOps(chan') \subseteq ChannelOps(chan)
    BY <2>1 DEF ChannelOps
  <2> QED
    BY <1>1, <1>3, <1>6, <2>2 DEF KIC
<1>7. ASSUME NEW u \in User, NEW w \in User, NEW ch \in Chan, COA(u, ch, w)
      PROVE  v \in cop'
  <2>1. /\ UNCHANGED presence
        /\ chan[ch].type = "public" =>
             cop' = IF FoundAsSpelt(w) THEN cop \cup {w} ELSE cop
        /\ chan[ch].type # "public" => UNCHANGED <<cop, channelOpList>>
    BY <1>7 DEF COA
  <2>2. CASE chan[ch].type = "public"
    <3>1. \A x \in Chan : /\ chan'[x].type = chan[x].type
                          /\ chan'[x].moderators \subseteq chan[x].moderators \cup {w}
      BY <1>7, ChanOK DEF COA, IndInv, EveryChannelOK, ChannelOK, Channel
    <3>2. v \in ChannelOps(chan) \/ v = w
      BY <1>1, <3>1 DEF ChannelOps
    <3> QED
      BY <1>1, <2>1, <2>2, <3>2 DEF FoundAsSpelt, Found
  <2> QED
    BY <1>1, <2>1, <2>2 DEF Found
<1>8. ASSUME NEW u \in User, NEW w \in User, NEW ch \in Chan, COR(u, ch, w)
      PROVE  v \in cop'
  <2> DEFINE removed == [chan EXCEPT ![ch].moderators = @ \ {w}]
  <2>1. /\ UNCHANGED presence
        /\ chan[ch].type = "public" =>
             /\ channelOpList' = ChannelOps(removed)
             /\ cop' = IF FoundAsSpelt(w) /\ w \notin channelOpList'
                       THEN cop \ {w} ELSE cop
        /\ chan[ch].type # "public" => UNCHANGED <<cop, channelOpList>>
    BY <1>8 DEF COR
  <2>2. ChannelOps(removed) \subseteq ChannelOps(chan)
    <3>1. \A x \in Chan : /\ removed[x].type = chan[x].type
                          /\ removed[x].moderators \subseteq chan[x].moderators
      BY ChanOK DEF IndInv, EveryChannelOK, ChannelOK, Channel
    <3> HIDE DEF removed
    <3> QED
      BY <3>1 DEF ChannelOps
  <2> HIDE DEF removed
  <2> QED
    BY <1>1, <2>1, <2>2 DEF Found
<1> QED
  <2>1. ASSUME NEW u \in User, MemberStep(u)
        PROVE  v \in cop'
    <3>1. \/ Login(u) \/ Disconnect(u) \/ CleanUp(u) \/ Evict(u)
          \/ \E ch \in Chan : KIC(u, ch)
          \/ UNCHANGED <<presence, cop, channelOpList>>
      BY <2>1 DEF MemberStep, ReloadLua, JCH, LCH, CCR, CRC, RST
    <3> QED
      BY <1>3, <1>4, <1>5, <1>6, <3>1
  <2>2. ASSUME NEW u \in User, NEW w \in User, NEW ch \in Chan,
               ModeratorStep(u, ch, w)
        PROVE  v \in cop'
    <3>1. \/ COA(u, ch, w) \/ COR(u, ch, w)
          \/ UNCHANGED <<presence, cop, channelOpList>>
      BY <2>2 DEF ModeratorStep, BanOrTimeout, CKU, CUB, CIU, CSO
    <3> QED
      BY <1>3, <1>7, <1>8, <3>1
  <2>3. (\E ch \in Chan, w \in User : TimeoutEnds(ch, w))
            \/ (\E unused \in SUBSET Chan : RemoveUnusedChannels(unused))
        => UNCHANGED <<presence, cop, channelOpList>>
    BY DEF TimeoutEnds, RemoveUnusedChannels
  <2> QED
    BY <1>2, <1>3, <2>1, <2>2, <2>3 DEF Next

LEMMA RankedInv == Spec => [](IndInv /\ Ranked)
<1>1. IndInv /\ Ranked /\ [Next]_vars => IndInv' /\ Ranked'
  <2> SUFFICES ASSUME IndInv, Ranked, [Next]_vars PROVE IndInv' /\ Ranked'
    OBVIOUS
  <2>1. IndInv'
    BY NextInv
  <2>2. Ranked'
    BY <2>1, PublicStaysPublic, OperatorsKeepRole DEF Ranked
  <2> QED
    BY <2>1, <2>2
<1> QED
  BY <1>1, InitInv, InitRanked, PTL DEF Spec

-----------------------------------------------------------------------------
(* The theorems *)

\* Whatever users, channels and roles there are, every variable keeps its
\* type, and no participantCount is ever negative.
THEOREM TypeCorrect == Spec => []TypeOK
<1>1. IndInv => TypeOK
  <2> SUFFICES ASSUME IndInv PROVE TypeOK
    OBVIOUS
  <2>1. \A ch \in Chan : chan[ch].participantCount >= 0
    BY ChanOK, ParticipantsFinite, FS_CardinalityType DEF ChannelOK
  <2> QED
    BY <2>1
       DEF IndInv, EveryChannelOK, Sync, MembersOK, OpsOK, Presence, TypeOK
<1> QED
  BY <1>1, SpecInv, PTL

\* A channel's participants and the connections' channel lists name each
\* other, through joins, bans, kicks, disconnects and destroyed channels.
THEOREM MembershipInSync == Spec => []InSync
<1>1. IndInv => InSync
  BY DEF IndInv, Sync, InSync
<1> QED
  BY <1>1, SpecInv, PTL

\* participantCount is the number of participants, so that the assertion of
\* Channel's destructor holds and a channel is destroyed when it is empty.
THEOREM CountsCorrect == Spec => []CountAgrees
<1>1. IndInv => CountAgrees
  BY ChanOK DEF ChannelOK, CountAgrees
<1> QED
  BY <1>1, SpecInv, PTL

\* Nobody who disconnected or lost the character is in any channel.
THEOREM MembersOnline == Spec => []MembersAreOnline
<1>1. IndInv => MembersAreOnline
  BY DEF IndInv, MembersOK, MembersAreOnline, Online
<1> QED
  BY <1>1, SpecInv, PTL

\* channelOpList is the moderators of the public channels at all times.
THEOREM OpListCorrect == Spec => []OpListAgrees
<1>1. IndInv => OpListAgrees
  BY DEF IndInv, OpsOK, OpListAgrees
<1> QED
  BY <1>1, SpecInv, PTL

\* Channels, connections and the list of operators agree in all of this, for
\* any users, roles, channels and limits.
THEOREM ChannelsCorrect == Spec => []ChannelsOK
<1> QED
  BY TypeCorrect, MembershipInSync, CountsCorrect, MembersOnline, OpListCorrect, PTL
     DEF ChannelsOK

\* Whoever leaves a channel last, and however, its room is gone but for the
\* exceptions the code makes.
THEOREM LastOneOut == Spec => AbandonedIsDestroyed
<1>1. IndInv /\ [Next]_vars =>
        \A ch \in Chan : Ended(chan[ch], chan'[ch])
  BY StepIsRight DEF Right
<1>2. IndInv /\ [Next]_vars =>
        [\A ch \in Chan :
            chan[ch].participants # {} /\ chan'[ch].participants = {} =>
                \/ chan'[ch].type \in {"absent", "public"}
                \/ chan'[ch].type = "private" /\ ~chan'[ch].canDestroy
                \/ chan'[ch].type = "pubprivate"
                   /\ chan'[ch].topUsers >= TopUsers]_vars
  BY <1>1 DEF Ended
<1> QED
  BY <1>2, SpecInv, PTL DEF Spec, AbandonedIsDestroyed

\* A ban or timeout takes effect with the step that makes it.
THEOREM BansTakeEffect == Spec => BanTakesEffect
<1>1. IndInv /\ [Next]_vars =>
        \A ch \in Chan : Effective(chan[ch], chan'[ch])
  BY StepIsRight DEF Right
<1>2. IndInv /\ [Next]_vars =>
        [\A ch \in Chan, u \in User :
            chan[ch].bans[u] = "none" /\ chan'[ch].bans[u] # "none" =>
                /\ u \notin chan'[ch].participants
                /\ chan'[ch].type = "private" => u \notin chan'[ch].invites]_vars
  BY <1>1 DEF Effective
<1> QED
  BY <1>2, SpecInv, PTL DEF Spec, BanTakesEffect

\* Nobody gets into a channel but by right, whichever way they come in.
THEOREM EntriesAreByRight == Spec => EntryByRight
<1>1. IndInv /\ [Next]_vars =>
        \A ch \in Chan : ByRight(ch, chan[ch], chan'[ch])
  BY StepIsRight DEF Right
<1>2. IndInv /\ [Next]_vars =>
        [\A ch \in Chan, u \in User :
            u \in chan'[ch].participants \ chan[ch].participants =>
                \/ IsOwner(chan'[ch], u) \/ u \in Staff
                \/ /\ IsBanned(chan[ch], u) => ch = StaffRoom
                   /\ chan[ch].type = "private" => u \in chan'[ch].invites]_vars
  BY <1>1 DEF ByRight
<1> QED
  BY <1>2, SpecInv, PTL DEF Spec, EntryByRight

\* Staff and operators who are online are banned from no public channel: a
\* ban asks for the role "cop", which follows the list of operators.
THEOREM OperatorsNotBanned == Spec => OperatorsStaySafe
<1>1. IndInv /\ Ranked /\ [Next]_vars => [OperatorsAreSafe]_vars
  <2> SUFFICES ASSUME IndInv, Ranked, [Next]_vars,
                      NEW ch \in PublicChan, NEW v \in User,
                      Found(v), Protected(v), Exists(ch),
                      chan[ch].bans[v] = "none"
               PROVE  chan'[ch].bans[v] = "none"
    BY DEF OperatorsAreSafe
  <2>1. ch \in Chan /\ chan[ch].type = "public"
    BY ChanAssumption DEF Ranked, Exists
  <2>2. v \in Staff \cup SuperCop \cup cop
    BY DEF Ranked, Protected
  <2>3. ASSUME NEW u \in User, NEW ban \in {"timed", "permanent"}
        PROVE  ~BanOrTimeout(u, ch, v, ban)
    <3>1. Uninvite(chan[ch], v).type = "public"
      BY <2>1, ChanOK, UninviteFacts
    <3>2. DeniedOnOp(u, Uninvite(chan[ch], v), v)
      BY <2>2, <3>1 DEF DeniedOnOp
    <3> QED
      BY <3>2 DEF BanOrTimeout
  <2>4. \/ BansOnly(chan[ch], chan'[ch], {})
        \/ \E w \in User \ {v} : BansOnly(chan[ch], chan'[ch], {w})
    BY <2>1, <2>3, StepIsRight
  <2> QED
    BY <2>4 DEF BansOnly
<1> QED
  BY <1>1, RankedInv, PTL DEF Spec, OperatorsStaySafe
=============================================================================
