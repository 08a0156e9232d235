------------------------- MODULE LoginServiceProofs -------------------------
(***************************************************************************)
(* Proofs about LoginService, for any logins, pages and limits: no request *)
(* is lost track of or answered twice, no wake-up is lost, and the threads *)
(* together implement RequestReply.  When the server ends, what is left to *)
(* do only gets less (ShutdownShrinks).                                    *)
(***************************************************************************)
EXTENDS LoginService, FiniteSetTheorems, TLAPS

-----------------------------------------------------------------------------
(* Queues without repetition *)

NoRepeat(q) == \A i, j \in DOMAIN q : q[i] = q[j] => i = j

LEMMA AppendFacts ==
    ASSUME NEW S, NEW q \in Seq(S), NEW r \in S
    PROVE  /\ Append(q, r) \in Seq(S) /\ Len(Append(q, r)) = Len(q) + 1
           /\ InQueue(Append(q, r)) = InQueue(q) \cup {r}
           /\ NoRepeat(q) /\ r \notin InQueue(q) => NoRepeat(Append(q, r))
           /\ Append(q, r) # <<>>
<1> DEFINE a == Append(q, r)
<1>1. /\ a \in Seq(S) /\ Len(a) = Len(q) + 1 /\ DOMAIN a = 1 .. Len(q) + 1
      /\ DOMAIN q = 1 .. Len(q) /\ Len(q) \in Nat
      /\ a[Len(q) + 1] = r /\ \A i \in 1 .. Len(q) : a[i] = q[i]
  OBVIOUS
<1> HIDE DEF a
<1>2. InQueue(a) = InQueue(q) \cup {r}
  BY <1>1 DEF InQueue
<1>3. NoRepeat(q) /\ r \notin InQueue(q) => NoRepeat(a)
  BY <1>1 DEF NoRepeat, InQueue
<1> QED
  BY <1>1, <1>2, <1>3 DEF a

LEMMA TailFacts ==
    ASSUME NEW S, NEW q \in Seq(S), q # <<>>
    PROVE  /\ Head(q) \in S /\ Head(q) \in InQueue(q)
           /\ Tail(q) \in Seq(S) /\ Len(Tail(q)) = Len(q) - 1 /\ Len(q) \in Nat
           /\ InQueue(q) = InQueue(Tail(q)) \cup {Head(q)}
           /\ NoRepeat(q) => NoRepeat(Tail(q)) /\ Head(q) \notin InQueue(Tail(q))
<1> DEFINE t == Tail(q)
<1>1. /\ t \in Seq(S) /\ Len(t) = Len(q) - 1 /\ DOMAIN t = 1 .. Len(q) - 1
      /\ DOMAIN q = 1 .. Len(q) /\ Len(q) \in Nat \ {0}
      /\ Head(q) = q[1] /\ \A i \in 1 .. Len(q) - 1 : t[i] = q[i + 1]
      /\ q[1] \in S
  OBVIOUS
<1> HIDE DEF t
<1>2. InQueue(q) = InQueue(t) \cup {q[1]}
  <2>1. \A i \in DOMAIN q : i = 1 \/ (i - 1 \in DOMAIN t /\ q[i] = t[i - 1])
    BY <1>1
  <2>2. \A i \in DOMAIN t : i + 1 \in DOMAIN q /\ t[i] = q[i + 1]
    BY <1>1
  <2> QED BY <1>1, <2>1, <2>2 DEF InQueue
<1>3. NoRepeat(q) => NoRepeat(t) /\ q[1] \notin InQueue(t)
  <2> SUFFICES ASSUME NoRepeat(q) PROVE NoRepeat(t) /\ q[1] \notin InQueue(t)
    OBVIOUS
  <2>1. \A i \in DOMAIN t : i + 1 \in DOMAIN q /\ t[i] = q[i + 1] /\ i + 1 # 1
    BY <1>1
  <2>2. ASSUME NEW i \in DOMAIN t, NEW j \in DOMAIN t, t[i] = t[j] PROVE i = j
    <3>1. i + 1 = j + 1
      BY <2>1, <2>2 DEF NoRepeat
    <3> QED BY <1>1, <3>1
  <2>3. 1 \in DOMAIN q
    BY <1>1
  <2>4. ASSUME NEW i \in DOMAIN t PROVE t[i] # q[1]
    BY <2>1, <2>3 DEF NoRepeat
  <2> QED BY <2>2, <2>4 DEF NoRepeat, InQueue
<1> QED
  BY <1>1, <1>2, <1>3 DEF t

LEMMA EmptyFacts == NoRepeat(<<>>) /\ InQueue(<<>>) = {}
BY DEF NoRepeat, InQueue

-----------------------------------------------------------------------------
(* The invariant *)

\* No two of the places where a request may be have one in common.
Apart(a, b, c, d, e, f, g) ==
    /\ a \cap (b \cup c \cup d \cup e \cup f \cup g) = {}
    /\ b \cap (c \cup d \cup e \cup f \cup g) = {}
    /\ c \cap (d \cup e \cup f \cup g) = {}
    /\ d \cap (e \cup f \cup g) = {}
    /\ e \cap (f \cup g) = {}
    /\ f \cap g = {}

PlacesApart ==
    Apart(InQueue(requests), InQueue(httpRequests), transfers, InQueue(replies),
          InQueue(httpReplies), answered, lost)

QueuesOnce ==
    /\ NoRepeat(requests) /\ NoRepeat(httpRequests)
    /\ NoRepeat(replies) /\ NoRepeat(httpReplies)

AskedIs ==
    asked = InQueue(requests) \cup InQueue(httpRequests) \cup transfers
            \cup InQueue(replies) \cup InQueue(httpReplies) \cup answered \cup lost

Counted ==
    Len(requests) + Len(httpRequests) + Len(replies) + Len(httpReplies)
        + Cardinality(transfers) + Cardinality(answered) + Cardinality(lost)
            = Cardinality(asked)

PlaceInv == PlacesApart /\ QueuesOnce /\ AskedIs /\ Counted

\* NoLostWakeup, wherever the threads are: a thread that has not started yet,
\* or that is about to wake the main loop, is not past the wake-up either.
LoginWoken ==
    loginThread \in {"starting", "waiting"} /\ requests # <<>>
        => "login" \in woken \cup dropped \/ main = "wakeLogin"
HttpWoken ==
    httpThread \notin {"busy", "ended"} /\ httpRequests # <<>>
        => \/ "http" \in woken \cup dropped
           \/ main = "wakeHttp" \/ loginThread = "waking"
           \/ "http" \notin running
ServerWoken ==
    ServerLoop /\ main # "logins" /\ replies # <<>>
        => "server" \in woken \/ httpThread = "wakeServer"
PagesWoken ==
    ServerLoop /\ main # "pages" /\ httpReplies # <<>>
        => "server_http" \in woken \/ httpThread = "wakePages"

WakeInv == LoginWoken /\ HttpWoken /\ ServerWoken /\ PagesWoken

\* StopIsSeen, along the stop: what is cleared stays so, and who was joined has
\* ended.
Stopping == main \in {"stopHttp", "joinHttp", "stopLogin", "joinLogin", "done"}
StopInv ==
    /\ StopIsSeen
    /\ Stopping => "http" \notin running
    /\ main \in {"stopLogin", "joinLogin", "done"} => "login" \notin running

RequestInv == TypeOK /\ PlaceInv /\ WakeInv /\ StopInv

LEMMA InOnePlaceFrom == PlaceInv => InOnePlace
<1>1. UNION Places =
        InQueue(requests) \cup InQueue(httpRequests) \cup transfers
        \cup InQueue(replies) \cup InQueue(httpReplies) \cup answered \cup lost
  BY DEF Places, Waiting
<1> QED
  BY <1>1 DEF PlaceInv, AskedIs, Counted, InOnePlace

LEMMA RequestsFrom == RequestInv => RequestsOK
<1>1. WakeInv => NoLostWakeup
  BY DEF WakeInv, LoginWoken, HttpWoken, ServerWoken, PagesWoken, NoLostWakeup,
         ServerLoop
<1> QED
  BY <1>1, InOnePlaceFrom DEF RequestInv, RequestsOK, StopInv

-----------------------------------------------------------------------------
(* Each step keeps it *)

LEMMA Sizes ==
    ASSUME TypeOK
    PROVE  /\ IsFiniteSet(asked) /\ Cardinality(asked) \in Nat
           /\ IsFiniteSet(transfers) /\ Cardinality(transfers) \in Nat
           /\ IsFiniteSet(answered) /\ Cardinality(answered) \in Nat
           /\ IsFiniteSet(lost) /\ Cardinality(lost) \in Nat
           /\ Len(requests) \in Nat /\ Len(httpRequests) \in Nat
           /\ Len(replies) \in Nat /\ Len(httpReplies) \in Nat
<1>1. \A s : s \subseteq Request => IsFiniteSet(s) /\ Cardinality(s) \in Nat
  BY RequestAssumption, FS_Subset, FS_CardinalityType DEF Request
<1>2. /\ asked \subseteq Request /\ transfers \subseteq Request
      /\ answered \subseteq Request /\ lost \subseteq Request
  BY DEF TypeOK
<1>3. /\ Len(requests) \in Nat /\ Len(httpRequests) \in Nat
      /\ Len(replies) \in Nat /\ Len(httpReplies) \in Nat
  BY DEF TypeOK
<1> QED BY <1>1, <1>2, <1>3

LEMMA TypeStep == TypeOK /\ [Next]_vars => TypeOK'
<1> SUFFICES ASSUME TypeOK, [Next]_vars PROVE TypeOK'
  OBVIOUS
<1> USE DEF TypeOK, Main, Thread, Loops, Request, queues, history
<1>1. ASSUME NEW r \in Request,
             AddLogin(r) \/ RefuseLogin(r) \/ AddPage(r) \/ RefusePage(r)
      PROVE  TypeOK'
  <2>1. CASE AddLogin(r)
    BY <2>1, SlotAssumption, AppendFacts DEF AddLogin
  <2>2. CASE RefuseLogin(r)
    BY <2>2 DEF RefuseLogin
  <2>3. CASE AddPage(r)
    BY <2>3, AppendFacts DEF AddPage
  <2>4. CASE RefusePage(r)
    BY <2>4 DEF RefusePage
  <2> QED BY <1>1, <2>1, <2>2, <2>3, <2>4
<1>2. CASE MainServes
  <2>1. CASE WakeLogin
    BY <2>1 DEF WakeLogin, Wake
  <2>2. CASE WakeHttp
    BY <2>2 DEF WakeHttp, SendWakeup, Wake
  <2>3. CASE ServerWakes
    BY <2>3 DEF ServerWakes
  <2>4. CASE TakeReply
    BY <2>4, TailFacts DEF TakeReply
  <2>5. CASE TakePage
    BY <2>5, TailFacts DEF TakePage
  <2>6. CASE RepliesTaken
    BY <2>6 DEF RepliesTaken
  <2> QED BY <1>2, <2>1, <2>2, <2>3, <2>4, <2>5, <2>6 DEF MainServes
<1>3. CASE Leave \/ MainStops
  BY <1>3 DEF Leave, MainStops, StopHttp, WakeStopped, JoinHttp, JoinLogin
<1>4. CASE LoginRuns
  <2>1. CASE LoginStarts \/ LoginWakes \/ LoginDone
    BY <2>1 DEF LoginStarts, LoginWakes, LoginDone
  <2>2. CASE Forward
    <3>1. /\ requests # <<>> /\ Head(requests) \in Login
          /\ Tail(requests) \in Seq(Login) /\ Len(Tail(requests)) <= MaxLoginSlots
      BY <2>2, SlotAssumption, TailFacts DEF Forward
    <3>2. Append(httpRequests, Head(requests)) \in Seq(Request)
      BY <3>1, AppendFacts
    <3> QED BY <2>2, <3>1, <3>2 DEF Forward
  <2>3. CASE LoginWakesHttp
    BY <2>3 DEF LoginWakesHttp, SendWakeup, Wake
  <2> QED BY <1>4, <2>1, <2>2, <2>3 DEF LoginRuns
<1>5. CASE HttpRuns
  <2>1. CASE HttpStarts \/ HttpWakes \/ HttpDone
    BY <2>1 DEF HttpStarts, HttpWakes, HttpDone
  <2>2. CASE ProcessRequest
    BY <2>2, TailFacts DEF ProcessRequest
  <2>3. CASE WakeServer
    BY <2>3 DEF WakeServer
  <2> QED BY <1>5, <2>1, <2>2, <2>3 DEF HttpRuns
<1>6. ASSUME NEW r \in Request, ResponseDone(r) PROVE TypeOK'
  <2>1. r \in Login => Append(replies, r) \in Seq(Login)
    BY AppendFacts
  <2>2. r \notin Login => Append(httpReplies, r) \in Seq(Page)
    BY AppendFacts
  <2> QED BY <1>6, <2>1, <2>2 DEF ResponseDone
<1>7. CASE UNCHANGED vars
  BY <1>7 DEF vars
<1> QED
  BY <1>1, <1>2, <1>3, <1>4, <1>5, <1>6, <1>7 DEF Next, Responds

LEMMA WakeStep == TypeOK /\ WakeInv /\ [Next]_vars => WakeInv'
<1> SUFFICES ASSUME TypeOK, WakeInv, [Next]_vars PROVE WakeInv'
  OBVIOUS
<1> USE DEF WakeInv, LoginWoken, HttpWoken, ServerWoken, PagesWoken, ServerLoop,
            queues, history
<1>1. ASSUME NEW r \in Request,
             AddLogin(r) \/ RefuseLogin(r) \/ AddPage(r) \/ RefusePage(r)
      PROVE  WakeInv'
  BY <1>1 DEF AddLogin, RefuseLogin, AddPage, RefusePage
<1>2. CASE MainServes
  <2>1. CASE WakeLogin
    BY <2>1 DEF WakeLogin, Wake
  <2>2. CASE WakeHttp
    BY <2>2 DEF WakeHttp, SendWakeup, Wake
  <2>3. CASE ServerWakes
    BY <2>3 DEF ServerWakes
  <2>4. CASE TakeReply \/ TakePage \/ RepliesTaken
    BY <2>4 DEF TakeReply, TakePage, RepliesTaken
  <2> QED BY <1>2, <2>1, <2>2, <2>3, <2>4 DEF MainServes
<1>3. CASE Leave
  BY <1>3 DEF Leave
<1>4. CASE MainStops
  BY <1>4 DEF MainStops, StopHttp, WakeStopped, JoinHttp, JoinLogin
<1>5. CASE LoginRuns
  <2>1. CASE LoginStarts \/ LoginWakes \/ LoginDone
    BY <2>1 DEF LoginStarts, LoginWakes, LoginDone
  <2>2. CASE Forward
    BY <2>2 DEF Forward
  <2>3. CASE LoginWakesHttp
    BY <2>3 DEF LoginWakesHttp, SendWakeup, Wake
  <2> QED BY <1>5, <2>1, <2>2, <2>3 DEF LoginRuns
<1>6. CASE HttpRuns
  <2>1. CASE HttpStarts \/ HttpWakes \/ HttpDone
    BY <2>1 DEF HttpStarts, HttpWakes, HttpDone
  <2>2. CASE ProcessRequest
    BY <2>2 DEF ProcessRequest
  <2>3. CASE WakeServer
    BY <2>3 DEF WakeServer
  <2> QED BY <1>6, <2>1, <2>2, <2>3 DEF HttpRuns
<1>7. ASSUME NEW r \in Request, ResponseDone(r) PROVE WakeInv'
  BY <1>7 DEF ResponseDone
<1>8. CASE UNCHANGED vars
  BY <1>8 DEF vars
<1> QED
  BY <1>1, <1>2, <1>3, <1>4, <1>5, <1>6, <1>7, <1>8 DEF Next, Responds

LEMMA StopStep == TypeOK /\ StopInv /\ [Next]_vars => StopInv'
<1> SUFFICES ASSUME TypeOK, StopInv, [Next]_vars PROVE StopInv'
  OBVIOUS
<1> USE DEF StopInv, StopIsSeen, Stopping, queues, history
<1>1. ASSUME NEW r \in Request,
             AddLogin(r) \/ RefuseLogin(r) \/ AddPage(r) \/ RefusePage(r)
      PROVE  StopInv'
  BY <1>1 DEF AddLogin, RefuseLogin, AddPage, RefusePage
<1>2. CASE MainServes
  BY <1>2 DEF MainServes, WakeLogin, WakeHttp, ServerWakes, TakeReply, TakePage,
              RepliesTaken
<1>3. CASE Leave
  BY <1>3 DEF Leave
<1>4. CASE MainStops
  BY <1>4 DEF MainStops, StopHttp, WakeStopped, JoinHttp, JoinLogin
<1>5. CASE LoginRuns
  <2>1. CASE LoginStarts \/ LoginWakes \/ LoginDone \/ Forward
    BY <2>1 DEF LoginStarts, LoginWakes, LoginDone, Forward
  <2>2. CASE LoginWakesHttp
    BY <2>2 DEF LoginWakesHttp, SendWakeup, Wake
  <2> QED BY <1>5, <2>1, <2>2 DEF LoginRuns
<1>6. CASE HttpRuns
  BY <1>6 DEF HttpRuns, HttpStarts, HttpWakes, HttpDone, ProcessRequest, WakeServer
<1>7. ASSUME NEW r \in Request, ResponseDone(r) PROVE StopInv'
  BY <1>7 DEF ResponseDone
<1>8. CASE UNCHANGED vars
  BY <1>8 DEF vars
<1> QED
  BY <1>1, <1>2, <1>3, <1>4, <1>5, <1>6, <1>7, <1>8 DEF Next, Responds

\* A request that is taken on is nowhere yet, and goes into a queue.
LEMMA AskStep ==
    ASSUME TypeOK, PlaceInv, NEW r \in Request, AddLogin(r) \/ AddPage(r)
    PROVE  PlaceInv'
<1>1. /\ r \notin asked /\ asked' = asked \cup {r} /\ UNCHANGED <<transfers, replies,
             httpReplies, answered, lost>>
      /\ \/ /\ r \in Login /\ requests' = Append(requests, r)
            /\ UNCHANGED httpRequests
         \/ /\ r \in Page /\ httpRequests' = Append(httpRequests, r)
            /\ UNCHANGED requests
  BY DEF AddLogin, AddPage, Unasked
<1>2. r \notin InQueue(requests) /\ r \notin InQueue(httpRequests)
  BY <1>1 DEF PlaceInv, AskedIs
<1>3. Cardinality(asked') = Cardinality(asked) + 1
  BY <1>1, Sizes, FS_AddElement
<1>4. CASE requests' = Append(requests, r) /\ UNCHANGED httpRequests /\ r \in Login
  <2>1. /\ InQueue(requests') = InQueue(requests) \cup {r}
        /\ Len(requests') = Len(requests) + 1 /\ NoRepeat(requests')
    BY <1>2, <1>4, AppendFacts DEF TypeOK, PlaceInv, QueuesOnce
  <2>2. PlacesApart' /\ AskedIs' /\ QueuesOnce'
    BY <1>1, <1>4, <2>1 DEF PlaceInv, PlacesApart, Apart, AskedIs, QueuesOnce
  <2>3. Counted'
    BY <1>1, <1>3, <1>4, <2>1, Sizes DEF PlaceInv, Counted
  <2> QED BY <2>2, <2>3 DEF PlaceInv
<1>5. CASE httpRequests' = Append(httpRequests, r) /\ UNCHANGED requests
  <2>1. /\ InQueue(httpRequests') = InQueue(httpRequests) \cup {r}
        /\ Len(httpRequests') = Len(httpRequests) + 1 /\ NoRepeat(httpRequests')
    BY <1>2, <1>5, AppendFacts DEF TypeOK, PlaceInv, QueuesOnce
  <2>2. PlacesApart' /\ AskedIs' /\ QueuesOnce'
    BY <1>1, <1>5, <2>1 DEF PlaceInv, PlacesApart, Apart, AskedIs, QueuesOnce
  <2>3. Counted'
    BY <1>1, <1>3, <1>5, <2>1, Sizes DEF PlaceInv, Counted
  <2> QED BY <2>2, <2>3 DEF PlaceInv
<1> QED BY <1>1, <1>4, <1>5

LEMMA ForwardStep ==
    ASSUME TypeOK, PlaceInv, Forward PROVE PlaceInv'
<1> DEFINE r == Head(requests)
<1>1. /\ requests # <<>> /\ requests' = Tail(requests)
      /\ UNCHANGED <<asked, transfers, replies, httpReplies, answered>>
      /\ \/ httpRequests' = Append(httpRequests, r) /\ UNCHANGED lost
         \/ lost' = lost \cup {r} /\ UNCHANGED httpRequests
  BY DEF Forward
<1>2. /\ r \in InQueue(requests) /\ r \in Login
      /\ InQueue(requests) = InQueue(requests') \cup {r} /\ r \notin InQueue(requests')
      /\ Len(requests') = Len(requests) - 1 /\ NoRepeat(requests')
  BY <1>1, TailFacts DEF TypeOK, PlaceInv, QueuesOnce
<1>3. r \notin InQueue(httpRequests) /\ r \notin lost
  BY <1>2 DEF PlaceInv, PlacesApart, Apart
<1> HIDE DEF r
<1>4. CASE httpRequests' = Append(httpRequests, r) /\ UNCHANGED lost
  <2>1. /\ InQueue(httpRequests') = InQueue(httpRequests) \cup {r}
        /\ Len(httpRequests') = Len(httpRequests) + 1 /\ NoRepeat(httpRequests')
    BY <1>2, <1>3, <1>4, AppendFacts DEF TypeOK, PlaceInv, QueuesOnce, Request
  <2>2. PlacesApart'
    BY <1>1, <1>2, <1>4, <2>1 DEF PlaceInv, PlacesApart, Apart
  <2>3. AskedIs' /\ QueuesOnce'
    BY <1>1, <1>2, <1>4, <2>1 DEF PlaceInv, AskedIs, QueuesOnce
  <2>4. Counted'
    BY <1>1, <1>2, <1>4, <2>1, Sizes DEF PlaceInv, Counted
  <2> QED BY <2>2, <2>3, <2>4 DEF PlaceInv
<1>5. CASE lost' = lost \cup {r} /\ UNCHANGED httpRequests
  <2>1. Cardinality(lost') = Cardinality(lost) + 1
    BY <1>3, <1>5, Sizes, FS_AddElement
  <2>2. PlacesApart'
    BY <1>1, <1>2, <1>5 DEF PlaceInv, PlacesApart, Apart
  <2>3. AskedIs' /\ QueuesOnce'
    BY <1>1, <1>2, <1>5 DEF PlaceInv, AskedIs, QueuesOnce
  <2>4. Counted'
    BY <1>1, <1>2, <1>5, <2>1, Sizes DEF PlaceInv, Counted
  <2> QED BY <2>2, <2>3, <2>4 DEF PlaceInv
<1> QED BY <1>1, <1>4, <1>5

LEMMA ProcessStep ==
    ASSUME TypeOK, PlaceInv, ProcessRequest PROVE PlaceInv'
<1> DEFINE r == Head(httpRequests)
<1>1. /\ httpRequests # <<>> /\ httpRequests' = Tail(httpRequests)
      /\ UNCHANGED <<asked, requests, replies, httpReplies, answered>>
      /\ \/ transfers' = transfers \cup {r} /\ UNCHANGED lost
         \/ lost' = lost \cup {r} /\ UNCHANGED transfers
  BY DEF ProcessRequest
<1>2. /\ r \in InQueue(httpRequests)
      /\ InQueue(httpRequests) = InQueue(httpRequests') \cup {r}
      /\ r \notin InQueue(httpRequests')
      /\ Len(httpRequests') = Len(httpRequests) - 1 /\ NoRepeat(httpRequests')
  BY <1>1, TailFacts DEF TypeOK, PlaceInv, QueuesOnce
<1>3. r \notin transfers /\ r \notin lost
  BY <1>2 DEF PlaceInv, PlacesApart, Apart
<1> HIDE DEF r
<1>4. \/ Cardinality(transfers') = Cardinality(transfers) + 1 /\ lost' = lost
      \/ Cardinality(lost') = Cardinality(lost) + 1 /\ transfers' = transfers
  BY <1>1, <1>3, Sizes, FS_AddElement
<1>5. PlacesApart'
  BY <1>1, <1>2 DEF PlaceInv, PlacesApart, Apart
<1>6. AskedIs' /\ QueuesOnce'
  BY <1>1, <1>2 DEF PlaceInv, AskedIs, QueuesOnce
<1>7. Counted'
  <2>1. CASE Cardinality(transfers') = Cardinality(transfers) + 1 /\ lost' = lost
    BY <1>1, <1>2, <2>1, Sizes DEF PlaceInv, Counted
  <2>2. CASE Cardinality(lost') = Cardinality(lost) + 1 /\ transfers' = transfers
    BY <1>1, <1>2, <2>2, Sizes DEF PlaceInv, Counted
  <2> QED BY <1>4, <2>1, <2>2
<1> QED BY <1>5, <1>6, <1>7 DEF PlaceInv

LEMMA ResponseStep ==
    ASSUME TypeOK, PlaceInv, NEW r \in Request, ResponseDone(r) PROVE PlaceInv'
<1>1. /\ r \in transfers /\ transfers' = transfers \ {r}
      /\ UNCHANGED <<asked, requests, httpRequests, answered, lost>>
      /\ \/ /\ r \in Login /\ replies' = Append(replies, r)
            /\ UNCHANGED httpReplies
         \/ /\ r \in Page /\ httpReplies' = Append(httpReplies, r)
            /\ UNCHANGED replies
  BY DEF ResponseDone, Request, history
<1>2. r \notin InQueue(replies) /\ r \notin InQueue(httpReplies)
  BY <1>1 DEF PlaceInv, PlacesApart, Apart
<1>3. Cardinality(transfers') = Cardinality(transfers) - 1
  BY <1>1, Sizes, FS_RemoveElement
<1>4. CASE r \in Login /\ replies' = Append(replies, r) /\ UNCHANGED httpReplies
  <2>1. /\ InQueue(replies') = InQueue(replies) \cup {r}
        /\ Len(replies') = Len(replies) + 1 /\ NoRepeat(replies')
    BY <1>2, <1>4, AppendFacts DEF TypeOK, PlaceInv, QueuesOnce
  <2>2. PlacesApart'
    BY <1>1, <1>4, <2>1 DEF PlaceInv, PlacesApart, Apart
  <2>3. AskedIs' /\ QueuesOnce'
    BY <1>1, <1>4, <2>1 DEF PlaceInv, AskedIs, QueuesOnce
  <2>4. Counted'
    BY <1>1, <1>3, <1>4, <2>1, Sizes DEF PlaceInv, Counted
  <2> QED BY <2>2, <2>3, <2>4 DEF PlaceInv
<1>5. CASE r \in Page /\ httpReplies' = Append(httpReplies, r) /\ UNCHANGED replies
  <2>1. /\ InQueue(httpReplies') = InQueue(httpReplies) \cup {r}
        /\ Len(httpReplies') = Len(httpReplies) + 1 /\ NoRepeat(httpReplies')
    BY <1>2, <1>5, AppendFacts DEF TypeOK, PlaceInv, QueuesOnce
  <2>2. PlacesApart'
    BY <1>1, <1>5, <2>1 DEF PlaceInv, PlacesApart, Apart
  <2>3. AskedIs' /\ QueuesOnce'
    BY <1>1, <1>5, <2>1 DEF PlaceInv, AskedIs, QueuesOnce
  <2>4. Counted'
    BY <1>1, <1>3, <1>5, <2>1, Sizes DEF PlaceInv, Counted
  <2> QED BY <2>2, <2>3, <2>4 DEF PlaceInv
<1> QED BY <1>1, <1>4, <1>5

LEMMA AnswerStep ==
    ASSUME TypeOK, PlaceInv, TakeReply \/ TakePage PROVE PlaceInv'
<1>1. UNCHANGED <<asked, requests, httpRequests, transfers, lost>>
  BY DEF TakeReply, TakePage
<1>2. CASE TakeReply
  <2> DEFINE r == Head(replies)
  <2>1. /\ replies # <<>> /\ replies' = Tail(replies)
        /\ answered' = answered \cup {r} /\ UNCHANGED httpReplies
    BY <1>2 DEF TakeReply
  <2>2. /\ r \in InQueue(replies) /\ InQueue(replies) = InQueue(replies') \cup {r}
        /\ r \notin InQueue(replies')
        /\ Len(replies') = Len(replies) - 1 /\ NoRepeat(replies')
    BY <2>1, TailFacts DEF TypeOK, PlaceInv, QueuesOnce
  <2>3. r \notin answered
    BY <2>2 DEF PlaceInv, PlacesApart, Apart
  <2> HIDE DEF r
  <2>4. Cardinality(answered') = Cardinality(answered) + 1
    BY <2>1, <2>3, Sizes, FS_AddElement
  <2>5. PlacesApart'
    BY <1>1, <2>1, <2>2 DEF PlaceInv, PlacesApart, Apart
  <2>6. AskedIs' /\ QueuesOnce'
    BY <1>1, <2>1, <2>2 DEF PlaceInv, AskedIs, QueuesOnce
  <2>7. Counted'
    BY <1>1, <2>1, <2>2, <2>4, Sizes DEF PlaceInv, Counted
  <2> QED BY <2>5, <2>6, <2>7 DEF PlaceInv
<1>3. CASE TakePage
  <2> DEFINE r == Head(httpReplies)
  <2>1. /\ httpReplies # <<>> /\ httpReplies' = Tail(httpReplies)
        /\ answered' = answered \cup {r} /\ UNCHANGED replies
    BY <1>3 DEF TakePage
  <2>2. /\ r \in InQueue(httpReplies)
        /\ InQueue(httpReplies) = InQueue(httpReplies') \cup {r}
        /\ r \notin InQueue(httpReplies')
        /\ Len(httpReplies') = Len(httpReplies) - 1 /\ NoRepeat(httpReplies')
    BY <2>1, TailFacts DEF TypeOK, PlaceInv, QueuesOnce
  <2>3. r \notin answered
    BY <2>2 DEF PlaceInv, PlacesApart, Apart
  <2> HIDE DEF r
  <2>4. Cardinality(answered') = Cardinality(answered) + 1
    BY <2>1, <2>3, Sizes, FS_AddElement
  <2>5. PlacesApart'
    BY <1>1, <2>1, <2>2 DEF PlaceInv, PlacesApart, Apart
  <2>6. AskedIs' /\ QueuesOnce'
    BY <1>1, <2>1, <2>2 DEF PlaceInv, AskedIs, QueuesOnce
  <2>7. Counted'
    BY <1>1, <2>1, <2>2, <2>4, Sizes DEF PlaceInv, Counted
  <2> QED BY <2>5, <2>6, <2>7 DEF PlaceInv
<1> QED BY <1>2, <1>3

\* The HTTP thread ends and loses what curl was working on.
LEMMA EndStep ==
    ASSUME TypeOK, PlaceInv, HttpWakes PROVE PlaceInv'
<1>1. /\ UNCHANGED <<asked, requests, httpRequests, replies, httpReplies, answered>>
      /\ \/ UNCHANGED <<transfers, lost>>
         \/ transfers' = {} /\ lost' = lost \cup transfers
  BY DEF HttpWakes
<1>2. CASE UNCHANGED <<transfers, lost>>
  BY <1>1, <1>2 DEF PlaceInv, PlacesApart, AskedIs, QueuesOnce, Counted
<1>3. CASE transfers' = {} /\ lost' = lost \cup transfers
  <2>1. Cardinality(lost') = Cardinality(lost) + Cardinality(transfers)
                             - Cardinality(lost \cap transfers)
    BY <1>3, Sizes, FS_Union
  <2>2. lost \cap transfers = {}
    BY DEF PlaceInv, PlacesApart, Apart
  <2>3. Cardinality(lost \cap transfers) = 0 /\ Cardinality(transfers') = 0
    BY <1>3, <2>2, FS_EmptySet
  <2>4. Counted'
    BY <1>1, <2>1, <2>3, Sizes DEF PlaceInv, Counted
  <2>5. PlacesApart' /\ AskedIs' /\ QueuesOnce'
    BY <1>1, <1>3 DEF PlaceInv, PlacesApart, Apart, AskedIs, QueuesOnce
  <2> QED BY <2>4, <2>5 DEF PlaceInv
<1> QED BY <1>1, <1>2, <1>3

\* Every other step leaves the requests where they are.
Rests == UNCHANGED <<queues, asked, answered, lost>>

LEMMA PlaceFrame == PlaceInv /\ Rests => PlaceInv'
BY DEF Rests, queues, PlaceInv, PlacesApart, AskedIs, QueuesOnce, Counted

\* The steps that move a request, and the others.
Moves ==
    \/ \E r \in Request : AddLogin(r) \/ AddPage(r) \/ ResponseDone(r)
    \/ Forward \/ ProcessRequest \/ TakeReply \/ TakePage \/ HttpWakes

LEMMA MovesOrRests == [Next]_vars => Moves \/ Rests
<1> SUFFICES ASSUME [Next]_vars PROVE Moves \/ Rests
  OBVIOUS
<1> USE DEF Rests, queues, history
<1>1. ASSUME NEW r \in Request,
             AddLogin(r) \/ RefuseLogin(r) \/ AddPage(r) \/ RefusePage(r)
      PROVE  Moves \/ Rests
  BY <1>1 DEF Moves, RefuseLogin, RefusePage
<1>2. CASE MainServes
  BY <1>2 DEF Moves, MainServes, WakeLogin, WakeHttp, ServerWakes, RepliesTaken
<1>3. CASE Leave \/ MainStops
  BY <1>3 DEF Leave, MainStops, StopHttp, WakeStopped, JoinHttp, JoinLogin
<1>4. CASE LoginRuns
  BY <1>4 DEF Moves, LoginRuns, LoginStarts, LoginWakes, LoginDone, LoginWakesHttp
<1>5. CASE HttpRuns
  BY <1>5 DEF Moves, HttpRuns, HttpStarts, HttpDone, WakeServer
<1>6. CASE Responds
  BY <1>6 DEF Moves, Responds
<1>7. CASE UNCHANGED vars
  BY <1>7 DEF vars
<1> QED
  BY <1>1, <1>2, <1>3, <1>4, <1>5, <1>6, <1>7 DEF Next

LEMMA PlaceStep == TypeOK /\ PlaceInv /\ [Next]_vars => PlaceInv'
BY MovesOrRests, PlaceFrame, AskStep, ResponseStep, ForwardStep, ProcessStep,
   AnswerStep, EndStep
DEF Moves

LEMMA RequestInit == Init => RequestInv
<1> SUFFICES ASSUME Init PROVE RequestInv
  OBVIOUS
<1>1. TypeOK
  BY SlotAssumption DEF Init, TypeOK, Main, Thread, Loops
<1>2. WakeInv
  BY DEF Init, WakeInv, LoginWoken, HttpWoken, ServerWoken, PagesWoken
<1>3. PlaceInv
  BY EmptyFacts, FS_EmptySet
  DEF Init, PlaceInv, PlacesApart, Apart, QueuesOnce, AskedIs, Counted
<1>4. StopInv
  BY DEF Init, StopInv, StopIsSeen, Stopping
<1> QED BY <1>1, <1>2, <1>3, <1>4 DEF RequestInv

LEMMA RequestInvariant == Spec => []RequestInv
<1>1. RequestInv /\ [Next]_vars => RequestInv'
  BY TypeStep, PlaceStep, WakeStep, StopStep DEF RequestInv
<1> QED
  BY <1>1, RequestInit, PTL DEF Spec

-----------------------------------------------------------------------------
(* The theorems *)

\* Every request that was taken on is in one place only, in one of the four
\* queues, with curl, answered or lost, no thread waits for a wake-up that was
\* sent before it looked, and whoever is joined has ended or will find that it is
\* to (login_evhttp.cpp, http_client.cpp, server.cpp, stopThread).
THEOREM RequestsCorrect == Spec => []RequestsOK
BY RequestInvariant, RequestsFrom, PTL

LEMMA Answers ==
    ASSUME RequestInv, TakeReply \/ TakePage
    PROVE  \E r \in Request : Service!Answer(r)
<1>1. CASE TakeReply
  <2>1. Head(replies) \in Request /\ Head(replies) \in InQueue(replies)
    BY <1>1, TailFacts DEF TakeReply, RequestInv, TypeOK, Request
  <2>2. Head(replies) \in asked \ (answered \cup lost)
    BY <2>1 DEF RequestInv, PlaceInv, AskedIs, PlacesApart, Apart
  <2> QED BY <1>1, <2>1, <2>2 DEF TakeReply, Service!Answer, Service!Pending
<1>2. CASE TakePage
  <2>1. Head(httpReplies) \in Request /\ Head(httpReplies) \in InQueue(httpReplies)
    BY <1>2, TailFacts DEF TakePage, RequestInv, TypeOK, Request
  <2>2. Head(httpReplies) \in asked \ (answered \cup lost)
    BY <2>1 DEF RequestInv, PlaceInv, AskedIs, PlacesApart, Apart
  <2> QED BY <1>2, <2>1, <2>2 DEF TakePage, Service!Answer, Service!Pending
<1> QED BY <1>1, <1>2

\* What is lost was owed an answer until then.
LEMMA Loses ==
    ASSUME RequestInv, UNCHANGED <<asked, answered>>,
           NEW some, lost' = lost \cup some,
           some \subseteq InQueue(requests) \/ some \subseteq InQueue(httpRequests)
               \/ some \subseteq transfers
    PROVE  [Service!Next]_Service!vars
<1>1. some \subseteq asked \ (answered \cup lost)
  BY DEF RequestInv, PlaceInv, AskedIs, PlacesApart, Apart
<1>2. CASE some = {}
  BY <1>2 DEF Service!vars
<1>3. CASE some # {}
  BY <1>1, <1>3 DEF Service!Next, Service!Lose, Service!Pending
<1> QED BY <1>2, <1>3

LEMMA ServiceStep == RequestInv /\ [Next]_vars => [Service!Next]_Service!vars
<1> SUFFICES ASSUME RequestInv, [Next]_vars PROVE [Service!Next]_Service!vars
  OBVIOUS
<1>1. CASE Rests
  BY <1>1 DEF Rests, Service!vars
<1>2. ASSUME NEW r \in Request, AddLogin(r) \/ AddPage(r)
      PROVE  Service!Next
  BY <1>2 DEF AddLogin, AddPage, Unasked, Service!Next, Service!Ask
<1>3. ASSUME NEW r \in Request, ResponseDone(r)
      PROVE  UNCHANGED Service!vars
  BY <1>3 DEF ResponseDone, history, Service!vars
<1>4. CASE TakeReply \/ TakePage
  BY <1>4, Answers DEF Service!Next
<1>5. CASE Forward
  <2>1. /\ requests # <<>> /\ UNCHANGED <<asked, answered>>
        /\ lost' = lost \/ lost' = lost \cup {Head(requests)}
    BY <1>5 DEF Forward
  <2>2. {Head(requests)} \subseteq InQueue(requests)
    BY <2>1, TailFacts DEF RequestInv, TypeOK
  <2> QED BY <2>1, <2>2, Loses DEF Service!vars
<1>6. CASE ProcessRequest
  <2>1. /\ httpRequests # <<>> /\ UNCHANGED <<asked, answered>>
        /\ lost' = lost \/ lost' = lost \cup {Head(httpRequests)}
    BY <1>6 DEF ProcessRequest
  <2>2. {Head(httpRequests)} \subseteq InQueue(httpRequests)
    BY <2>1, TailFacts DEF RequestInv, TypeOK
  <2> QED BY <2>1, <2>2, Loses DEF Service!vars
<1>7. CASE HttpWakes
  <2>1. /\ UNCHANGED <<asked, answered>>
        /\ lost' = lost \/ lost' = lost \cup transfers
    BY <1>7 DEF HttpWakes
  <2> QED BY <2>1, Loses DEF Service!vars
<1> QED
  BY <1>1, <1>2, <1>3, <1>4, <1>5, <1>6, <1>7, MovesOrRests DEF Moves

\* The threads together implement RequestReply: each step takes on one
\* request, answers one that is owed an answer, loses some, or is a stutter;
\* so no request is answered twice, or answered after it was lost.
THEOREM ServiceImplemented == Spec => ImplementsRequestReply
<1>1. Init => Service!Init
  BY DEF Init, Service!Init
<1> QED
  BY <1>1, RequestInvariant, ServiceStep, PTL
  DEF Spec, ImplementsRequestReply, Service!Spec

-----------------------------------------------------------------------------
(* The stop comes to its end *)

\* What is left to do once the main thread has left its loop: the steps of each
\* thread from where it is, of each request from where it is, and the wake-ups.
MainLeft ==
    CASE main = "left" -> 9 [] main = "stopHttp" -> 8 [] main = "joinHttp" -> 5
      [] main = "stopLogin" -> 4 [] main = "joinLogin" -> 1 [] OTHER -> 0
LoginLeft ==
    CASE loginThread = "waking" -> 4 [] loginThread \in {"starting", "busy"} -> 1
      [] OTHER -> 0
HttpLeft ==
    IF httpThread \in {"starting", "busy", "wakeServer", "wakePages"} THEN 1 ELSE 0
Pending(loop) == IF loop \in woken THEN 2 ELSE 0

ThreadsLeft == MainLeft + LoginLeft + HttpLeft + Pending("login") + Pending("http")

StepsLeft ==
    7 * Len(requests) + 3 * Len(httpRequests) + 2 * Cardinality(transfers) + ThreadsLeft

\* What is left to do is counted in natural numbers.
LEMMA LeftIsNat ==
    ASSUME TypeOK, TypeOK'
    PROVE  /\ Len(requests) \in Nat /\ Len(requests') \in Nat
           /\ Len(httpRequests) \in Nat /\ Len(httpRequests') \in Nat
           /\ Cardinality(transfers) \in Nat /\ Cardinality(transfers') \in Nat
           /\ ThreadsLeft \in Nat /\ ThreadsLeft' \in Nat
<1>1. Len(requests) \in Nat /\ Len(httpRequests) \in Nat /\ Cardinality(transfers) \in Nat
  BY Sizes
<1>2. Len(requests') \in Nat /\ Len(httpRequests') \in Nat
  BY DEF TypeOK
<1>3. Cardinality(transfers') \in Nat
  <2>1. transfers' \subseteq Request /\ IsFiniteSet(Request)
    BY RequestAssumption DEF TypeOK, Request
  <2> QED BY <2>1, FS_Subset, FS_CardinalityType
<1>4. ThreadsLeft \in Nat
  <2>1. /\ MainLeft \in Nat /\ LoginLeft \in Nat /\ HttpLeft \in Nat
        /\ Pending("login") \in Nat /\ Pending("http") \in Nat
    BY DEF MainLeft, LoginLeft, HttpLeft, Pending
  <2> QED BY <2>1 DEF ThreadsLeft
<1>5. ThreadsLeft' \in Nat
  <2>1. /\ MainLeft' \in Nat /\ LoginLeft' \in Nat /\ HttpLeft' \in Nat
        /\ Pending("login")' \in Nat /\ Pending("http")' \in Nat
    BY DEF MainLeft, LoginLeft, HttpLeft, Pending
  <2> QED BY <2>1 DEF ThreadsLeft
<1> QED BY <1>1, <1>2, <1>3, <1>4, <1>5

\* After the loop a step of a thread that leaves the queues alone, and a request
\* that goes on to its next place, leave less to do.
Goes ==
    \/ /\ Len(requests') = Len(requests) /\ Len(httpRequests') = Len(httpRequests)
       /\ Cardinality(transfers') <= Cardinality(transfers) /\ ThreadsLeft' < ThreadsLeft
    \/ /\ Len(requests') = Len(requests) - 1 /\ Cardinality(transfers') = Cardinality(transfers)
       /\ \/ Len(httpRequests') = Len(httpRequests) + 1 /\ ThreadsLeft' = ThreadsLeft + 3
          \/ Len(httpRequests') = Len(httpRequests) /\ ThreadsLeft' = ThreadsLeft
    \/ /\ Len(requests') = Len(requests) /\ Len(httpRequests') = Len(httpRequests) - 1
       /\ Cardinality(transfers') <= Cardinality(transfers) + 1 /\ ThreadsLeft' = ThreadsLeft
    \/ /\ Len(requests') = Len(requests) /\ Len(httpRequests') = Len(httpRequests)
       /\ Cardinality(transfers') = Cardinality(transfers) - 1
       /\ ThreadsLeft' = ThreadsLeft + 1

LEMMA GoesShrinks ==
    ASSUME TypeOK, TypeOK', Goes
    PROVE  StepsLeft' \in Nat /\ StepsLeft' < StepsLeft
<1> DEFINE a == Len(requests)
           b == Len(httpRequests)
           c == Cardinality(transfers)
           a1 == Len(requests')
           b1 == Len(httpRequests')
           c1 == Cardinality(transfers')
           t == ThreadsLeft
           t1 == ThreadsLeft'
<1>1. /\ a \in Nat /\ b \in Nat /\ c \in Nat /\ t \in Nat
      /\ a1 \in Nat /\ b1 \in Nat /\ c1 \in Nat /\ t1 \in Nat
  BY LeftIsNat
<1>2. \/ a1 = a /\ b1 = b /\ c1 <= c /\ t1 < t
      \/ a1 = a - 1 /\ c1 = c /\ ((b1 = b + 1 /\ t1 = t + 3) \/ (b1 = b /\ t1 = t))
      \/ a1 = a /\ b1 = b - 1 /\ c1 <= c + 1 /\ t1 = t
      \/ a1 = a /\ b1 = b /\ c1 = c - 1 /\ t1 = t + 1
  BY DEF Goes
<1>3. StepsLeft = 7 * a + 3 * b + 2 * c + t /\ StepsLeft' = 7 * a1 + 3 * b1 + 2 * c1 + t1
  BY DEF StepsLeft
<1> HIDE DEF a, b, c, t, a1, b1, c1, t1
<1>4. 7 * a1 + 3 * b1 + 2 * c1 + t1 \in Nat
  BY <1>1
<1>5. 7 * a1 + 3 * b1 + 2 * c1 + t1 < 7 * a + 3 * b + 2 * c + t
  BY <1>1, <1>2
<1> QED BY <1>3, <1>4, <1>5

\* A step in which only threads move, and one moves on.
LEMMA ThreadGoes ==
    ASSUME TypeOK, TypeOK', Rests, ThreadsLeft' < ThreadsLeft
    PROVE  Goes
BY LeftIsNat DEF Rests, queues, Goes

\* Whatever is in the queues, with curl and on its way when the server's loop ends,
\* and however the threads interleave: every step from then on leaves less to do.
\* So only finitely many are left, none of them leads back, and as who is joined is
\* woken (StopIsSeen), they end with both threads joined (main.cpp, stopThread).
THEOREM ShutdownShrinks ==
    Spec => [][~ServerLoop => ~ServerLoop' /\ StepsLeft' \in Nat /\ StepsLeft' < StepsLeft]_vars
<1>1. ASSUME TypeOK, TypeOK', ~ServerLoop, [Next]_vars, ~UNCHANGED vars
      PROVE  ~ServerLoop' /\ StepsLeft' \in Nat /\ StepsLeft' < StepsLeft
  <2>1. main \in {"left", "stopHttp", "joinHttp", "stopLogin", "joinLogin", "done"}
    BY <1>1 DEF TypeOK, Main, ServerLoop
  <2> DEFINE Ends == ~ServerLoop' /\ Goes
  <2>2. ASSUME MainStops PROVE Ends
    <3>1. ~ServerLoop' /\ MainLeft' + Pending("login")' + Pending("http")'
                < MainLeft + Pending("login") + Pending("http")
          /\ LoginLeft' = LoginLeft /\ HttpLeft' = HttpLeft
      BY <2>2
      DEF MainStops, StopHttp, WakeStopped, JoinHttp, JoinLogin, Pending, MainLeft,
          LoginLeft, HttpLeft, ServerLoop
    <3>2. ThreadsLeft' < ThreadsLeft
      BY <3>1 DEF ThreadsLeft, Pending, MainLeft, LoginLeft, HttpLeft
    <3>3. Rests
      BY <2>2
      DEF MainStops, StopHttp, WakeStopped, JoinHttp, JoinLogin, Rests, queues, history
    <3> QED BY <1>1, <3>1, <3>2, <3>3, ThreadGoes
  <2>3. ASSUME LoginStarts \/ LoginWakes \/ LoginWakesHttp \/ LoginDone PROVE Ends
    <3>1. ~ServerLoop' /\ ThreadsLeft' < ThreadsLeft
      BY <1>1, <2>3
      DEF LoginStarts, LoginWakes, LoginWakesHttp, LoginDone, SendWakeup, Wake, ThreadsLeft,
          Pending, MainLeft, LoginLeft, HttpLeft, ServerLoop
    <3>2. Rests
      BY <2>3 DEF LoginStarts, LoginWakes, LoginWakesHttp, LoginDone, Rests, queues, history
    <3> QED BY <1>1, <3>1, <3>2, ThreadGoes
  <2>4. ASSUME HttpStarts \/ HttpDone \/ WakeServer PROVE Ends
    <3>1. ~ServerLoop' /\ ThreadsLeft' < ThreadsLeft
      BY <1>1, <2>4
      DEF HttpStarts, HttpDone, WakeServer, ThreadsLeft, Pending, MainLeft, LoginLeft,
          HttpLeft, ServerLoop
    <3>2. Rests
      BY <2>4 DEF HttpStarts, HttpDone, WakeServer, Rests, queues, history
    <3> QED BY <1>1, <3>1, <3>2, ThreadGoes
  <2>5. ASSUME HttpWakes PROVE Ends
    <3>1. ~ServerLoop' /\ ThreadsLeft' < ThreadsLeft
      BY <1>1, <2>5
      DEF HttpWakes, ThreadsLeft, Pending, MainLeft, LoginLeft, HttpLeft, ServerLoop
    <3>2. transfers' = transfers \/ transfers' = {}
      BY <2>5 DEF HttpWakes
    <3>3. Cardinality(transfers') <= Cardinality(transfers)
      <4>1. Cardinality(transfers) \in Nat
        BY <1>1, Sizes
      <4>2. CASE transfers' = transfers
        BY <4>1, <4>2
      <4>3. CASE transfers' = {}
        <5>1. Cardinality(transfers') = 0
          BY <4>3, FS_EmptySet
        <5> QED BY <4>1, <5>1
      <4> QED BY <3>2, <4>2, <4>3
    <3> QED BY <2>5, <3>1, <3>3 DEF HttpWakes, Goes
  <2>6. ASSUME Forward PROVE Ends
    <3>1. Len(requests') = Len(requests) - 1 /\ transfers' = transfers /\ ~ServerLoop'
      BY <1>1, <2>6, TailFacts DEF Forward, TypeOK, ServerLoop
    <3>2. ASSUME httpRequests' = Append(httpRequests, Head(requests)), loginThread' = "waking"
          PROVE  Len(httpRequests') = Len(httpRequests) + 1 /\ ThreadsLeft' = ThreadsLeft + 3
      <4>1. Head(requests) \in Request
        BY <1>1, <2>6, TailFacts DEF Forward, TypeOK, Request
      <4>2. Len(httpRequests') = Len(httpRequests) + 1
        BY <1>1, <3>2, <4>1, AppendFacts DEF TypeOK
      <4>3. ThreadsLeft' = ThreadsLeft + 3
        BY <2>6, <3>2 DEF Forward, ThreadsLeft, Pending, MainLeft, LoginLeft, HttpLeft
      <4> QED BY <4>2, <4>3
    <3>3. ASSUME UNCHANGED <<httpRequests, loginThread>>
          PROVE  Len(httpRequests') = Len(httpRequests) /\ ThreadsLeft' = ThreadsLeft
      BY <2>6, <3>3 DEF Forward, ThreadsLeft, Pending, MainLeft, LoginLeft, HttpLeft
    <3> QED BY <2>6, <3>1, <3>2, <3>3 DEF Forward, Goes
  <2>7. ASSUME ProcessRequest PROVE Ends
    <3>1. /\ Len(requests') = Len(requests) /\ Len(httpRequests') = Len(httpRequests) - 1
          /\ ThreadsLeft' = ThreadsLeft /\ ~ServerLoop'
      BY <1>1, <2>7, TailFacts
      DEF ProcessRequest, TypeOK, ThreadsLeft, Pending, MainLeft, LoginLeft, HttpLeft,
          ServerLoop
    <3>2. Cardinality(transfers') <= Cardinality(transfers) + 1
      <4>1. IsFiniteSet(transfers) /\ Cardinality(transfers) \in Nat
        BY <1>1, Sizes
      <4>2. PICK r : transfers' = transfers \cup {r} \/ transfers' = transfers
        BY <2>7 DEF ProcessRequest
      <4>3. Cardinality(transfers \cup {r}) \in {Cardinality(transfers), Cardinality(transfers) + 1}
        BY <4>1, FS_AddElement
      <4>4. Cardinality(transfers') \in {Cardinality(transfers), Cardinality(transfers) + 1}
        BY <4>2, <4>3
      <4> QED BY <4>1, <4>4
    <3> QED BY <3>1, <3>2 DEF Goes
  <2>8. ASSUME NEW r \in Request, ResponseDone(r)
        PROVE  Ends
    <3>1. /\ Len(requests') = Len(requests) /\ Len(httpRequests') = Len(httpRequests)
          /\ ThreadsLeft' = ThreadsLeft + 1 /\ ~ServerLoop'
      BY <1>1, <2>8
      DEF ResponseDone, ThreadsLeft, Pending, MainLeft, LoginLeft, HttpLeft, ServerLoop
    <3>2. Cardinality(transfers') = Cardinality(transfers) - 1
      <4>1. IsFiniteSet(transfers) /\ r \in transfers /\ transfers' = transfers \ {r}
        BY <1>1, <2>8, Sizes DEF ResponseDone
      <4> QED BY <4>1, FS_RemoveElement
    <3> QED BY <3>1, <3>2 DEF Goes
  <2>9. Ends
    <3>1. ASSUME MainServes \/ Leave PROVE FALSE
      BY <2>1, <3>1
      DEF MainServes, WakeLogin, WakeHttp, ServerWakes, TakeReply, TakePage,
          RepliesTaken, Leave
    <3>2. ASSUME NEW r \in Request,
                 AddLogin(r) \/ RefuseLogin(r) \/ AddPage(r) \/ RefusePage(r)
          PROVE  FALSE
      BY <2>1, <3>2 DEF AddLogin, RefuseLogin, AddPage, RefusePage
    <3>3. Next
      BY <1>1
    <3> QED
      BY <2>2, <2>3, <2>4, <2>5, <2>6, <2>7, <2>8, <3>1, <3>2, <3>3
      DEF Next, LoginRuns, HttpRuns, Responds
  <2> QED BY <1>1, <2>9, GoesShrinks
<1>2. RequestInv => TypeOK
  BY DEF RequestInv
<1> QED BY <1>1, <1>2, RequestInvariant, PTL DEF Spec
=============================================================================
