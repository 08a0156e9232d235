------------------------- MODULE InputOutputProofs --------------------------
(***************************************************************************)
(* Proofs about WriteQueue, ReadPath and Framing, for messages and frames  *)
(* of any lengths and any limits.                                          *)
(*                                                                         *)
(* WriteQueue: what is queued is what the client has yet to receive,       *)
(* nothing is stuck, and the queue implements ByteStream.  The inductive   *)
(* invariant is TypeOK /\ QueueIsUnsent /\ NothingStuck, and Within: that  *)
(* no message ends after what was taken on follows from QueueIsUnsent by   *)
(* induction along the queue, which Within saves.  That nothing is sent on *)
(* a closed connection is needed for the refinement.  QueueIsUnsent is     *)
(* proved apart from which step is taken: a step adds a message at the end *)
(* (Queue), moves the position within the front, takes the front off, or   *)
(* leaves the queue alone.                                                 *)
(*                                                                         *)
(* ReadPath: the frames that were sent and not taken are what the buffer   *)
(* and the socket hold, the first of them at the start of the buffer       *)
(* (StreamIs).  The sum of their lengths is stated by its running values,  *)
(* so that adding a frame at the end and taking one off need no induction. *)
(*                                                                         *)
(* Framing: a frame is a header, a key and a payload.  What a header tells *)
(* is said once (Tells), and what Hybi::receive makes of what has arrived  *)
(* depends on nothing else (Reading), so whole frames, what follows them   *)
(* and parts of them are cases of one lemma (ReceiveIs).  The bytes of a   *)
(* length tell it because the running values of reading them are its       *)
(* shifts (PiecesTell); both are recursive functions of at most nine       *)
(* values, so that giving the values one by one needs no induction.        *)
(***************************************************************************)
EXTENDS InputOutput, SequenceTheorems, TLAPS

-----------------------------------------------------------------------------
(* WriteQueue *)

\* No message ends after last.
Within(queue, last) == \A i \in 1..Len(queue) : queue[i].from + queue[i].length <= last

Inv ==
    /\ TypeOK /\ QueueIsUnsent /\ NothingStuck
    /\ Within(writeQueue, accepted)
    /\ writing => ~closed

\* The messages of a queue follow each other in the stream up to last.
Contiguous(queue, last) ==
    \A i \in 1..Len(queue) :
        queue[i].from + queue[i].length =
            IF i = Len(queue) THEN last ELSE queue[i + 1].from

-----------------------------------------------------------------------------
(* Sequences *)

\* A message queued at the end of the stream continues it.
LEMMA AppendContiguous ==
    ASSUME NEW queue \in Seq(Message), NEW last \in Nat,
           Contiguous(queue, last), Within(queue, last),
           NEW m \in Message, m.from = last
    PROVE  /\ Append(queue, m) \in Seq(Message)
           /\ Contiguous(Append(queue, m), last + m.length)
           /\ Within(Append(queue, m), last + m.length)
<1> DEFINE q == Append(queue, m)
<1>1. q \in Seq(Message) /\ Len(q) = Len(queue) + 1 /\ q[Len(queue) + 1] = m
  OBVIOUS
<1>2. \A i \in 1..Len(queue) : q[i] = queue[i]
  OBVIOUS
<1>3. ASSUME NEW i \in 1..Len(q)
      PROVE  q[i].from + q[i].length = IF i = Len(q) THEN last + m.length ELSE q[i + 1].from
  <2>1. CASE i = Len(queue) + 1
    BY <1>1, <2>1 DEF Message
  <2>2. CASE i = Len(queue)
    <3>1. i \in 1..Len(queue) /\ q[i] = queue[i] /\ q[i + 1] = m
      BY <1>1, <1>2, <2>2
    <3>2. queue[i].from + queue[i].length = last
      BY <3>1, <2>2 DEF Contiguous
    <3> QED BY <3>1, <3>2, <2>2, <1>1
  <2>3. CASE i # Len(queue) + 1 /\ i # Len(queue)
    <3>1. i \in 1..Len(queue) /\ i + 1 \in 1..Len(queue) /\ i # Len(q)
      BY <1>1, <2>3
    <3>2. queue[i].from + queue[i].length = queue[i + 1].from
      BY <3>1, <2>3 DEF Contiguous
    <3> QED BY <3>1, <3>2, <1>2
  <2> QED BY <2>1, <2>2, <2>3
<1>4. ASSUME NEW i \in 1..Len(q)
      PROVE  q[i].from + q[i].length <= last + m.length
  <2>1. CASE i = Len(queue) + 1
    BY <1>1, <2>1 DEF Message
  <2>2. CASE i # Len(queue) + 1
    <3>1. i \in 1..Len(queue) /\ q[i] = queue[i]
      BY <1>1, <1>2, <2>2
    <3>2. queue[i].from + queue[i].length <= last /\ queue[i] \in Message
      BY <3>1 DEF Within
    <3> QED BY <3>1, <3>2 DEF Message
  <2> QED BY <2>1, <2>2
<1> QED BY <1>1, <1>3, <1>4 DEF Contiguous, Within

\* A queue whose front was sent still follows on, from where the front ended.
LEMMA TailContiguous ==
    ASSUME NEW queue \in Seq(Message), queue # <<>>, NEW last \in Nat,
           Contiguous(queue, last), Within(queue, last)
    PROVE  /\ Tail(queue) \in Seq(Message)
           /\ Contiguous(Tail(queue), last) /\ Within(Tail(queue), last)
           /\ Tail(queue) = <<>> => Head(queue).from + Head(queue).length = last
           /\ Tail(queue) # <<>> =>
                Head(queue).from + Head(queue).length = Head(Tail(queue)).from
<1> DEFINE q == Tail(queue)
<1>1. q \in Seq(Message) /\ Len(q) = Len(queue) - 1 /\ Len(queue) >= 1 /\ Len(queue) \in Nat
  OBVIOUS
<1>2. \A i \in 1..Len(q) : q[i] = queue[i + 1]
  OBVIOUS
<1> HIDE DEF q
<1>8. q = <<>> => Len(q) = 0
  OBVIOUS
<1>9. q # <<>> => Len(q) # 0 /\ Head(q) = q[1]
  BY <1>1
<1>3. ASSUME NEW i \in 1..Len(q)
      PROVE  q[i].from + q[i].length = IF i = Len(q) THEN last ELSE q[i + 1].from
  <2>1. i + 1 \in 1..Len(queue) /\ (i + 1 = Len(queue) <=> i = Len(q))
    BY <1>1
  <2>2. queue[i + 1].from + queue[i + 1].length =
            IF i + 1 = Len(queue) THEN last ELSE queue[(i + 1) + 1].from
    BY <2>1 DEF Contiguous
  <2>3. i # Len(q) => i + 1 \in 1..Len(q)
    BY <1>1
  <2> QED BY <1>2, <2>1, <2>2, <2>3
<1>4. Head(queue) = queue[1] /\ 1 \in 1..Len(queue)
  BY <1>1
<1>5. queue[1].from + queue[1].length = IF 1 = Len(queue) THEN last ELSE queue[1 + 1].from
  BY <1>4 DEF Contiguous
<1>6. q = <<>> => Len(queue) = 1
  BY <1>1, <1>8
<1>7. q # <<>> => Len(queue) # 1 /\ Head(q) = queue[1 + 1]
  BY <1>1, <1>2, <1>9
<1>10. ASSUME NEW i \in 1..Len(q)
       PROVE  q[i].from + q[i].length <= last
  <2>1. i + 1 \in 1..Len(queue)
    BY <1>1
  <2> QED BY <2>1, <1>2 DEF Within
<1> QED BY <1>1, <1>3, <1>4, <1>5, <1>6, <1>7, <1>10 DEF Contiguous, Within, q
-----------------------------------------------------------------------------
(* The invariant *)

\* QueueIsUnsent says it of writeQueue.
LEMMA Unsents ==
    QueueIsUnsent <=>
        /\ writeQueue = <<>> => received = accepted /\ writePosition = 0
        /\ writeQueue # <<>> =>
             received = Front.from + writePosition /\ writePosition < Front.length
        /\ Contiguous(writeQueue, accepted)
<1> QED BY DEF QueueIsUnsent, Contiguous

LEMMA UnsentsNext ==
    QueueIsUnsent' <=>
        /\ writeQueue' = <<>> => received' = accepted' /\ writePosition' = 0
        /\ writeQueue' # <<>> =>
             /\ received' = Head(writeQueue').from + writePosition'
             /\ writePosition' < Head(writeQueue').length
        /\ Contiguous(writeQueue', accepted')
<1> QED BY DEF QueueIsUnsent, Contiguous, Front

\* The front of a queue is a message.
LEMMA FrontIsMessage ==
    ASSUME TypeOK, writeQueue # <<>>
    PROVE  Front \in Message
<1> QED BY DEF TypeOK, Front

\* A step that leaves the queue and what the client has of it alone.
LEMMA SameQueue ==
    ASSUME Inv, UNCHANGED <<writeQueue, writePosition, accepted, received>>
    PROVE  QueueIsUnsent' /\ Within(writeQueue', accepted')
<1> QED BY Unsents, UnsentsNext DEF Inv, Front, Contiguous, Within

\* What the client has yet to receive of the front was taken on.
LEMMA FrontWithin ==
    ASSUME Inv, writeQueue # <<>>
    PROVE  Front.from + Front.length <= accepted
<1>1. writeQueue \in Seq(Message) /\ Len(writeQueue) >= 1
  BY DEF Inv, TypeOK
<1>2. 1 \in 1..Len(writeQueue) /\ Front = writeQueue[1]
  BY <1>1 DEF Front
<1> QED BY <1>2 DEF Inv, Within

\* Queueing a message, by send or sendRaw.
LEMMA QueueKeeps ==
    ASSUME Inv, QueueAssumption, NEW n \in Nat \ {0}, NEW raw \in BOOLEAN, Queue(n, raw)
    PROVE  Inv'
<1> DEFINE m == [from |-> accepted, length |-> n, raw |-> raw]
<1>1. m \in Message /\ m.from = accepted /\ m.length = n
  BY DEF Inv, TypeOK, Message
<1>2. /\ writeQueue \in Seq(Message) /\ accepted \in Nat
      /\ Contiguous(writeQueue, accepted) /\ Within(writeQueue, accepted)
  BY Unsents DEF Inv, TypeOK
<1>3. writeQueue' = Append(writeQueue, m) /\ accepted' = accepted + n
  BY DEF Queue
<1> HIDE DEF m
<1>4. /\ writeQueue' \in Seq(Message) /\ Contiguous(writeQueue', accepted')
      /\ Within(writeQueue', accepted')
  BY <1>1, <1>2, <1>3, AppendContiguous
<1>5. TypeOK'
  BY <1>4, <1>3 DEF Inv, TypeOK, Queue
<1>6. writeQueue' # <<>>
  BY <1>2, <1>3, <1>1
<1>7. Head(writeQueue') = IF writeQueue = <<>> THEN m ELSE Front
  BY <1>2, <1>3, <1>1 DEF Front
<1>8. received' = received /\ writePosition' = writePosition /\ writeEvent'
  BY DEF Queue
<1>9. received' = Head(writeQueue').from + writePosition' /\ writePosition' < Head(writeQueue').length
  <2>1. CASE writeQueue = <<>>
    <3>1. received = accepted /\ writePosition = 0
      BY <2>1, Unsents DEF Inv
    <3> QED BY <3>1, <2>1, <1>7, <1>8, <1>1, <1>2
  <2>2. CASE writeQueue # <<>>
    <3>1. received = Front.from + writePosition /\ writePosition < Front.length
      BY <2>2, Unsents DEF Inv
    <3> QED BY <3>1, <2>2, <1>7, <1>8
  <2> QED BY <2>1, <2>2
<1>10. QueueIsUnsent'
  BY <1>4, <1>6, <1>9, UnsentsNext
<1>11. writing' = writing /\ closed' = closed
  BY DEF Queue
<1> QED BY <1>4, <1>5, <1>8, <1>10, <1>11 DEF Inv, NothingStuck

\* The socket took a part of the front.
LEMMA SendPartKeeps ==
    ASSUME Inv, NEW n \in Nat \ {0}, SendPart(n)
    PROVE  Inv' /\ received' = received + n /\ received + n <= accepted
<1>1. writeQueue # <<>> /\ n < Front.length - writePosition
  BY DEF SendPart, CallSend, Unsent
<1>2. Front.from \in Nat /\ Front.length \in Nat /\ writePosition \in Nat
  BY <1>1, FrontIsMessage DEF Inv, TypeOK, Message
<1>3. received = Front.from + writePosition /\ writePosition < Front.length
  BY <1>1, Unsents DEF Inv
<1>4. /\ received' = received + n /\ writePosition' = writePosition + n
      /\ UNCHANGED <<writeQueue, accepted, writeEvent, closed>>
      /\ writing' = FALSE
  BY <1>3 DEF SendPart, Transmit, CallSend
<1>5. TypeOK'
  <2>1. received' \in Nat /\ writePosition' \in Nat
    BY <1>2, <1>3, <1>4 DEF Unsent
  <2> QED BY <2>1, <1>4 DEF Inv, TypeOK
<1>6. QueueIsUnsent'
  <2>1. received' = Head(writeQueue').from + writePosition' /\ writePosition' < Head(writeQueue').length
    <3>1. Head(writeQueue') = Front
      BY <1>4 DEF Front
    <3> QED BY <3>1, <1>1, <1>2, <1>3, <1>4
  <2>2. Contiguous(writeQueue', accepted')
    BY <1>4, Unsents DEF Inv, Contiguous
  <2> QED BY <2>1, <2>2, <1>1, <1>4, UnsentsNext
<1>7. NothingStuck'
  BY <1>4 DEF Inv, NothingStuck
<1>8. received + n <= accepted
  <2>1. Front.from + Front.length <= accepted
    BY <1>1, FrontWithin DEF Inv
  <2> QED BY <2>1, <1>1, <1>2, <1>3 DEF Inv, TypeOK
<1>9. Within(writeQueue', accepted')
  BY <1>4 DEF Inv, Within
<1> QED BY <1>4, <1>5, <1>6, <1>7, <1>8, <1>9 DEF Inv

\* The socket took all that was left of the front.
LEMMA SendAllKeeps ==
    ASSUME Inv, SendAll
    PROVE  Inv' /\ received' > received /\ received' <= accepted
<1>1. writeQueue # <<>> /\ writeQueue \in Seq(Message)
  BY DEF SendAll, CallSend, Inv, TypeOK
<1>2. Front.from \in Nat /\ Front.length \in Nat /\ writePosition \in Nat
  BY <1>1, FrontIsMessage DEF Inv, TypeOK, Message
<1>3. received = Front.from + writePosition /\ writePosition < Front.length
  BY <1>1, Unsents DEF Inv
<1>4. /\ received' = received + Unsent
      /\ writeQueue' = Tail(writeQueue) /\ writePosition' = 0
      /\ UNCHANGED <<writing, writeEvent, closed, accepted>>
  BY <1>3 DEF SendAll, CallSend, Transmit
<1>5. received' = Front.from + Front.length
  BY <1>2, <1>3, <1>4 DEF Unsent
<1>6. accepted \in Nat /\ Contiguous(writeQueue, accepted) /\ Within(writeQueue, accepted)
  BY Unsents DEF Inv, TypeOK
<1>7. /\ writeQueue' \in Seq(Message)
      /\ Contiguous(writeQueue', accepted') /\ Within(writeQueue', accepted')
      /\ writeQueue' = <<>> => received' = accepted'
      /\ writeQueue' # <<>> => received' = Head(writeQueue').from
  BY <1>1, <1>4, <1>5, <1>6, TailContiguous DEF Front
<1>8. TypeOK'
  <2>1. received' \in Nat /\ writePosition' \in Nat
    BY <1>2, <1>3, <1>4, <1>5 DEF Unsent
  <2> QED BY <2>1, <1>4, <1>7 DEF Inv, TypeOK
<1>9. QueueIsUnsent'
  <2>1. ASSUME writeQueue' # <<>>
        PROVE  /\ received' = Head(writeQueue').from + writePosition'
               /\ writePosition' < Head(writeQueue').length
    <3> DEFINE h == Head(writeQueue')
    <3>1. h \in Message
      BY <1>7, <2>1
    <3>2. received' = h.from /\ writePosition' = 0
      BY <2>1, <1>4, <1>7
    <3> HIDE DEF h
    <3>3. received' = h.from + writePosition' /\ writePosition' < h.length
      BY <3>1, <3>2 DEF Message
    <3> QED BY <3>3 DEF h
  <2> QED BY <2>1, <1>4, <1>7, UnsentsNext
<1>10. NothingStuck'
  BY <1>1, <1>4 DEF Inv, NothingStuck
<1>11. received' > received /\ received' <= accepted
  BY <1>1, <1>2, <1>3, <1>5, FrontWithin
<1> QED BY <1>4, <1>7, <1>8, <1>9, <1>10, <1>11 DEF Inv

\* The steps that leave the queue and the client alone: the socket takes
\* nothing or fails, the callback starts or ends, the connection is closed.
Idling == CloseConnection \/ WriteCallback \/ SendNothing \/ SendFails \/ Drained

LEMMA IdlingKeeps ==
    ASSUME Inv, Idling
    PROVE  Inv' /\ UNCHANGED <<writeQueue, writePosition, accepted, received>>
<1>1. UNCHANGED <<writeQueue, writePosition, accepted, received>>
  BY DEF Idling, CloseConnection, Shutdown, WriteCallback, SendNothing, SendFails, Drained
<1>2. QueueIsUnsent' /\ Within(writeQueue', accepted')
  BY <1>1, SameQueue
<1>3. writeEvent' \in BOOLEAN /\ closed' \in BOOLEAN /\ writing' \in BOOLEAN
  BY DEF Idling, CloseConnection, Shutdown, WriteCallback, SendNothing, SendFails, Drained,
         Inv, TypeOK
<1>4. TypeOK'
  BY <1>1, <1>3 DEF Inv, TypeOK
<1>5. NothingStuck' /\ (writing' => ~closed')
  BY <1>1 DEF Inv, NothingStuck, Idling, CloseConnection, Shutdown, WriteCallback,
              SendNothing, SendFails, Drained
<1> QED BY <1>1, <1>2, <1>4, <1>5 DEF Inv

LEMMA Initially == ASSUME Init PROVE Inv
<1>1. writeQueue = <<>> /\ Len(writeQueue) = 0 /\ writeQueue \in Seq(Message)
  BY DEF Init
<1>2. TypeOK
  BY <1>1 DEF Init, TypeOK
<1>3. QueueIsUnsent /\ Within(writeQueue, accepted)
  BY <1>1 DEF Init, QueueIsUnsent, Within
<1>4. NothingStuck /\ (writing => ~closed)
  BY <1>1 DEF Init, NothingStuck
<1> QED BY <1>2, <1>3, <1>4 DEF Inv

\* One step per kind of action of Next.
LEMMA Keeps ==
    ASSUME QueueAssumption, Inv, [Next]_vars
    PROVE  Inv'
<1>1. ASSUME NEW n \in Lengths, Send(n) \/ SendRaw(n) PROVE Inv'
  <2>1. n \in Nat \ {0}
    BY DEF QueueAssumption
  <2> QED BY <1>1, <2>1, QueueKeeps DEF Send, SendRaw
<1>2. ASSUME SendSome PROVE Inv'
  <2>1. PICK n \in 1..MaxAccepted : SendPart(n)
    BY <1>2 DEF SendSome
  <2>2. n \in Nat \ {0}
    BY DEF QueueAssumption
  <2> QED BY <2>1, <2>2, SendPartKeeps
<1>3. ASSUME SendAll PROVE Inv'
  BY <1>3, SendAllKeeps
<1>4. ASSUME Idling PROVE Inv'
  BY <1>4, IdlingKeeps
<1>5. ASSUME UNCHANGED vars PROVE Inv'
  BY <1>5, SameQueue DEF vars, Inv, TypeOK, NothingStuck
<1> QED BY <1>1, <1>2, <1>3, <1>4, <1>5 DEF Next, Idling

THEOREM Invariant == Spec => []Inv
<1>1. QueueAssumption
  BY QueueAssumption
<1> QED BY <1>1, Initially, Keeps, PTL DEF Spec

-----------------------------------------------------------------------------
(* What the queue promises *)

\* The state of the queue keeps its types.
THEOREM TypeCorrect == Spec => []TypeOK
<1> QED BY Invariant, PTL DEF Inv

\* sendRaw, send and connectionWriteCallback keep the queue exactly what the
\* client has yet to receive, whatever a send() takes.
THEOREM QueueIsTheRest == Spec => []QueueIsUnsent
<1> QED BY Invariant, PTL DEF Inv

\* While something is queued on an open connection the write event is
\* started.
THEOREM NothingIsStuck == Spec => []NothingStuck
<1> QED BY Invariant, PTL DEF Inv

\* The client has got nothing out of order.
LEMMA ReceivedIsNat ==
    ASSUME Inv
    PROVE  received \in Nat /\ received <= accepted
<1>1. CASE writeQueue = <<>>
  BY <1>1, Unsents DEF Inv, TypeOK
<1>2. CASE writeQueue # <<>>
  <2>1. Front \in Message /\ received = Front.from + writePosition
           /\ writePosition < Front.length /\ writePosition \in Nat
    BY <1>2, Unsents, FrontIsMessage DEF Inv, TypeOK
  <2>2. accepted \in Nat /\ Front.from + Front.length <= accepted
    BY <1>2, FrontWithin DEF Inv, TypeOK
  <2> QED BY <2>1, <2>2 DEF Message
<1> QED BY <1>1, <1>2

\* Every step of the queue is one of the stream, or none at all.
LEMMA StepIsStep ==
    ASSUME QueueAssumption, Inv, [Next]_vars
    PROVE  [Stream!Next]_(Stream!vars)
<1> USE DEF Stream!Next, Stream!vars, Stream!Accept, Stream!Deliver, Stream!Close
<1>0. received \in Nat /\ accepted \in Nat /\ (writing => ~closed)
  BY ReceivedIsNat DEF Inv, TypeOK
<1>1. ASSUME NEW n \in Lengths, Send(n) \/ SendRaw(n) PROVE Stream!Accept
  <2>1. n \in Nat \ {0}
    BY DEF QueueAssumption
  <2> QED BY <1>0, <1>1, <2>1 DEF Send, SendRaw, Queue
<1>2. ASSUME NEW n \in 1..MaxAccepted, SendPart(n) PROVE Stream!Deliver
  <2>1. n \in Nat \ {0}
    BY DEF QueueAssumption
  <2>2. received' = received + n /\ received + n <= accepted
    BY <1>2, <2>1, SendPartKeeps
  <2>3. received' \in (received + 1)..accepted
    BY <1>0, <2>1, <2>2
  <2> QED BY <1>0, <1>2, <2>3 DEF SendPart, CallSend
<1>3. ASSUME SendAll PROVE Stream!Deliver
  <2>1. received' > received /\ received' <= accepted /\ Inv'
    BY <1>3, SendAllKeeps
  <2>2. received' \in Nat
    BY <2>1 DEF Inv, TypeOK
  <2>3. received' \in (received + 1)..accepted
    BY <1>0, <2>1, <2>2
  <2> QED BY <1>0, <1>3, <2>3 DEF SendAll, CallSend
<1>4. ASSUME Idling PROVE Stream!Close \/ UNCHANGED Stream!vars
  <2>1. UNCHANGED <<accepted, received>>
    BY <1>4, IdlingKeeps
  <2> QED BY <1>4, <2>1 DEF Idling, CloseConnection, Shutdown, WriteCallback,
                            SendNothing, SendFails, Drained
<1>5. ASSUME UNCHANGED vars PROVE UNCHANGED Stream!vars
  BY <1>5 DEF vars
<1>6. ASSUME SendSome PROVE Stream!Next
  BY <1>6, <1>2 DEF SendSome
<1> QED BY <1>1, <1>3, <1>4, <1>5, <1>6 DEF Next, Idling

\* The queue implements the stream of bytes: for messages of any lengths and
\* whatever the socket takes, the client receives every byte once, in order.
THEOREM StreamImplemented == Spec => ImplementsByteStream
<1>1. QueueAssumption
  BY QueueAssumption
<1>2. Init => Stream!Init
  BY DEF Init, Stream!Init
<1> QED BY <1>1, <1>2, StepIsStep, Invariant, PTL DEF Spec, ImplementsByteStream, Stream!Spec
\* What send lets in waits behind MaxQueueItems others at most: send looks at
\* the length of the queue, and sendRaw and the socket only move it up.
THEOREM QueueIsLimited == Spec => []QueueLimit
<1>1. Init => QueueLimit
  BY DEF Init, QueueLimit
<1>2. ASSUME QueueAssumption, Inv, QueueLimit, [Next]_vars PROVE QueueLimit'
  <2> DEFINE n == Len(writeQueue)
  <2>1. writeQueue \in Seq(Message) /\ n \in Nat
    BY <1>2 DEF Inv, TypeOK
  <2>2. CASE UNCHANGED writeQueue
    BY <1>2, <2>2 DEF QueueLimit
  <2>3. ASSUME NEW k \in Lengths, NEW raw \in BOOLEAN, Queue(k, raw),
               raw \/ n <= MaxQueueItems
        PROVE  QueueLimit'
    <3> DEFINE m == [from |-> accepted, length |-> k, raw |-> raw]
    <3>1. writeQueue' = Append(writeQueue, m) /\ m.raw = raw
      BY <2>3 DEF Queue
    <3> HIDE DEF m
    <3>2. Len(writeQueue') = n + 1 /\ writeQueue'[n + 1] = m
          /\ \A i \in 1..n : writeQueue'[i] = writeQueue[i]
      BY <2>1, <3>1
    <3>3. ASSUME NEW i \in 1..Len(writeQueue'), ~writeQueue'[i].raw
          PROVE  i <= MaxQueueItems + 1
      <4>1. CASE i = n + 1
        BY <4>1, <2>1, <2>3, <3>1, <3>2, <3>3, <1>2 DEF QueueAssumption
      <4>2. CASE i # n + 1
        <5>1. i \in 1..n
          BY <4>2, <2>1, <3>2
        <5> QED BY <5>1, <3>2, <3>3, <1>2 DEF QueueLimit
      <4> QED BY <4>1, <4>2
    <3> QED BY <3>3 DEF QueueLimit
  <2>4. ASSUME writeQueue # <<>>, writeQueue' = Tail(writeQueue)
        PROVE  QueueLimit'
    <3>1. Len(writeQueue') = n - 1 /\ n >= 1
          /\ \A i \in 1..(n - 1) : writeQueue'[i] = writeQueue[i + 1]
      BY <2>1, <2>4
    <3>2. ASSUME NEW i \in 1..Len(writeQueue'), ~writeQueue'[i].raw
          PROVE  i <= MaxQueueItems + 1
      <4>1. i + 1 \in 1..n /\ i \in 1..(n - 1)
        BY <2>1, <3>1
      <4>2. i + 1 <= MaxQueueItems + 1
        BY <4>1, <3>1, <3>2, <1>2 DEF QueueLimit
      <4> QED BY <4>1, <4>2, <1>2 DEF QueueAssumption
    <3> QED BY <3>2 DEF QueueLimit
  <2>5. ASSUME NEW k \in Lengths, Send(k) \/ SendRaw(k) PROVE QueueLimit'
    BY <2>3, <2>5 DEF Send, SendRaw
  <2>6. ASSUME SendAll PROVE QueueLimit'
    BY <2>4, <2>6 DEF SendAll, CallSend
  <2> QED BY <1>2, <2>2, <2>5, <2>6 DEF Next, vars, CloseConnection, Shutdown, WriteCallback,
             SendSome, SendPart, SendNothing, SendFails, Drained
<1>3. QueueAssumption
  BY QueueAssumption
<1> QED BY <1>1, <1>2, <1>3, Invariant, PTL DEF Spec

\* The queue keeps all of it at once: its types, what the client has yet to
\* receive, that nothing is stuck, and its limit.
THEOREM QueueCorrect == Spec => []QueueOK
<1> QED BY TypeCorrect, QueueIsTheRest, NothingIsStuck, QueueIsLimited, PTL DEF QueueOK

-----------------------------------------------------------------------------
(* ReadPath *)

\* left[i] is what is left of the stream from the start of the i-th frame on.
LeftOf(left, frames) ==
    /\ left[Len(frames) + 1] = 0
    /\ \A i \in 1 .. Len(frames) : left[i] = left[i + 1] + R!FrameSize(frames[i])

\* The buffer and the socket hold the frames that were sent and not taken.
StreamIs(frames, bytes) ==
    \E left \in [1 .. Len(frames) + 1 -> Nat] : LeftOf(left, frames) /\ left[1] = bytes

Underway ==
    IF protocol = "hybi" THEN StreamIs(sending, buffered + unread)
    ELSE /\ sending = <<>> /\ reading = 0
         /\ ~readClosed => buffered + unread = request

InputInv == R!InputOK /\ Underway

LEMMA FrameSizes ==
    ASSUME R!InputAssumption, NEW f \in R!Frame
    PROVE  /\ R!LengthSize(f.length) \in {0, 2, 8} /\ R!MaskSize(f) \in {0, 4}
           /\ f.length \in Nat
           /\ R!FrameSize(f) \in Nat /\ R!FrameSize(f) > 0
           /\ R!FrameSize(f) <= f.length + 14
<1>1. R!LengthSize(f.length) \in {0, 2, 8} /\ R!MaskSize(f) \in {0, 4}
  BY DEF R!LengthSize, R!MaskSize, R!MaskingKeySize
<1>2. f.length \in Nat
  BY DEF R!Frame
<1> QED BY <1>1, <1>2 DEF R!FrameSize, R!HeaderSize

\* A stream of no frames is empty, and one of some is not.
LEMMA StreamStart ==
    ASSUME NEW frames \in Seq(R!Frame), NEW bytes \in Nat, StreamIs(frames, bytes),
           bytes > 0
    PROVE  frames # <<>>
BY DEF StreamIs, LeftOf

LEMMA StreamEmpty == StreamIs(<<>>, 0)
<1>1. [i \in 1 .. 1 |-> 0] \in [1 .. 1 -> Nat]
  OBVIOUS
<1>2. Len(<<>>) = 0 /\ LeftOf([i \in 1 .. 1 |-> 0], <<>>)
  BY DEF LeftOf
<1> QED BY <1>1, <1>2 DEF StreamIs

LEMMA StreamAppend ==
    ASSUME R!InputAssumption, NEW frames \in Seq(R!Frame), NEW bytes \in Nat,
           StreamIs(frames, bytes), NEW f \in R!Frame
    PROVE  StreamIs(Append(frames, f), bytes + R!FrameSize(f))
<1> DEFINE all == Append(frames, f)
           n == Len(frames)
           s == R!FrameSize(f)
<1>1. PICK left \in [1 .. n + 1 -> Nat] : LeftOf(left, frames) /\ left[1] = bytes
  BY DEF StreamIs
<1>2. /\ Len(all) = n + 1 /\ n \in Nat /\ all[n + 1] = f
      /\ \A i \in 1 .. n : all[i] = frames[i]
  OBVIOUS
<1>3. s \in Nat
  BY FrameSizes
<1>4. \A i \in 1 .. n : /\ R!FrameSize(frames[i]) \in Nat
                        /\ left[i] = left[i + 1] + R!FrameSize(frames[i])
  BY <1>1, FrameSizes DEF LeftOf
<1>5. left[n + 1] = 0
  BY <1>1 DEF LeftOf
<1> HIDE DEF all, n, s
<1> DEFINE new == [i \in 1 .. n + 2 |-> IF i = n + 2 THEN 0 ELSE left[i] + s]
<1>6. /\ new \in [1 .. n + 2 -> Nat] /\ new[n + 2] = 0
      /\ \A i \in 1 .. n + 1 : new[i] = left[i] + s
  BY <1>1, <1>2, <1>3
<1> HIDE DEF new
<1>7. ASSUME NEW i \in 1 .. n + 1 PROVE new[i] = new[i + 1] + R!FrameSize(all[i])
  <2>1. CASE i = n + 1
    BY <1>2, <1>3, <1>5, <1>6, <2>1 DEF s
  <2>2. CASE i # n + 1
    <3>1. i \in 1 .. n /\ i + 1 \in 1 .. n + 1
      BY <1>2, <1>7, <2>2
    <3>2. new[i] = left[i] + s /\ new[i + 1] = left[i + 1] + s
      BY <1>6, <3>1
    <3>3. left[i + 1] \in Nat /\ R!FrameSize(frames[i]) \in Nat
      BY <1>1, <1>4, <3>1
    <3> QED BY <1>2, <1>3, <1>4, <3>1, <3>2, <3>3
  <2> QED BY <2>1, <2>2
<1>8. new[1] = bytes + s /\ new \in [1 .. Len(all) + 1 -> Nat] /\ LeftOf(new, all)
  BY <1>1, <1>2, <1>6, <1>7 DEF LeftOf
<1> QED BY <1>8 DEF StreamIs, all, s

LEMMA StreamTail ==
    ASSUME R!InputAssumption, NEW frames \in Seq(R!Frame), NEW bytes \in Nat,
           StreamIs(frames, bytes), frames # <<>>
    PROVE  /\ R!FrameSize(Head(frames)) <= bytes
           /\ StreamIs(Tail(frames), bytes - R!FrameSize(Head(frames)))
<1> DEFINE rest == Tail(frames)
           n == Len(frames)
<1>1. PICK left \in [1 .. n + 1 -> Nat] : LeftOf(left, frames) /\ left[1] = bytes
  BY DEF StreamIs
<1>2. /\ Len(rest) = n - 1 /\ n \in Nat \ {0} /\ Head(frames) = frames[1]
      /\ \A i \in 1 .. n - 1 : rest[i] = frames[i + 1]
      /\ Head(frames) \in R!Frame
  OBVIOUS
<1>3. /\ left[n + 1] = 0
      /\ \A i \in 1 .. n : left[i] = left[i + 1] + R!FrameSize(frames[i])
  BY <1>1 DEF LeftOf
<1> HIDE DEF rest, n
<1> DEFINE new == [i \in 1 .. n |-> left[i + 1]]
<1>4. /\ new \in [1 .. n -> Nat] /\ \A i \in 1 .. n : new[i] = left[i + 1]
  BY <1>1, <1>2
<1> HIDE DEF new
<1>5. left[1] = left[2] + R!FrameSize(frames[1]) /\ left[2] \in Nat
  BY <1>1, <1>2, <1>3
<1>6. new[1] = bytes - R!FrameSize(Head(frames))
  BY <1>1, <1>2, <1>4, <1>5, FrameSizes
<1>7. LeftOf(new, rest)
  <2>1. new[Len(rest) + 1] = 0
    BY <1>2, <1>3, <1>4
  <2>2. ASSUME NEW i \in 1 .. Len(rest)
        PROVE  new[i] = new[i + 1] + R!FrameSize(rest[i])
    <3>1. i \in 1 .. n /\ i + 1 \in 1 .. n /\ i \in 1 .. n - 1
      BY <1>2, <2>2
    <3> QED BY <1>2, <1>3, <1>4, <3>1
  <2> QED BY <2>1, <2>2 DEF LeftOf
<1>8. new \in [1 .. Len(rest) + 1 -> Nat]
  BY <1>2, <1>4
<1>9. StreamIs(rest, bytes - R!FrameSize(Head(frames)))
  BY <1>6, <1>7, <1>8 DEF StreamIs
<1> QED BY <1>1, <1>2, <1>5, <1>9, FrameSizes DEF rest

-----------------------------------------------------------------------------
(* Each step keeps it *)

LEMMA InputInitially == ASSUME R!InputAssumption, R!Init PROVE InputInv
<1>1. R!TypeOK
  <2>1. <<>> \in Seq(R!Frame) /\ 0 \in 0 .. MaxRepeat /\ request \in Nat
    BY DEF R!InputAssumption, R!Init
  <2> QED BY <2>1 DEF R!Init, R!TypeOK
<1>2. R!Synchronized /\ R!BacklogIsExcused /\ Underway
  BY DEF R!InputAssumption, R!Init, R!Synchronized, R!BacklogIsExcused, Underway
<1>3. R!BufferBound
  BY DEF R!InputAssumption, R!Init, R!BufferBound
<1> QED BY <1>1, <1>2, <1>3 DEF InputInv, R!InputOK

\* Whatever is received is received in one of five ways; a frame that is taken
\* has arrived, and has a masking key.
LEMMA ReceivedFacts ==
    ASSUME R!InputAssumption, InputInv, sending # <<>>,
           R!Received \in {"ok", "ping_pong"}
    PROVE  LET f == Head(sending) IN
           /\ f \in R!Frame /\ f.masked /\ R!FrameSize(f) <= buffered
           /\ R!FrameSize(f) = R!HeaderSize + R!LengthSize(f.length) + R!MaskingKeySize
                               + f.length
<1> DEFINE f == Head(sending)
<1>1. f \in R!Frame
  BY DEF InputInv, R!InputOK, R!TypeOK
<1> HIDE DEF f
<1>2. f.masked /\ ~(buffered < R!FrameSize(f))
  BY DEF R!Received, R!Receive, f
<1>3. R!FrameSize(f) <= buffered
  BY <1>1, <1>2, FrameSizes DEF InputInv, R!InputOK, R!TypeOK
<1> QED
  BY <1>1, <1>2, <1>3 DEF R!FrameSize, R!MaskSize, f

\* A frame that is taken leaves the buffer where the next one starts.
LEMMA TakeKeeps ==
    ASSUME R!InputAssumption, InputInv, protocol = "hybi", sending # <<>>,
           R!Received \in {"ok", "ping_pong"}, R!Take(Head(sending)), UNCHANGED unread
    PROVE  /\ buffered' \in Nat /\ buffered' <= buffered /\ inSync'
           /\ sending' \in Seq(R!Frame) /\ taken' \in {0, 1}
           /\ StreamIs(sending', buffered' + unread')
<1> DEFINE f == Head(sending)
<1>1. /\ f \in R!Frame /\ R!FrameSize(f) <= buffered
      /\ buffered' = buffered - R!FrameSize(f) /\ inSync' = inSync
      /\ sending' = Tail(sending) /\ taken' = 1 - taken
  BY ReceivedFacts DEF R!Take, InputInv, R!InputOK, R!TypeOK
<1>2. /\ buffered \in Nat /\ unread \in Nat /\ inSync /\ sending \in Seq(R!Frame)
      /\ taken \in {0, 1}
  BY DEF InputInv, R!InputOK, R!TypeOK, R!Synchronized
<1>3. R!FrameSize(f) \in Nat
  BY <1>1, FrameSizes
<1>4. StreamIs(Tail(sending), (buffered + unread) - R!FrameSize(f))
  BY <1>2, StreamTail DEF InputInv, Underway
<1> HIDE DEF f
<1>5. buffered' + unread' = (buffered + unread) - R!FrameSize(f)
  BY <1>1, <1>2, <1>3
<1>6. sending' \in Seq(R!Frame)
  BY <1>1, <1>2
<1> QED BY <1>1, <1>2, <1>3, <1>4, <1>5, <1>6

LEMMA InputTypes ==
    ASSUME R!InputAssumption, InputInv
    PROVE  /\ buffered \in Nat /\ unread \in Nat /\ sending \in Seq(R!Frame)
           /\ request \in Nat /\ reading \in 0 .. MaxRepeat /\ inSync
           /\ protocol = "hybi" => (buffered > 0 => sending # <<>>)
<1>1. /\ buffered \in Nat /\ unread \in Nat /\ sending \in Seq(R!Frame)
      /\ request \in Nat /\ reading \in 0 .. MaxRepeat /\ inSync
  BY DEF InputInv, R!InputOK, R!TypeOK, R!Synchronized, R!InputAssumption
<1>2. CASE protocol = "hybi" /\ buffered > 0
  BY <1>1, <1>2, StreamStart DEF InputInv, Underway
<1> QED BY <1>1, <1>2

LEMMA SendsKeeps ==
    ASSUME R!InputAssumption, InputInv, NEW f \in Frames, R!ClientSends(f)
    PROVE  InputInv'
<1>1. f \in R!Frame /\ R!FrameSize(f) \in Nat
  BY FrameSizes DEF R!InputAssumption
<1>2. /\ protocol = "hybi" /\ sending' = Append(sending, f)
      /\ unread' = unread + R!FrameSize(f)
      /\ UNCHANGED <<protocol, request, buffered, inSync, reading, readEvent, readClosed,
                     stop, taken>>
  BY DEF R!ClientSends
<1>3. StreamIs(sending', (buffered + unread) + R!FrameSize(f))
  BY <1>1, <1>2, InputTypes, StreamAppend DEF InputInv, Underway
<1>4. (buffered + unread) + R!FrameSize(f) = buffered' + unread'
  BY <1>1, <1>2, InputTypes
<1>5. Underway'
  BY <1>2, <1>3, <1>4 DEF Underway
<1>6. R!TypeOK' /\ R!Synchronized' /\ R!BufferBound'
  <2>1. sending' \in Seq(R!Frame) /\ unread' \in Nat
    BY <1>1, <1>2, InputTypes
  <2> QED
    BY <1>2, <2>1 DEF InputInv, R!InputOK, R!TypeOK, R!Synchronized, R!BufferBound
<1>7. R!BacklogIsExcused'
  <2>1. CASE buffered > 0
    <3>1. Head(sending') = Head(sending)
      BY <1>1, <1>2, <2>1, InputTypes
    <3> QED
      BY <1>2, <3>1
      DEF InputInv, R!InputOK, R!BacklogIsExcused, R!Readable, R!Received, R!Receive
  <2>2. CASE ~(buffered > 0)
    BY <1>2, <2>2 DEF R!BacklogIsExcused
  <2> QED BY <2>1, <2>2
<1> QED BY <1>5, <1>6, <1>7 DEF InputInv, R!InputOK

LEMMA ClosingKeeps ==
    ASSUME R!InputAssumption, InputInv, NEW why \in {"error", "overflow", "delay"},
           R!Shutdown(why)
    PROVE  InputInv'
<1>1. /\ readClosed' = TRUE /\ readEvent' = FALSE /\ reading' = 0 /\ stop' = why
      /\ UNCHANGED <<protocol, request, sending, unread, buffered, inSync, taken>>
  BY DEF R!Shutdown
<1>2. R!TypeOK'
  <2>1. reading' \in 0 .. MaxRepeat
    BY <1>1 DEF R!InputAssumption
  <2> QED BY <1>1, <2>1 DEF InputInv, R!InputOK, R!TypeOK
<1>3. R!BacklogIsExcused'
  BY <1>1 DEF R!BacklogIsExcused, R!Readable
<1> QED
  BY <1>1, <1>2, <1>3
  DEF InputInv, R!InputOK, R!Synchronized, R!BufferBound, Underway

LEMMA HandshakeKeeps ==
    ASSUME R!InputAssumption, InputInv, NEW n \in 1 .. RecvSize, R!Handshake(n)
    PROVE  InputInv'
<1> USE DEF R!InputAssumption
<1>1. /\ n \in Nat /\ protocol = "unknown" /\ n <= unread /\ unread' = unread - n
      /\ UNCHANGED <<request, sending, inSync, reading, taken>> /\ reading = 0
      /\ sending = <<>> /\ buffered + unread = request
      /\ ~(buffered > MaxHandshakeBuffer)
  BY DEF R!Handshake, R!Overflows, R!Readable, InputInv, Underway
<1>2. \/ /\ buffered' = buffered + n
         /\ UNCHANGED <<protocol, readEvent, readClosed, stop>>
      \/ /\ buffered + n >= request /\ protocol' = "hybi" /\ buffered' = 0
         /\ UNCHANGED <<readEvent, readClosed, stop>>
      \/ /\ readClosed' = TRUE /\ readEvent' = FALSE /\ stop' = "error"
         /\ UNCHANGED <<protocol, buffered>>
  <2>1. buffered + n \in Int /\ request \in Int
    BY <1>1, InputTypes
  <2> QED BY <1>1, <2>1 DEF R!Handshake, R!Accept
<1>3. /\ buffered \in Nat /\ unread' \in Nat /\ request \in Nat
      /\ sending \in Seq(R!Frame) /\ inSync
  BY <1>1, InputTypes
<1>4. CASE buffered' = buffered + n /\ UNCHANGED <<protocol, readEvent, readClosed, stop>>
  <2>1. R!TypeOK' /\ R!BacklogIsExcused' /\ R!Synchronized'
    BY <1>1, <1>3, <1>4
    DEF InputInv, R!InputOK, R!TypeOK, R!BacklogIsExcused, R!Synchronized
  <2>2. R!BufferBound'
    BY <1>1, <1>3, <1>4 DEF R!BufferBound
  <2>3. Underway'
    BY <1>1, <1>3, <1>4, InputTypes DEF Underway
  <2> QED BY <2>1, <2>2, <2>3 DEF InputInv, R!InputOK
<1>5. CASE /\ buffered + n >= request /\ protocol' = "hybi" /\ buffered' = 0
           /\ UNCHANGED <<readEvent, readClosed, stop>>
  <2>1. R!TypeOK' /\ R!BacklogIsExcused' /\ R!Synchronized'
    BY <1>1, <1>3, <1>5
    DEF InputInv, R!InputOK, R!TypeOK, R!BacklogIsExcused, R!Synchronized
  <2>2. R!BufferBound'
    BY <1>1, <1>3, <1>5 DEF R!BufferBound
  <2>3. buffered' + unread' = 0 /\ sending' = <<>>
    BY <1>1, <1>3, <1>5, InputTypes
  <2>4. Underway'
    BY <1>5, <2>3, StreamEmpty DEF Underway
  <2> QED BY <2>1, <2>2, <2>4 DEF InputInv, R!InputOK
<1>6. CASE /\ readClosed' = TRUE /\ readEvent' = FALSE /\ stop' = "error"
           /\ UNCHANGED <<protocol, buffered>>
  <2>1. R!TypeOK' /\ R!BacklogIsExcused' /\ R!Synchronized'
    BY <1>1, <1>3, <1>6
    DEF InputInv, R!InputOK, R!TypeOK, R!BacklogIsExcused, R!Synchronized, R!Readable
  <2>2. R!BufferBound' /\ Underway'
    BY <1>1, <1>6 DEF InputInv, R!InputOK, R!BufferBound, Underway
  <2> QED BY <2>1, <2>2 DEF InputInv, R!InputOK
<1> QED BY <1>2, <1>4, <1>5, <1>6

LEMMA ReadingKeeps ==
    ASSUME R!InputAssumption, InputInv, NEW n \in 1 .. RecvSize, R!ReadCallback(n)
    PROVE  InputInv'
<1>1. /\ n \in Nat /\ n <= RecvSize /\ protocol = "hybi" /\ n <= unread
      /\ unread' = unread - n /\ buffered' = buffered + n /\ reading' = MaxRepeat
      /\ ~(buffered > MaxReadBuffer)
      /\ UNCHANGED <<protocol, request, sending, inSync, readEvent, readClosed, stop, taken>>
  BY DEF R!ReadCallback, R!Recv, R!Overflows, R!InputAssumption
<1>2. /\ buffered \in Nat /\ unread \in Nat /\ RecvSize \in Nat /\ MaxReadBuffer \in Nat
      /\ MaxRepeat \in Nat \ {0}
  BY InputTypes DEF R!InputAssumption
<1>3. R!TypeOK' /\ R!Synchronized'
  BY <1>1, <1>2 DEF InputInv, R!InputOK, R!TypeOK, R!Synchronized
<1>4. R!BacklogIsExcused'
  BY <1>1, <1>2 DEF R!BacklogIsExcused, R!Readable
<1>5. R!BufferBound'
  BY <1>1, <1>2 DEF R!BufferBound
<1>6. buffered' + unread' = buffered + unread
  BY <1>1, <1>2
<1>7. Underway'
  BY <1>1, <1>6 DEF InputInv, Underway
<1> QED BY <1>3, <1>4, <1>5, <1>7 DEF InputInv, R!InputOK

\* A callback that waits for more leaves the frame at the start incomplete.
LEMMA WaitingKeeps ==
    ASSUME R!InputAssumption, InputInv, R!Incomplete
    PROVE  InputInv'
<1>1. /\ protocol = "hybi" /\ reading' = 0 /\ stop' = "incomplete"
      /\ UNCHANGED <<protocol, request, sending, unread, buffered, inSync, readEvent,
                     readClosed, taken>>
      /\ R!Received = "incomplete"
  BY InputTypes DEF R!Incomplete, R!Looping, R!Return, InputInv, Underway, R!InputOK,
                    R!TypeOK
<1>2. R!TypeOK'
  <2>1. reading' \in 0 .. MaxRepeat
    BY <1>1 DEF R!InputAssumption
  <2> QED BY <1>1, <2>1 DEF InputInv, R!InputOK, R!TypeOK
<1>3. R!BacklogIsExcused'
  BY <1>1 DEF R!BacklogIsExcused, R!Received, R!Receive
<1> QED
  BY <1>1, <1>2, <1>3
  DEF InputInv, R!InputOK, R!Synchronized, R!BufferBound, Underway

\* A callback that takes a frame goes on, or returns with the buffer empty, with
\* the limit reached or with a ping or pong done.
LEMMA TakingKeeps ==
    ASSUME R!InputAssumption, InputInv, R!Looping, R!Received \in {"ok", "ping_pong"},
           R!Take(Head(sending)),
           \/ R!Return("ping_pong")
           \/ R!NextTurn,
           readEvent' \in BOOLEAN,
           UNCHANGED <<protocol, request, unread, readClosed>>
    PROVE  InputInv'
<1>1. /\ protocol = "hybi" /\ reading \in 1 .. MaxRepeat /\ sending # <<>>
  BY DEF R!Looping, InputInv, Underway, R!InputOK, R!TypeOK, R!InputAssumption
<1>2. /\ buffered' \in Nat /\ buffered' <= buffered /\ inSync'
      /\ sending' \in Seq(R!Frame) /\ taken' \in {0, 1}
      /\ StreamIs(sending', buffered' + unread')
  BY <1>1, TakeKeeps
<1>3. /\ reading' \in 0 .. MaxRepeat
      /\ \/ stop' = "ping_pong"
         \/ buffered' = 0 /\ stop' = "drained"
         \/ stop' = "limit"
         \/ reading' > 0 /\ stop' = stop
  BY <1>1 DEF R!Return, R!NextTurn, R!InputAssumption
<1>4. R!TypeOK' /\ R!Synchronized'
  BY <1>2, <1>3 DEF InputInv, R!InputOK, R!TypeOK, R!Synchronized
<1>5. R!BacklogIsExcused'
  BY <1>2, <1>3 DEF R!BacklogIsExcused, R!Readable
<1>6. R!BufferBound'
  <2>1. buffered \in Nat /\ RecvSize \in Nat /\ MaxReadBuffer \in Nat
    BY InputTypes DEF R!InputAssumption
  <2> QED BY <1>1, <1>2, <2>1 DEF InputInv, R!InputOK, R!BufferBound
<1>7. Underway'
  BY <1>1, <1>2 DEF Underway
<1> QED BY <1>4, <1>5, <1>6, <1>7 DEF InputInv, R!InputOK

LEMMA InputSteps == ASSUME R!InputAssumption, InputInv, [R!Next]_(R!vars) PROVE InputInv'
<1>1. ASSUME NEW f \in Frames, R!ClientSends(f) PROVE InputInv'
  BY <1>1, SendsKeeps
<1>2. CASE R!Arrival
  BY <1>2, HandshakeKeeps, ReadingKeeps DEF R!Arrival
<1>3. CASE R!BufferFull \/ R!RecvFails \/ R!DelayedClose
  BY <1>3, ClosingKeeps DEF R!BufferFull, R!RecvFails, R!DelayedClose
<1>4. CASE R!Loop
  <2>1. CASE R!Incomplete
    BY <2>1, WaitingKeeps
  <2>2. CASE R!PingPong
    <3>1. readEvent' \in BOOLEAN
      BY <2>2 DEF R!PingPong, InputInv, R!InputOK, R!TypeOK
    <3> QED BY <2>2, <3>1, TakingKeeps DEF R!PingPong
  <2>3. CASE R!Refuse
    BY <2>3, ClosingKeeps DEF R!Refuse
  <2>4. ASSUME NEW delay \in BOOLEAN, R!Command(delay) PROVE InputInv'
    <3>1. readEvent' \in BOOLEAN
      BY <2>4 DEF R!Command
    <3> QED BY <2>4, <3>1, TakingKeeps DEF R!Command
  <2> QED BY <1>4, <2>1, <2>2, <2>3, <2>4 DEF R!Loop
<1>5. CASE UNCHANGED R!vars
  BY <1>5
  DEF R!vars, InputInv, R!InputOK, R!TypeOK, R!Synchronized, R!BufferBound,
      R!BacklogIsExcused, R!Readable, R!Received, R!Receive, Underway
<1> QED BY <1>1, <1>2, <1>3, <1>4, <1>5 DEF R!Next

LEMMA InputInvariant == ASSUME R!InputAssumption PROVE R!Spec => []InputInv
<1>1. R!Init => InputInv
  BY InputInitially
<1>2. InputInv /\ [R!Next]_(R!vars) => InputInv'
  BY InputSteps
<1> QED BY <1>1, <1>2, PTL DEF R!Spec

\* Whatever the pieces it arrives in, a frame is looked for where one starts, and
\* every frame that has arrived whole is taken before the callback returns, but for
\* the limit of commands and for pings (connectionReadCallback, Hybi::receive).
THEOREM InputCorrect == ASSUME R!InputAssumption PROVE R!Spec => []InputOK
<1>1. InputInv => R!InputOK
  BY DEF InputInv
<1> QED BY <1>1, InputInvariant, PTL DEF InputOK

\* A connection is closed for the size of its buffer only when the frame at the
\* start of the buffer has arrived whole: no frame of an allowed length can be too
\* long to be read (the tests of MAX_CONNECTION_READ_BUFFER and
\* wsMaximumClientFrameSize).
THEOREM FramesFit == ASSUME R!InputAssumption PROVE R!Spec => OverflowIsBacklog
<1>1. ASSUME InputInv, [R!Next]_(R!vars), stop' = "overflow", stop # "overflow",
             protocol = "hybi"
      PROVE  R!Received # "incomplete"
  <2>1. R!BufferFull
    BY <1>1
    DEF R!Next, R!vars, R!ClientSends, R!Arrival, R!Handshake, R!ReadCallback, R!Loop,
        R!Incomplete, R!PingPong, R!Refuse, R!Command, R!NextTurn, R!Return,
        R!RecvFails, R!DelayedClose, R!Shutdown
  <2>2. buffered > MaxReadBuffer
    BY <1>1, <2>1 DEF R!BufferFull, R!Overflows
  <2>3. /\ buffered \in Nat /\ MaxReadBuffer \in Nat /\ MaxFrameSize \in Nat
        /\ MaxFrameSize + 14 <= MaxReadBuffer
    BY <1>1, InputTypes DEF R!InputAssumption
  <2>4. Head(sending) \in R!Frame
    BY <1>1, <2>2, <2>3, InputTypes
  <2> DEFINE f == Head(sending)
  <2>5. /\ R!LengthSize(f.length) \in {0, 2, 8} /\ f.length \in Nat
        /\ R!FrameSize(f) <= f.length + 14 /\ R!FrameSize(f) \in Nat
    BY <2>4, FrameSizes
  <2> HIDE DEF f
  <2>6. ~(buffered < R!HeaderSize)
    BY <2>2, <2>3 DEF R!HeaderSize
  <2>7. ~(buffered < R!HeaderSize + R!LengthSize(f.length))
    BY <2>2, <2>3, <2>5 DEF R!HeaderSize
  <2>8. f.length > MaxFrameSize \/ ~(buffered < R!FrameSize(f))
    BY <2>2, <2>3, <2>5
  <2> QED BY <2>6, <2>7, <2>8 DEF R!Received, R!Receive, f
<1> QED BY <1>1, InputInvariant, PTL DEF R!Spec, R!OverflowIsBacklog, OverflowIsBacklog

-----------------------------------------------------------------------------
(* Framing: the bytes of a length *)

\* What is divided comes from its quotient and remainder.
LEMMA Division ==
    ASSUME NEW b \in Nat, b > 0, NEW n \in Nat
    PROVE  /\ n \div b \in Nat /\ n % b \in 0..b - 1
           /\ n = ((n \div b) * b) + (n % b)
OBVIOUS

\* A quotient is below what bounds the dividend by the divisor.
LEMMA DivisionBelow ==
    ASSUME NEW b \in Nat, b > 0, NEW n \in Nat, NEW m \in Nat, n < m * b
    PROVE  n \div b < m
<1> DEFINE q == n \div b
<1>1. q \in Nat /\ q * b <= n
  BY Division
<1> HIDE DEF q
<1>2. SUFFICES ASSUME q >= m PROVE FALSE
  BY <1>1 DEF q
<1>3. PICK d \in Nat : q = m + d
  <2>1. q - m \in Nat /\ q = m + (q - m)
    BY <1>1, <1>2
  <2> QED BY <2>1
<1>4. q * b = m * b + d * b /\ d * b >= 0 /\ m * b \in Int /\ d * b \in Int
  BY <1>3
<1> QED BY <1>1, <1>4

\* What is shifted by one more byte is divided by the values of one.
LEMMA Shifts ==
    ASSUME F!FramingAssumption, NEW n \in Nat
    PROVE  /\ F!Shifted(n)[0] = n
           /\ \A k \in 1..7 : F!Shifted(n)[k] = F!Shifted(n)[k - 1] \div Base
           /\ \A k \in 0..7 : F!Shifted(n)[k] \in Nat
<1> DEFINE d(m) == m \div Base
           Recursion(s) ==
               s = [k \in 0..7 |-> IF k = 0 THEN n ELSE s[k - 1] \div Base]
           s1 == d(n)
           s2 == d(s1)
           s3 == d(s2)
           s4 == d(s3)
           s5 == d(s4)
           s6 == d(s5)
           s7 == d(s6)
           f == [k \in 0..7 |->
                    CASE k = 0 -> n [] k = 1 -> s1 [] k = 2 -> s2 [] k = 3 -> s3
                      [] k = 4 -> s4 [] k = 5 -> s5 [] k = 6 -> s6 [] k = 7 -> s7]
           g == F!Shifted(n)
<1>1. ASSUME NEW k \in 0..7
      PROVE  f[k] = IF k = 0 THEN n ELSE d(f[k - 1])
  <2> HIDE DEF d
  <2> QED OBVIOUS
<1>2. Recursion(f)
  BY <1>1
<1>3. Recursion(g)
  <2> HIDE DEF f
  <2>1. g = CHOOSE s : Recursion(s)
    BY DEF F!Shifted
  <2> HIDE DEF g
  <2> QED BY <1>2, <2>1
<1> HIDE DEF g
<1>4. g[0] = n /\ \A k \in 1..7 : g[k] = g[k - 1] \div Base
  BY <1>3
<1>5. \A k \in 0..6 : g[k] \in Nat => g[k + 1] \in Nat
  <2>1. ASSUME NEW k \in 0..6, g[k] \in Nat
        PROVE  g[k + 1] \in Nat
    <3>1. g[k + 1] = g[k] \div Base
      <4>1. k + 1 \in 1..7 /\ (k + 1) - 1 = k
        OBVIOUS
      <4> QED BY <4>1, <1>4
    <3>2. Base \in Nat /\ Base > 0
      BY DEF F!FramingAssumption
    <3> QED BY <2>1, <3>1, <3>2, Division
  <2> QED BY <2>1
<1>6. \A k \in 0..7 : g[k] \in Nat
  <2>1. g[0] \in Nat
    BY <1>4
  <2>2. g[1] \in Nat
    BY <2>1, <1>5
  <2>3. g[2] \in Nat
    BY <2>2, <1>5
  <2>4. g[3] \in Nat
    BY <2>3, <1>5
  <2>5. g[4] \in Nat
    BY <2>4, <1>5
  <2>6. g[5] \in Nat
    BY <2>5, <1>5
  <2>7. g[6] \in Nat
    BY <2>6, <1>5
  <2>8. g[7] \in Nat
    BY <2>7, <1>5
  <2> QED BY <2>1, <2>2, <2>3, <2>4, <2>5, <2>6, <2>7, <2>8
<1> QED BY <1>4, <1>6 DEF g

\* Of a length that fits in two bytes one byte is left after a shift by one, of one
\* that fits in an unsigned int none after a shift by seven.
LEMMA LastShift ==
    ASSUME F!FramingAssumption, NEW n \in Nat
    PROVE  /\ n < Base * Base => F!Shifted(n)[1] < Base
           /\ n < Base * Base * Base * Base => F!Shifted(n)[7] < Base
<1> DEFINE g == F!Shifted(n)
<1>1. Base \in Nat /\ Base > 0
  BY DEF F!FramingAssumption
<1>2. /\ g[0] = n
      /\ \A k \in 1..7 : g[k] = g[k - 1] \div Base
      /\ \A k \in 0..7 : g[k] \in Nat
  BY Shifts
<1> HIDE DEF g
<1>3. n < Base * Base => g[1] < Base
  <2>1. g[1] = n \div Base
    BY <1>2
  <2> QED BY <1>1, <2>1, DivisionBelow
<1>4. ASSUME n < Base * Base * Base * Base
      PROVE  g[7] < Base
  <2>1. \A k \in 1..7, m \in Nat : g[k - 1] < m * Base => g[k] < m
    <3>1. ASSUME NEW k \in 1..7, NEW m \in Nat, g[k - 1] < m * Base
          PROVE  g[k] < m
      <4>1. g[k] = g[k - 1] \div Base /\ g[k - 1] \in Nat
        BY <1>2
      <4> QED BY <1>1, <3>1, <4>1, DivisionBelow
    <3> QED BY <3>1
  <2>2. Base * Base \in Nat /\ Base * Base * Base \in Nat
    BY <1>1
  <2>3. g[1] < Base * Base * Base
    <3>1. 1 \in 1..7 /\ g[1 - 1] = n
      BY <1>2
    <3> QED BY <1>4, <2>1, <2>2, <3>1
  <2>4. g[2] < Base * Base
    <3>1. 2 \in 1..7 /\ 2 - 1 = 1
      OBVIOUS
    <3> QED BY <2>1, <2>2, <2>3, <3>1
  <2>5. g[3] < Base
    <3>1. 3 \in 1..7 /\ 3 - 1 = 2
      OBVIOUS
    <3> QED BY <1>1, <2>1, <2>4, <3>1
  <2>6. \A k \in 4..7 : g[k] <= g[k - 1]
    <3>1. ASSUME NEW k \in 4..7
          PROVE  g[k] <= g[k - 1]
      <4>1. /\ g[k] = g[k - 1] \div Base
            /\ g[k - 1] \in Nat /\ g[k] \in Nat
        BY <1>2
      <4>2. g[k - 1] = (g[k] * Base) + (g[k - 1] % Base) /\ g[k - 1] % Base >= 0
        <5>1. /\ g[k - 1] = ((g[k - 1] \div Base) * Base) + (g[k - 1] % Base)
              /\ g[k - 1] % Base \in 0..Base - 1
          BY <1>1, <4>1, Division
        <5> QED BY <4>1, <5>1, <1>1
      <4>3. g[k] * Base >= g[k]
        BY <1>1, <4>1
      <4>4. g[k] * Base \in Nat /\ g[k - 1] % Base \in Nat
        BY <1>1, <4>1, Division
      <4> QED BY <4>1, <4>2, <4>3, <4>4
    <3> QED BY <3>1
  <2>7. /\ g[4] <= g[3] /\ g[5] <= g[4] /\ g[6] <= g[5] /\ g[7] <= g[6]
    BY <2>6
  <2>8. {g[3], g[4], g[5], g[6], g[7]} \subseteq Nat
    BY <1>2
  <2> QED BY <1>1, <2>5, <2>7, <2>8
<1> QED BY <1>3, <1>4 DEF g

\* The running values of the number that bytes tell.
Running(w, bytes) ==
    w = [i \in 0..Len(bytes) |-> IF i = 0 THEN 0 ELSE w[i - 1] * Base + bytes[i]]

\* The number that bytes tell is the last of any running values.
LEMMA NumberIs ==
    ASSUME NEW size \in {2, 8}, NEW bytes \in Seq(Nat), Len(bytes) = size,
           NEW w, Running(w, bytes)
    PROVE  F!Number(bytes) = w[Len(bytes)]
<1> DEFINE s == CHOOSE v : Running(v, bytes)
<1>1. F!Number(bytes) = s[Len(bytes)]
  BY DEF F!Number, Running
<1>2. Running(s, bytes)
  OBVIOUS
<1> HIDE DEF s
<1>3. s[0] = w[0] /\ \A i \in 0..size - 1 : s[i] = w[i] => s[i + 1] = w[i + 1]
  <2>1. s[0] = 0 /\ w[0] = 0
    BY <1>2 DEF Running
  <2>2. ASSUME NEW i \in 0..size - 1, s[i] = w[i]
        PROVE  s[i + 1] = w[i + 1]
    <3>1. i + 1 \in 0..size /\ i + 1 # 0 /\ (i + 1) - 1 = i
      OBVIOUS
    <3>2. s[i + 1] = s[i] * Base + bytes[i + 1]
      BY <1>2, <3>1 DEF Running
    <3>3. w[i + 1] = w[i] * Base + bytes[i + 1]
      BY <3>1 DEF Running
    <3> QED BY <2>2, <3>2, <3>3
  <2> QED BY <2>1, <2>2
<1>4. s[1] = w[1] /\ s[2] = w[2]
  <2>1. 0 \in 0..size - 1 /\ 1 \in 0..size - 1
    OBVIOUS
  <2>2. s[0 + 1] = w[0 + 1]
    BY <1>3, <2>1
  <2>3. s[1 + 1] = w[1 + 1]
    BY <1>3, <2>1, <2>2
  <2> QED BY <2>2, <2>3
<1>5. CASE size = 8
  <2>1. \A i \in 0..7 : s[i] = w[i] => s[i + 1] = w[i + 1]
    BY <1>3, <1>5
  <2>2. s[3] = w[3]
    BY <1>4, <2>1
  <2>3. s[4] = w[4]
    BY <2>1, <2>2
  <2>4. s[5] = w[5]
    BY <2>1, <2>3
  <2>5. s[6] = w[6]
    BY <2>1, <2>4
  <2>6. s[7] = w[7]
    BY <2>1, <2>5
  <2>7. s[8] = w[8]
    BY <2>1, <2>6
  <2> QED BY <1>1, <1>5, <2>7
<1> QED BY <1>1, <1>4, <1>5

\* The bytes that tell a length tell it: what Hybi::receive makes of those that
\* Hybi::sendMessage wrote.
LEMMA PiecesTell ==
    ASSUME F!FramingAssumption, NEW n \in Nat, NEW size \in {2, 8},
           size = 2 => n < Base * Base, n < Base * Base * Base * Base
    PROVE  /\ F!LengthPieces(n, size) \in Seq(Nat)
           /\ Len(F!LengthPieces(n, size)) = size
           /\ F!Number(F!LengthPieces(n, size)) = n
<1> DEFINE g == F!Shifted(n)
           pieces == F!LengthPieces(n, size)
           w == [i \in 0..size |-> IF i = 0 THEN 0 ELSE g[size - i]]
<1>1. Base \in Nat /\ Base > 0
  BY DEF F!FramingAssumption
<1>2. /\ g[0] = n
      /\ \A k \in 1..7 : g[k] = g[k - 1] \div Base
      /\ \A k \in 0..7 : g[k] \in Nat
  BY Shifts
<1>3. g[size - 1] < Base
  BY LastShift
<1>4. pieces = [i \in 1..size |-> g[size - i] % Base]
  BY DEF F!LengthPieces, F!LengthPiece
<1> HIDE DEF g, pieces
<1>5. \A i \in 1..size : g[size - i] \in Nat
  BY <1>2
<1>6. \A i \in 1..size : g[size - i] % Base \in Nat
  BY <1>1, <1>5, Division
<1>7. pieces \in Seq(Nat) /\ Len(pieces) = size
  BY <1>4, <1>6
<1>8. ASSUME NEW i \in 1..size
      PROVE  w[i] = w[i - 1] * Base + pieces[i]
  <2>1. w[i] = g[size - i] /\ pieces[i] = g[size - i] % Base /\ g[size - i] \in Nat
    BY <1>4, <1>5
  <2>2. CASE i = 1
    <3>1. w[i - 1] = 0 /\ g[size - i] < Base
      BY <1>3, <2>2
    <3>2. g[size - i] % Base = g[size - i]
      <4>1. /\ g[size - i] = ((g[size - i] \div Base) * Base) + (g[size - i] % Base)
            /\ g[size - i] \div Base \in Nat
        BY <1>1, <2>1, Division
      <4>2. g[size - i] \div Base < 1
        BY <1>1, <2>1, <3>1, DivisionBelow
      <4>3. g[size - i] \div Base = 0
        BY <4>1, <4>2
      <4> QED BY <1>1, <2>1, <4>1, <4>3
    <3> QED BY <2>1, <3>1, <3>2, <1>1
  <2>3. CASE i # 1
    <3>1. w[i - 1] = g[size - (i - 1)] /\ size - (i - 1) = (size - i) + 1
      BY <2>3
    <3>2. g[(size - i) + 1] = g[size - i] \div Base
      <4>1. (size - i) + 1 \in 1..7 /\ ((size - i) + 1) - 1 = size - i
        BY <2>3
      <4> QED BY <1>2, <4>1
    <3>3. g[size - i] = ((g[size - i] \div Base) * Base) + (g[size - i] % Base)
      BY <1>1, <2>1, Division
    <3> QED BY <2>1, <3>1, <3>2, <3>3
  <2> QED BY <2>2, <2>3
<1>9. Running(w, pieces)
  <2>1. DOMAIN w = 0..Len(pieces) /\ w = [i \in 0..size |-> w[i]] /\ w[0] = 0
    BY <1>7
  <2> HIDE DEF w
  <2>2. \A i \in 0..size :
            w[i] = IF i = 0 THEN 0 ELSE w[i - 1] * Base + pieces[i]
    <3>1. ASSUME NEW i \in 0..size, i # 0
          PROVE  w[i] = w[i - 1] * Base + pieces[i]
      <4>1. i \in 1..size
        BY <3>1
      <4> QED BY <1>8, <4>1
    <3> QED BY <2>1, <3>1
  <2> QED BY <1>7, <2>1, <2>2 DEF Running
<1>10. w[Len(pieces)] = n
  BY <1>2, <1>7
<1> HIDE DEF w
<1> QED BY <1>1, <1>7, <1>9, <1>10, NumberIs DEF pieces

-----------------------------------------------------------------------------
(* Framing: what is cut from a sequence that was put together *)

\* The front of a sequence that was put together.
LEMMA FrontOf ==
    ASSUME NEW S, NEW a \in Seq(S), NEW b \in Seq(S)
    PROVE  SubSeq(a \o b, 1, Len(a)) = a
<1>1. /\ a \o b \in Seq(S) /\ Len(a \o b) = Len(a) + Len(b)
      /\ \A i \in 1..Len(a) : (a \o b)[i] = a[i] /\ a[i] \in S
  BY ConcatProperties
<1> DEFINE c == SubSeq(a \o b, 1, Len(a))
<1>2. c \in Seq(S) /\ Len(c) = Len(a) /\ \A i \in 1..Len(a) : c[i] = (a \o b)[i]
  BY <1>1, SubSeqProperties
<1> HIDE DEF c
<1>3. c = a
  BY <1>1, <1>2, SeqEqual
<1> QED BY <1>3 DEF c

\* Its back.
LEMMA BackOf ==
    ASSUME NEW S, NEW a \in Seq(S), NEW b \in Seq(S)
    PROVE  SubSeq(a \o b, Len(a) + 1, Len(a) + Len(b)) = b
<1>1. /\ a \o b \in Seq(S) /\ Len(a \o b) = Len(a) + Len(b)
      /\ \A i \in 1..Len(b) : (a \o b)[Len(a) + i] = b[i] /\ b[i] \in S
  BY ConcatProperties
<1> DEFINE c == SubSeq(a \o b, Len(a) + 1, Len(a) + Len(b))
<1>2. \A i \in Len(a) + 1..Len(a) + Len(b) : (a \o b)[i] \in S
  BY <1>1
<1>3. /\ c \in Seq(S) /\ Len(c) = Len(b)
      /\ \A i \in 1..Len(b) : c[i] = (a \o b)[Len(a) + i]
  BY <1>1, <1>2, SubSeqProperties
<1> HIDE DEF c
<1>4. c = b
  BY <1>1, <1>3, SeqEqual
<1> QED BY <1>4 DEF c

\* What stands between a front and a back.
LEMMA MiddleOf ==
    ASSUME NEW S, NEW a \in Seq(S), NEW b \in Seq(S), NEW c \in Seq(S)
    PROVE  SubSeq(a \o (b \o c), Len(a) + 1, Len(a) + Len(b)) = b
<1>1. b \o c \in Seq(S) /\ Len(b \o c) = Len(b) + Len(c)
  BY ConcatProperties
<1>2. CASE b = <<>>
  BY <1>1, <1>2, SubSeqEmpty
<1>3. CASE b # <<>>
  <2>1. Len(b) \in Nat \ {0} /\ Len(a) \in Nat /\ Len(c) \in Nat
    BY <1>3
  <2>2. SubSeq(a \o (b \o c), Len(a) + 1, Len(a) + Len(b)) = SubSeq(b \o c, 1, Len(b))
    <3>1. /\ Len(a) + 1 \in Len(a) + 1..Len(a) + Len(b \o c)
          /\ Len(a) + Len(b) \in Len(a) + 1..Len(a) + Len(b \o c)
          /\ (Len(a) + 1) - Len(a) = 1 /\ (Len(a) + Len(b)) - Len(a) = Len(b)
      BY <1>1, <2>1
    <3> QED BY <1>1, <3>1, SubSeqOfConcat2
  <2> QED BY <2>2, FrontOf
<1> QED BY <1>2, <1>3

-----------------------------------------------------------------------------
(* Framing: headers *)

\* A frame is made of numbers, and of an opcode that stands for the first byte.
Symbol == Nat \cup {"text", "ping", "pong"}

\* The header h tells the opcode, and the length n in a hint and size bytes.
Tells(h, opcode, n, size) ==
    /\ h \in Seq(Symbol)
    /\ size \in {0, 2, 8} /\ Len(h) = 2 + size
    /\ h[1] = opcode
    /\ h[2] = IF size = 0 THEN n
              ELSE IF size = 2 THEN F!TwoByteLength ELSE F!EightByteLength
    /\ IF size = 0 THEN n <= ShortPayload
       ELSE F!Number(SubSeq(h, 3, 2 + size)) = n

\* A header of an opcode, a hint and the bytes of the length tells it.
LEMMA LongHeader ==
    ASSUME F!FramingAssumption, NEW n \in Nat, NEW size \in {2, 8},
           size = 2 => n < Base * Base, n < Base * Base * Base * Base,
           NEW opcode \in {"text", "ping", "pong"},
           NEW hint, hint = IF size = 2 THEN F!TwoByteLength ELSE F!EightByteLength
    PROVE  Tells(<<opcode>> \o (<<hint>> \o F!LengthPieces(n, size)), opcode, n, size)
<1> DEFINE pieces == F!LengthPieces(n, size)
           h == <<opcode>> \o (<<hint>> \o pieces)
<1>1. pieces \in Seq(Nat) /\ Len(pieces) = size /\ F!Number(pieces) = n
  BY PiecesTell
<1> HIDE DEF pieces
<1>2. hint \in Nat
  BY DEF F!FramingAssumption, F!TwoByteLength, F!EightByteLength
<1>3. /\ <<opcode>> \in Seq(Symbol) /\ <<hint>> \in Seq(Symbol)
      /\ pieces \in Seq(Symbol)
  <2>1. Nat \subseteq Symbol
    BY DEF Symbol
  <2> QED BY <1>1, <1>2, <2>1, SeqMonotonic DEF Symbol
<1>4. /\ <<hint>> \o pieces \in Seq(Symbol) /\ Len(<<hint>> \o pieces) = 1 + size
      /\ (<<hint>> \o pieces)[1] = hint
  BY <1>1, <1>3, ConcatProperties
<1>5. h \in Seq(Symbol) /\ Len(h) = 2 + size /\ h[1] = opcode /\ h[2] = hint
  <2> DEFINE u == <<hint>> \o pieces
  <2>1. u \in Seq(Symbol) /\ Len(u) = 1 + size /\ u[1] = hint
    BY <1>4
  <2> HIDE DEF u
  <2>2. <<opcode>> \o u \in Seq(Symbol) /\ Len(<<opcode>> \o u) = 2 + size
    BY <1>3, <2>1, ConcatProperties
  <2>3. (<<opcode>> \o u)[1] = opcode /\ (<<opcode>> \o u)[2] = hint
    BY <1>3, <2>1, ConcatProperties
  <2> QED BY <2>2, <2>3 DEF u
<1>6. SubSeq(h, 3, 2 + size) = pieces
  <2>1. h = (<<opcode>> \o <<hint>>) \o pieces
    BY <1>3, ConcatAssociative
  <2>2. /\ <<opcode>> \o <<hint>> \in Seq(Symbol)
        /\ Len(<<opcode>> \o <<hint>>) = 2
    BY <1>3, ConcatProperties
  <2> QED BY <1>1, <1>3, <2>1, <2>2, BackOf
<1> HIDE DEF h
<1>7. Tells(h, opcode, n, size)
  <2>1. size # 0 /\ size \in {0, 2, 8}
    OBVIOUS
  <2>2. h[2] = IF size = 0 THEN n
               ELSE IF size = 2 THEN F!TwoByteLength ELSE F!EightByteLength
    BY <1>5, <2>1
  <2>3. F!Number(SubSeq(h, 3, 2 + size)) = n
    BY <1>1, <1>6
  <2> QED BY <1>5, <2>1, <2>2, <2>3 DEF Tells
<1> QED BY <1>7 DEF h, pieces

\* A frame of sendMessage is a header that tells the opcode and the length, and the
\* payload.
LEMMA Headers ==
    ASSUME F!FramingAssumption, NEW data \in Seq(Nat), Len(data) <= MaxLength,
           NEW opcode \in {"text", "ping", "pong"}
    PROVE  \E h, size : /\ Tells(h, opcode, Len(data), size)
                        /\ F!SendMessage(opcode, data) = h \o data
<1> DEFINE n == Len(data)
           two == F!LengthPieces(n, 2)
           eight == F!LengthPieces(n, 8)
<1>1. n \in Nat /\ data \in Seq(Symbol)
  <2>1. Nat \subseteq Symbol
    BY DEF Symbol
  <2> QED BY <2>1, SeqMonotonic
<1>2. n < Base * Base * Base * Base /\ Base * Base \in Nat /\ ShortPayload \in Nat
  <2>1. /\ Base \in Nat /\ MaxLength \in Nat /\ ShortPayload \in Nat
        /\ MaxLength < Base * Base * Base * Base
    BY DEF F!FramingAssumption
  <2>2. Base * Base * Base * Base \in Nat
    BY <2>1
  <2> QED BY <1>1, <2>1, <2>2
<1> HIDE DEF n
<1>3. CASE n <= ShortPayload
  <2> DEFINE h == <<opcode>> \o <<n>>
  <2>1. F!SendMessage(opcode, data) = h \o data
    BY <1>3 DEF F!SendMessage, n
  <2>2. Tells(h, opcode, n, 0)
    <3>1. <<opcode>> \in Seq(Symbol) /\ <<n>> \in Seq(Symbol)
      BY <1>1 DEF Symbol
    <3>2. h \in Seq(Symbol) /\ Len(h) = 2 /\ h[1] = opcode /\ h[2] = n
      BY <3>1, ConcatProperties
    <3> QED BY <1>3, <3>2 DEF Tells
  <2> QED BY <2>1, <2>2 DEF n
<1>4. CASE ~(n <= ShortPayload) /\ n <= Base * Base - 1
  <2> DEFINE h == <<opcode>> \o (<<F!TwoByteLength>> \o two)
  <2>1. F!SendMessage(opcode, data) = h \o data
    BY <1>4 DEF F!SendMessage, n
  <2>2. Tells(h, opcode, n, 2)
    BY <1>1, <1>2, <1>4, LongHeader
  <2> QED BY <2>1, <2>2 DEF n
<1>5. CASE ~(n <= ShortPayload) /\ ~(n <= Base * Base - 1)
  <2> DEFINE h == <<opcode>> \o (<<F!EightByteLength>> \o eight)
  <2>1. F!SendMessage(opcode, data) = h \o data
    BY <1>5 DEF F!SendMessage, n
  <2>2. Tells(h, opcode, n, 8)
    BY <1>1, <1>2, LongHeader
  <2> QED BY <2>1, <2>2 DEF n
<1> QED BY <1>3, <1>4, <1>5

-----------------------------------------------------------------------------
(* Framing: what is read *)

\* What has arrived, s, has the header h or a part of it.
Starts(s, h) == \A i \in 1..Len(s) : i <= Len(h) => s[i] = h[i]

\* When the header has arrived, so have the bytes of the length.
LEMMA LengthBytes ==
    ASSUME NEW h \in Seq(Symbol), NEW size \in {2, 8}, Len(h) = 2 + size,
           NEW s \in Seq(Symbol), Len(s) >= 2 + size, Starts(s, h)
    PROVE  SubSeq(s, 3, 2 + size) = SubSeq(h, 3, 2 + size)
<1>1. \A i \in 3..2 + size : s[i] \in Symbol /\ h[i] \in Symbol /\ s[i] = h[i]
  BY DEF Starts
<1> DEFINE a == SubSeq(s, 3, 2 + size)
           b == SubSeq(h, 3, 2 + size)
<1>2. /\ a \in Seq(Symbol) /\ Len(a) = size
      /\ \A i \in 1..size : a[i] = s[3 + i - 1]
  BY <1>1, SubSeqProperties
<1>3. /\ b \in Seq(Symbol) /\ Len(b) = size
      /\ \A i \in 1..size : b[i] = h[3 + i - 1]
  BY <1>1, SubSeqProperties
<1> HIDE DEF a, b
<1>4. \A i \in 1..size : a[i] = b[i]
  BY <1>1, <1>2, <1>3
<1>5. a = b
  BY <1>2, <1>3, <1>4, SeqEqual
<1> QED BY <1>5 DEF a, b

\* What is made of s by a header that tells the opcode and n in size bytes.
Reading(s, opcode, n, size) ==
    IF Len(s) < 2 + size THEN F!Refusal("incomplete", s)
    ELSE IF n > LongestPayload THEN F!Refusal("error", s)
    ELSE IF Len(s) < 2 + size + 4 + n THEN F!Refusal("incomplete", s)
    ELSE F!Result(opcode, F!Unmask(F!Drop(s, 2 + size), n), F!Drop(s, 2 + size + 4 + n))

\* What Hybi::receive makes of anything that starts with a header, or a part of one,
\* depends on what the header tells and on how much has arrived.
LEMMA ReceiveIs ==
    ASSUME F!FramingAssumption, NEW h, NEW size, NEW n \in Nat,
           NEW opcode \in {"text", "ping"}, Tells(h, opcode, n, size),
           NEW s \in Seq(Symbol), Len(s) >= 2, Starts(s, h)
    PROVE  F!Receive(TRUE, s) = Reading(s, opcode, n, size)
<1> DEFINE lengthsize == IF s[2] <= ShortPayload THEN 0
                         ELSE IF s[2] = F!EightByteLength THEN 8 ELSE 2
<1>1. /\ size \in {0, 2, 8} /\ Len(h) = 2 + size /\ h \in Seq(Symbol)
      /\ h[1] = opcode
  BY DEF Tells
<1>2. s[1] = opcode /\ s[2] = h[2]
  BY <1>1 DEF Starts
<1>3. /\ ShortPayload \in Nat /\ LongestPayload \in Nat
      /\ F!TwoByteLength = ShortPayload + 1 /\ F!EightByteLength = ShortPayload + 2
  BY DEF F!FramingAssumption, F!TwoByteLength, F!EightByteLength
<1>4. lengthsize = size /\ (size = 0 => s[2] = n)
  <2>1. CASE size = 0
    BY <1>2, <2>1 DEF Tells
  <2>2. CASE size = 2
    BY <1>2, <1>3, <2>2 DEF Tells
  <2>3. CASE size = 8
    BY <1>2, <1>3, <2>3 DEF Tells
  <2> QED BY <1>1, <2>1, <2>2, <2>3
<1> HIDE DEF lengthsize
<1>5. Len(s) >= 2 + size /\ size # 0 => F!Number(SubSeq(s, 3, 2 + size)) = n
  BY LengthBytes DEF Tells
<1> DEFINE told == IF lengthsize = 0 THEN s[2]
                   ELSE F!Number(SubSeq(s, 3, 2 + lengthsize))
<1>6. F!Receive(TRUE, s) =
          IF Len(s) < 2 + lengthsize THEN F!Refusal("incomplete", s)
          ELSE IF told > LongestPayload THEN F!Refusal("error", s)
          ELSE IF Len(s) < 2 + lengthsize + 4 + told THEN F!Refusal("incomplete", s)
          ELSE F!Result(opcode, F!Unmask(F!Drop(s, 2 + lengthsize), told),
                        F!Drop(s, 2 + lengthsize + 4 + told))
  <2>1. ~(Len(s) < 2) /\ opcode # "close" /\ opcode # "other"
    OBVIOUS
  <2> QED BY <1>2, <2>1 DEF F!Receive, F!MaskingKeySize, lengthsize
<1>7. Len(s) >= 2 + size => told = n
  BY <1>4, <1>5
<1> HIDE DEF told
<1>8. CASE Len(s) < 2 + size
  BY <1>4, <1>6, <1>8 DEF Reading
<1>9. CASE ~(Len(s) < 2 + size)
  <2>1. told = n
    BY <1>1, <1>7, <1>9
  <2> QED BY <1>4, <1>6, <1>9, <2>1 DEF Reading
<1> QED BY <1>8, <1>9

\* A payload that is masked twice with a key is as it was.
LEMMA MaskTwice ==
    ASSUME F!FramingAssumption, NEW data \in Seq(F!Byte), NEW k \in MaskingKeys
    PROVE  /\ F!Mask(data, k) \in Seq(F!Byte) /\ Len(F!Mask(data, k)) = Len(data)
           /\ F!Mask(F!Mask(data, k), k) = data
<1> DEFINE at(i) == k[((i - 1) % F!MaskingKeySize) + 1]
<1>1. k \in Seq(F!Byte) /\ Len(k) = 4
  BY DEF F!FramingAssumption, F!MaskingKeySize
<1>2. /\ DOMAIN data = 1..Len(data) /\ data = [i \in DOMAIN data |-> data[i]]
      /\ \A i \in DOMAIN data : data[i] \in F!Byte
  OBVIOUS
<1>3. \A i \in DOMAIN data : at(i) \in F!Byte
  <2>1. \A i \in Nat : i % 4 \in 0..3
    OBVIOUS
  <2>2. \A i \in DOMAIN data : ((i - 1) % 4) + 1 \in 1..4
    BY <1>2, <2>1
  <2>3. \A j \in 1..4 : k[j] \in F!Byte
    BY <1>1, ElementOfSeq
  <2> QED BY <2>2, <2>3 DEF F!MaskingKeySize
<1>4. \A i \in DOMAIN data :
          /\ ByteXor(data[i], at(i)) \in F!Byte
          /\ ByteXor(ByteXor(data[i], at(i)), at(i)) = data[i]
  BY <1>2, <1>3 DEF F!FramingAssumption
<1>5. F!Mask(data, k) = [i \in 1..Len(data) |-> ByteXor(data[i], at(i))]
  BY <1>2 DEF F!Mask
<1>6. F!Mask(data, k) \in Seq(F!Byte) /\ Len(F!Mask(data, k)) = Len(data)
  <2> HIDE DEF at
  <2> QED BY <1>2, <1>4, <1>5
<1> DEFINE masked == F!Mask(data, k)
<1>7. F!Mask(masked, k) = [i \in 1..Len(data) |-> ByteXor(masked[i], at(i))]
  <2>1. DOMAIN masked = 1..Len(data)
    BY <1>5
  <2> QED BY <2>1 DEF F!Mask
<1>8. \A i \in 1..Len(data) : masked[i] = ByteXor(data[i], at(i))
  BY <1>5
<1> HIDE DEF masked, at
<1>9. F!Mask(masked, k) = data
  BY <1>2, <1>4, <1>7, <1>8
<1> QED BY <1>6, <1>9 DEF masked


\* A frame that a client makes is a header that tells the opcode and the length, the
\* key, and the masked payload.
LEMMA ClientFrames ==
    ASSUME F!FramingAssumption, NEW data \in Seq(F!Byte), Len(data) <= MaxLength,
           NEW k \in MaskingKeys, NEW opcode \in {"text", "ping"}
    PROVE  \E h, size : /\ Tells(h, opcode, Len(data), size)
                        /\ F!ClientFrame(opcode, data, k) = (h \o k) \o F!Mask(data, k)
<1>1. data \in Seq(Nat) /\ data \in Seq(Symbol)
  <2>1. F!Byte \subseteq Nat /\ F!Byte \subseteq Symbol
    BY DEF F!FramingAssumption, F!Byte, Symbol
  <2> QED BY <2>1, SeqMonotonic
<1>2. PICK h, size : /\ Tells(h, opcode, Len(data), size)
                     /\ F!SendMessage(opcode, data) = h \o data
  BY <1>1, Headers
<1>3. h \in Seq(Symbol) /\ Len(h) \in Nat /\ Len(data) \in Nat
  BY <1>1, <1>2 DEF Tells
<1>4. Len(h \o data) = Len(h) + Len(data)
  BY <1>1, <1>3, ConcatProperties
<1>5. Len(h \o data) - Len(data) = Len(h) /\ Len(h) <= Len(h \o data)
  BY <1>3, <1>4
<1>6. F!Take(h \o data, Len(h)) = h
  BY <1>1, <1>3, <1>5, FrontOf DEF F!Take, F!Piece
<1> QED BY <1>2, <1>5, <1>6 DEF F!ClientFrame

\* The parts of a frame.
LEMMA PartsOfFrame ==
    ASSUME F!FramingAssumption, NEW h, NEW size, NEW opcode,
           NEW m \in Seq(F!Byte), Tells(h, opcode, Len(m), size), NEW k \in MaskingKeys
    PROVE  /\ k \in Seq(Symbol) /\ Len(k) = 4 /\ m \in Seq(Symbol)
           /\ (h \o k) \o m \in Seq(Symbol)
           /\ Len((h \o k) \o m) = 2 + size + 4 + Len(m)
           /\ (h \o k) \o m = h \o (k \o m)
<1>1. h \in Seq(Symbol) /\ Len(h) = 2 + size /\ size \in {0, 2, 8}
  BY DEF Tells
<1>2. F!Byte \subseteq Symbol
  BY DEF F!FramingAssumption, F!Byte, Symbol
<1>3. k \in Seq(F!Byte) /\ Len(k) = 4
  BY DEF F!FramingAssumption, F!MaskingKeySize
<1>4. k \in Seq(Symbol) /\ m \in Seq(Symbol) /\ Len(m) \in Nat
  BY <1>2, <1>3, SeqMonotonic
<1>5. h \o k \in Seq(Symbol) /\ Len(h \o k) = Len(h) + Len(k)
  BY <1>1, <1>4, ConcatProperties
<1>6. (h \o k) \o m \in Seq(Symbol) /\ Len((h \o k) \o m) = Len(h \o k) + Len(m)
  BY <1>4, <1>5, ConcatProperties
<1>7. Len((h \o k) \o m) = 2 + size + 4 + Len(m)
  BY <1>1, <1>3, <1>4, <1>5, <1>6
<1>8. (h \o k) \o m = h \o (k \o m)
  BY <1>1, <1>4, ConcatAssociative
<1> QED BY <1>3, <1>4, <1>6, <1>7, <1>8

\* The server reads a frame of a client and leaves what follows it.
LEMMA ServerReads ==
    ASSUME F!FramingAssumption, NEW data \in Seq(F!Byte), Len(data) <= MaxLength,
           NEW k \in MaskingKeys, NEW opcode \in {"text", "ping"},
           NEW rest \in Seq(Symbol)
    PROVE  LET f == F!ClientFrame(opcode, data, k) \o rest
           IN  F!Receive(TRUE, f) = IF Len(data) > LongestPayload
                                    THEN F!Refusal("error", f)
                                    ELSE F!Result(opcode, data, rest)
<1> DEFINE n == Len(data)
           m == F!Mask(data, k)
<1>1. m \in Seq(F!Byte) /\ Len(m) = n /\ F!Mask(m, k) = data
  BY MaskTwice
<1>2. PICK h, size : /\ Tells(h, opcode, n, size)
                     /\ F!ClientFrame(opcode, data, k) = (h \o k) \o m
  BY ClientFrames
<1>3. n \in Nat
  OBVIOUS
<1> HIDE DEF n, m
<1> DEFINE g == (h \o k) \o m
           u == k \o (m \o rest)
           f == g \o rest
<1>4. h \in Seq(Symbol) /\ Len(h) = 2 + size /\ size \in {0, 2, 8}
  BY <1>2 DEF Tells
<1>5. /\ k \in Seq(Symbol) /\ Len(k) = 4 /\ m \in Seq(Symbol)
      /\ g \in Seq(Symbol) /\ Len(g) = 2 + size + 4 + n /\ g = h \o (k \o m)
  <2>1. Tells(h, opcode, Len(m), size)
    BY <1>1, <1>2
  <2> QED BY <1>1, <2>1, PartsOfFrame
<1>6. /\ m \o rest \in Seq(Symbol) /\ Len(m \o rest) = n + Len(rest)
      /\ k \o m \in Seq(Symbol)
  BY <1>1, <1>5, ConcatProperties
<1>7. u \in Seq(Symbol) /\ Len(u) = 4 + (n + Len(rest))
  <2> DEFINE v == m \o rest
  <2>1. v \in Seq(Symbol) /\ Len(v) = n + Len(rest)
    BY <1>6
  <2> HIDE DEF v
  <2>2. k \o v \in Seq(Symbol) /\ Len(k \o v) = Len(k) + Len(v)
    BY <1>5, <2>1, ConcatProperties
  <2> QED BY <1>5, <2>1, <2>2 DEF v
<1>8. f = h \o u
  <2>1. (h \o (k \o m)) \o rest = h \o ((k \o m) \o rest)
    <3> DEFINE v == k \o m
    <3>1. v \in Seq(Symbol)
      BY <1>6
    <3> HIDE DEF v
    <3>2. (h \o v) \o rest = h \o (v \o rest)
      BY <1>4, <3>1, ConcatAssociative
    <3> QED BY <3>2 DEF v
  <2>2. (k \o m) \o rest = k \o (m \o rest)
    BY <1>5, ConcatAssociative
  <2> QED BY <1>5, <2>1, <2>2
<1>9. f \in Seq(Symbol) /\ Len(f) = 2 + size + 4 + n + Len(rest)
  <2> HIDE DEF g
  <2> QED BY <1>5, ConcatProperties
<1>10. Len(rest) \in Nat
  OBVIOUS
<1>11. Starts(f, h)
  <2> HIDE DEF f, u
  <2>1. \A i \in 1..Len(h) : (h \o u)[i] = h[i]
    BY <1>4, <1>7, ConcatProperties
  <2> QED BY <1>8, <2>1, <1>4, <1>9 DEF Starts
<1>12. F!Drop(f, 2 + size) = u
  <2>1. Len(f) = Len(h) + Len(u)
    BY <1>3, <1>4, <1>7, <1>9, <1>10
  <2>2. SubSeq(h \o u, Len(h) + 1, Len(h) + Len(u)) = u
    BY <1>4, <1>7, BackOf
  <2> HIDE DEF f, u
  <2>3. SubSeq(f, (2 + size) + 1, Len(f)) = u
    BY <1>4, <1>8, <2>1, <2>2
  <2> QED BY <2>3 DEF F!Drop
<1>13. F!Unmask(u, n) = data
  <2>1. SubSeq(u, 4 + 1, 4 + n) = m
    <3>1. SubSeq(u, Len(k) + 1, Len(k) + Len(m)) = m
      BY <1>5, MiddleOf
    <3> QED BY <1>1, <1>5, <3>1
  <2>2. SubSeq(u, 1, 4) = k
    BY <1>5, <1>6, FrontOf
  <2>3. 4 <= Len(u)
    BY <1>3, <1>7, <1>10
  <2> HIDE DEF u
  <2> QED BY <1>1, <2>1, <2>2, <2>3 DEF F!Unmask, F!Take, F!Piece, F!MaskingKeySize
<1>14. F!Drop(f, 2 + size + 4 + n) = rest
  <2> HIDE DEF g
  <2>1. SubSeq(f, Len(g) + 1, Len(g) + Len(rest)) = rest
    BY <1>5, BackOf
  <2> HIDE DEF f
  <2> QED BY <1>5, <1>9, <2>1 DEF F!Drop
<1> HIDE DEF g, f, u
<1>15. Len(f) >= 2 + size + 4 + n
  BY <1>3, <1>4, <1>9, <1>10
<1>16. F!Receive(TRUE, f) = Reading(f, opcode, n, size)
  <2>1. Len(f) >= 2
    BY <1>3, <1>4, <1>15, <1>9
  <2> QED BY <1>2, <1>3, <1>9, <1>11, <2>1, ReceiveIs
<1>17. Len(f) \in Nat /\ ~(Len(f) < 2 + size) /\ ~(Len(f) < 2 + size + 4 + n)
  BY <1>3, <1>4, <1>9, <1>15
<1>18. F!Receive(TRUE, f) = IF n > LongestPayload THEN F!Refusal("error", f)
                            ELSE F!Result(opcode, data, rest)
  BY <1>12, <1>13, <1>14, <1>16, <1>17 DEF Reading
<1> QED BY <1>2, <1>18 DEF f, g, n

\* A frame that a client makes is made of symbols.
LEMMA FrameIsSeq ==
    ASSUME F!FramingAssumption, NEW data \in Seq(F!Byte), Len(data) <= MaxLength,
           NEW k \in MaskingKeys, NEW opcode \in {"text", "ping"}
    PROVE  F!ClientFrame(opcode, data, k) \in Seq(Symbol)
<1> DEFINE m == F!Mask(data, k)
<1>1. m \in Seq(F!Byte) /\ Len(m) = Len(data)
  BY MaskTwice
<1>2. PICK h, size : /\ Tells(h, opcode, Len(data), size)
                     /\ F!ClientFrame(opcode, data, k) = (h \o k) \o m
  BY ClientFrames
<1> HIDE DEF m
<1>3. Tells(h, opcode, Len(m), size)
  BY <1>1, <1>2
<1> QED BY <1>1, <1>2, <1>3, PartsOfFrame

\* A part of a frame of an allowed length is never taken for the whole.
LEMMA PartWaits ==
    ASSUME F!FramingAssumption, NEW data \in Seq(F!Byte), Len(data) <= MaxLength,
           Len(data) <= LongestPayload, NEW k \in MaskingKeys,
           NEW opcode \in {"text", "ping"},
           NEW last \in 2..Len(F!ClientFrame(opcode, data, k)) - 1
    PROVE  LET part == F!Take(F!ClientFrame(opcode, data, k), last)
           IN  F!Receive(TRUE, part) = F!Refusal("incomplete", part)
<1> DEFINE n == Len(data)
           m == F!Mask(data, k)
           f == F!ClientFrame(opcode, data, k)
           part == F!Take(f, last)
<1>1. m \in Seq(F!Byte) /\ Len(m) = n /\ n \in Nat
  BY MaskTwice
<1>2. PICK h, size : Tells(h, opcode, n, size) /\ f = (h \o k) \o m
  BY ClientFrames
<1> HIDE DEF n, m
<1>3. h \in Seq(Symbol) /\ Len(h) = 2 + size /\ size \in {0, 2, 8}
  BY <1>2 DEF Tells
<1>4. f \in Seq(Symbol) /\ Len(f) = 2 + size + 4 + n /\ f = h \o (k \o m)
  <2>1. Tells(h, opcode, Len(m), size)
    BY <1>1, <1>2
  <2> QED BY <1>1, <1>2, <2>1, PartsOfFrame
<1>5. k \o m \in Seq(Symbol)
  <2>1. Tells(h, opcode, Len(m), size)
    BY <1>1, <1>2
  <2>2. k \in Seq(Symbol) /\ m \in Seq(Symbol)
    BY <1>1, <2>1, PartsOfFrame
  <2> QED BY <2>2, ConcatProperties
<1>6. \A i \in 1..Len(h) : f[i] = h[i]
  <2> DEFINE v == k \o m
  <2>1. v \in Seq(Symbol)
    BY <1>5
  <2> HIDE DEF v
  <2>2. \A i \in 1..Len(h) : (h \o v)[i] = h[i]
    BY <1>3, <2>1, ConcatProperties
  <2> QED BY <1>4, <2>2 DEF v
<1> HIDE DEF f
<1>7. last \in 2..Len(f) - 1
  BY DEF f
<1>8. part = SubSeq(f, 1, last)
  BY <1>4, <1>7 DEF F!Take, F!Piece
<1>9. /\ part \in Seq(Symbol) /\ Len(part) = last
      /\ \A i \in 1..last : part[i] = f[i]
  <2>1. \A i \in 1..last : f[i] \in Symbol
    BY <1>4, <1>7
  <2> QED BY <1>7, <1>8, <2>1, SubSeqProperties
<1> HIDE DEF part
<1>10. Starts(part, h)
  BY <1>3, <1>6, <1>7, <1>9 DEF Starts
<1>11. F!Receive(TRUE, part) = Reading(part, opcode, n, size)
  <2>1. Len(part) >= 2
    BY <1>7, <1>9
  <2> QED BY <1>1, <1>2, <1>9, <1>10, <2>1, ReceiveIs
<1>12. Len(part) < 2 + size + 4 + n
  BY <1>1, <1>3, <1>4, <1>7, <1>9
<1>13. ~(n > LongestPayload)
  BY <1>1 DEF F!FramingAssumption, n
<1>14. F!Receive(TRUE, part) = F!Refusal("incomplete", part)
  BY <1>11, <1>12, <1>13 DEF Reading
<1> QED BY <1>14 DEF part, f

\* A client reads back what sendMessage made of a message, and nothing is left.
LEMMA ClientReadsBack ==
    ASSUME F!FramingAssumption, NEW data \in Seq(F!Byte), Len(data) <= MaxLength,
           NEW opcode \in {"text", "pong"}
    PROVE  F!ClientReads(F!SendMessage(opcode, data)) = F!Result(opcode, data, <<>>)
<1> DEFINE n == Len(data)
<1>1. data \in Seq(Nat) /\ data \in Seq(Symbol) /\ n \in Nat
  <2>1. F!Byte \subseteq Nat /\ F!Byte \subseteq Symbol
    BY DEF F!FramingAssumption, F!Byte, Symbol
  <2>2. data \in Seq(Nat) /\ data \in Seq(Symbol)
    BY <2>1, SeqMonotonic
  <2> QED BY <2>2
<1>2. PICK h, size : Tells(h, opcode, n, size) /\ F!SendMessage(opcode, data) = h \o data
  BY <1>1, Headers
<1>3. h \in Seq(Symbol) /\ Len(h) = 2 + size /\ size \in {0, 2, 8} /\ h[1] = opcode
  BY <1>2 DEF Tells
<1> DEFINE f == h \o data
<1>4. /\ f \in Seq(Symbol) /\ Len(f) = Len(h) + n
      /\ \A i \in 1..Len(h) : f[i] = h[i]
  BY <1>1, <1>3, ConcatProperties
<1>5. SubSeq(f, Len(h) + 1, Len(h) + n) = data
  BY <1>1, <1>3, BackOf
<1> HIDE DEF f, n
<1>6. f[1] = opcode /\ f[2] = h[2]
  BY <1>3, <1>4
<1>7. Starts(f, h)
  BY <1>3, <1>4 DEF Starts
<1> DEFINE told == IF f[2] <= ShortPayload THEN 0
                   ELSE IF f[2] = F!TwoByteLength THEN 2 ELSE 8
<1>8. told = size /\ (size = 0 => f[2] = n)
  <2>1. /\ ShortPayload \in Nat /\ F!TwoByteLength = ShortPayload + 1
        /\ F!EightByteLength = ShortPayload + 2
    BY DEF F!FramingAssumption, F!TwoByteLength, F!EightByteLength
  <2>2. CASE size = 0
    BY <1>6, <1>2, <2>2 DEF Tells
  <2>3. CASE size = 2
    BY <1>6, <1>2, <2>1, <2>3 DEF Tells
  <2>4. CASE size = 8
    BY <1>6, <1>2, <2>1, <2>4 DEF Tells
  <2> QED BY <1>3, <2>2, <2>3, <2>4
<1>9. size # 0 => F!Number(F!Piece(f, 3, 2 + size)) = n
  <2>1. SUFFICES ASSUME size # 0
                 PROVE  F!Piece(f, 3, 2 + size) = SubSeq(h, 3, 2 + size)
    BY <1>2 DEF Tells
  <2>2. 2 + size <= Len(f)
    BY <1>1, <1>3, <1>4
  <2>3. F!Piece(f, 3, 2 + size) = SubSeq(f, 3, 2 + size)
    BY <2>2 DEF F!Piece
  <2>4. SubSeq(f, 3, 2 + size) = SubSeq(h, 3, 2 + size)
    BY <1>3, <1>4, <1>7, <2>1, <2>2, LengthBytes
  <2> QED BY <2>3, <2>4
<1>10. F!Piece(f, 3 + size, 2 + size + n) = data
  <2>1. 2 + size + n = Len(f) /\ 3 + size = Len(h) + 1 /\ Len(h) + n = Len(f)
    BY <1>1, <1>3, <1>4
  <2> QED BY <1>5, <2>1 DEF F!Piece
<1>11. F!Drop(f, 2 + size + n) = <<>>
  <2>1. 2 + size + n = Len(f) /\ Len(f) \in Int
    BY <1>1, <1>3, <1>4
  <2>2. SubSeq(f, Len(f) + 1, Len(f)) = <<>>
    BY <2>1, SubSeqEmpty
  <2> QED BY <2>1, <2>2 DEF F!Drop
<1> DEFINE length == IF told = 0 THEN f[2] ELSE F!Number(F!Piece(f, 3, 2 + told))
<1>12. length = n
  <2> HIDE DEF told
  <2> QED BY <1>8, <1>9
<1>13. F!ClientReads(f) = F!Result(f[1], F!Piece(f, 3 + told, 2 + told + length),
                                   F!Drop(f, 2 + told + length))
  BY DEF F!ClientReads
<1> HIDE DEF told, length
<1>14. F!ClientReads(f) = F!Result(opcode, data, <<>>)
  BY <1>6, <1>8, <1>10, <1>11, <1>12, <1>13
<1> QED BY <1>2, <1>14 DEF f

-----------------------------------------------------------------------------
(* Framing: the properties *)

\* Payloads and keys are what they should be.
FramingInv ==
    payload \in Seq(F!Byte) /\ Len(payload) <= MaxLength /\ key \in MaskingKeys

LEMMA FramingInvariant == ASSUME F!FramingAssumption PROVE F!Spec => []FramingInv
<1>1. F!Init => FramingInv
  BY DEF F!Init, FramingInv, F!FramingAssumption
<1>2. FramingInv /\ [F!Next]_(F!vars) => FramingInv'
  <2>1. ASSUME FramingInv, NEW b \in F!Byte, F!Grow(b)
        PROVE  FramingInv'
    <3>1. /\ Append(payload, b) \in Seq(F!Byte)
          /\ Len(Append(payload, b)) = Len(payload) + 1
      BY <2>1, AppendProperties DEF FramingInv
    <3>2. MaxLength \in Nat
      BY DEF F!FramingAssumption
    <3> QED BY <2>1, <3>1, <3>2 DEF FramingInv, F!Grow
  <2>2. ASSUME FramingInv, UNCHANGED F!vars
        PROVE  FramingInv'
    BY <2>2 DEF FramingInv, F!vars
  <2> QED BY <2>1, <2>2 DEF F!Next
<1> QED BY <1>1, <1>2, PTL DEF F!Spec

\* Each side reads what the other wrote: a client what Hybi::sendMessage made of a
\* message, Hybi::receive what a client sent, whatever follows it, and no part of it
\* for the whole; a client that sent a ping reads its payload back.  For bytes of
\* any number of values, payloads of any bytes and any length that fits in an
\* unsigned int, any limits and any masking keys.
THEOREM FramesCorrect == ASSUME F!FramingAssumption PROVE F!Spec => []FramesOK
<1>1. ASSUME FramingInv
      PROVE  F!FramesOK
  <2>1. payload \in Seq(F!Byte) /\ Len(payload) <= MaxLength /\ key \in MaskingKeys
    BY <1>1 DEF FramingInv
  <2>2. F!ClientUnderstands
    BY <2>1, ClientReadsBack DEF F!ClientUnderstands
  <2>3. F!ServerUnderstands
    <3>1. ASSUME NEW rest \in {<<>>, <<"text", 0>>}
          PROVE  F!Receive(TRUE, F!Frame("text") \o rest) =
                     IF F!Allowed THEN F!Result("text", payload, rest)
                     ELSE F!Refusal("error", F!Frame("text") \o rest)
      <4>1. rest \in Seq(Symbol)
        <5>1. <<>> \in Seq(Symbol) /\ <<"text", 0>> \in Seq(Symbol)
          BY DEF Symbol
        <5> QED BY <5>1
      <4>2. F!Receive(TRUE, F!Frame("text") \o rest) =
                IF Len(payload) > LongestPayload
                THEN F!Refusal("error", F!Frame("text") \o rest)
                ELSE F!Result("text", payload, rest)
        BY <2>1, <4>1, ServerReads DEF F!Frame
      <4>3. F!Allowed <=> ~(Len(payload) > LongestPayload)
        BY <2>1 DEF F!Allowed, F!FramingAssumption
      <4> QED BY <4>2, <4>3
    <3> QED BY <3>1 DEF F!ServerUnderstands
  <2>4. F!PartsAreIncomplete
    <3>1. ASSUME NEW last \in 2..Len(F!Frame("text")) - 1, F!Allowed
          PROVE  LET part == F!Take(F!Frame("text"), last)
                 IN  F!Receive(TRUE, part) = F!Refusal("incomplete", part)
      BY <2>1, <3>1, PartWaits DEF F!Frame, F!Allowed
    <3> QED BY <3>1 DEF F!PartsAreIncomplete
  <2>5. F!PongAnswers
    <3>1. SUFFICES ASSUME F!Allowed
                   PROVE  F!ClientReads(F!Pong(TRUE, F!Frame("ping"))).output = payload
      BY DEF F!PongAnswers
    <3>2. F!Receive(TRUE, F!Frame("ping")).output = payload
      <4>1. <<>> \in Seq(Symbol)
        OBVIOUS
      <4>2. ~(Len(payload) > LongestPayload)
        BY <2>1, <3>1 DEF F!Allowed, F!FramingAssumption
      <4>3. F!Receive(TRUE, F!Frame("ping") \o <<>>) = F!Result("ping", payload, <<>>)
        BY <2>1, <4>1, <4>2, ServerReads DEF F!Frame
      <4>4. F!Frame("ping") \o <<>> = F!Frame("ping")
        <5>1. F!Frame("ping") \in Seq(Symbol)
          BY <2>1, FrameIsSeq DEF F!Frame
        <5> QED BY <5>1, ConcatEmptySeq
      <4>5. F!Result("ping", payload, <<>>).output = payload
        BY DEF F!Result
      <4> QED BY <4>3, <4>4, <4>5
    <3>3. F!ClientReads(F!SendMessage("pong", payload)) = F!Result("pong", payload, <<>>)
      BY <2>1, ClientReadsBack
    <3>4. F!Result("pong", payload, <<>>).output = payload
      BY DEF F!Result
    <3>5. F!Pong(TRUE, F!Frame("ping")) = F!SendMessage("pong", payload)
      BY <3>2 DEF F!Pong
    <3> QED BY <3>3, <3>4, <3>5
  <2> QED BY <2>2, <2>3, <2>4, <2>5 DEF F!FramesOK
<1> QED BY <1>1, FramingInvariant, PTL DEF FramesOK
=============================================================================
