---------------------------- MODULE StorageProofs ----------------------------
(***************************************************************************)
(* Proofs about what the server keeps: the chat log (ChatLog), the list    *)
(* of users in Redis (RedisQueue), the lists of operators and bans         *)
(* (Persistence) and the channels (SavedChannels) in files.                *)
(*                                                                         *)
(* ChatLog: what a reader got and what is queued for it are the last of    *)
(* the log, said entry by entry and half by half (Sent), of which InOrder  *)
(* is the equation.  A wake-up is not lost as the wake-ups that come too   *)
(* early are known (WakeupsAreKnown), and so is a stop that does (StopInv).*)
(*                                                                         *)
(* RedisQueue: a queue of requests is followed by what it makes of a name  *)
(* (WillHaveAppended, WillHaveTail); the thread moves requests to Redis    *)
(* and changes nothing of it.  Once it is stopped, at most three steps are *)
(* left (RedisStops).                                                      *)
(*                                                                         *)
(* Persistence: in the middle of a handler, a file that does not have what *)
(* memory has is still to be written (SavedOrToCome), and the last write   *)
(* of it that is to come writes what memory has (LastIsRight); so no step  *)
(* but a fault adds to the files that are wrong.                           *)
(*                                                                         *)
(* SavedChannels: the list of operators is a function of the type and the  *)
(* moderators of each channel (OpsOf), which each binding keeps or after   *)
(* which it is made anew.                                                  *)
(***************************************************************************)
EXTENDS Threads, Files, FiniteSetTheorems, SequenceTheorems, TLAPS

-----------------------------------------------------------------------------
(* ChatLog *)

Half == Nat \X {1, 2}

LogTypes ==
    /\ TypeOK /\ doRun \in BOOLEAN /\ async \in BOOLEAN
    /\ entries \in Nat
    /\ requestQueue \in Seq(Nat) /\ log \in Seq(Nat)
    /\ entryQueue \in [Reader -> Seq(Nat)] /\ writeOffset \in [Reader -> {0, 1}]
    /\ received \in [Reader -> Seq(Half)] /\ since \in [Reader -> Nat]

\* The k-th half of what a reader should get is one of the entry it is half of.
HalfOf(r, k) == <<log[since[r] + ((k + 1) \div 2)], 2 - (k % 2)>>

\* All that is due to r but what it has got is queued for it.
Sent(r) ==
    LET due == Len(log) - since[r]
        queued == Len(entryQueue[r])
    IN  /\ 0 <= queued /\ queued <= due
        /\ Len(received[r]) = 2 * (due - queued) + writeOffset[r]
        /\ \A k \in 1 .. Len(received[r]) : received[r][k] = HalfOf(r, k)
        /\ \A i \in 1 .. queued : entryQueue[r][i] = log[(Len(log) - queued) + i]

ReadersOfTheRunning ==
    /\ thread # "none" => chatLogger
    /\ chatLogger => thread # "none"
    /\ ~chatLogger => connected = {}
    /\ \A r \in Reader \ connected : entryQueue[r] = <<>> /\ writeOffset[r] = 0

\* A wake-up that came too early is known to be missed, and a stop that disturbs
\* nothing finds the logger at rest until it is woken, and nothing to be written.
WakeupsAreKnown ==
    /\ requestQueue # <<>> /\ doRun /\ thread \in {"starting", "preparing"} /\ ~missed
         => main = "added"
    /\ main \in {"clearing", "stopping"} /\ ~disturbed => thread = "loop" /\ ~async
    /\ main = "clearing" /\ ~disturbed => \A r \in connected : entryQueue[r] = <<>>

\* For as long as the stop takes, there is a thread and its flag is down.
StopInv ==
    /\ StopIsSeen
    /\ main \in {"clearing", "stopping", "joining"} => ~doRun /\ thread # "none"

LogInv ==
    /\ LogTypes /\ ReadersOfTheRunning /\ (\A r \in connected : Sent(r))
    /\ NoLostWakeup /\ QuietStopIsSafe /\ WakeupsAreKnown /\ StopInv

-----------------------------------------------------------------------------
(* Halves *)

LEMMA HalfIndex ==
    ASSUME NEW m \in Nat
    PROVE  /\ ((2 * m + 1) + 1) \div 2 = m + 1 /\ 2 - ((2 * m + 1) % 2) = 1
           /\ ((2 * m + 2) + 1) \div 2 = m + 1 /\ 2 - ((2 * m + 2) % 2) = 2
OBVIOUS

LEMMA HalfShift ==
    ASSUME NEW k \in Int, NEW d \in Int
    PROVE  /\ ((k - 2 * d) + 1) \div 2 = ((k + 1) \div 2) - d
           /\ (k - 2 * d) % 2 = k % 2
OBVIOUS

LEMMA HalfRange ==
    ASSUME NEW n \in Nat, NEW k \in 1 .. 2 * n
    PROVE  (k + 1) \div 2 \in 1 .. n /\ 2 - (k % 2) \in {1, 2}
OBVIOUS

LEMMA FunctionsAreSequences ==
    ASSUME NEW T, NEW n \in Nat, NEW f \in [1 .. n -> T]
    PROVE  f \in Seq(T) /\ Len(f) = n
<1>1. f \in Seq(T)
  BY SeqDef
<1>2. Len(f) \in Nat /\ DOMAIN f = 1 .. Len(f) /\ DOMAIN f = 1 .. n
  BY <1>1, LenProperties
<1> QED BY <1>1, <1>2

LEMMA HalvesOf ==
    ASSUME NEW s \in Seq(Nat)
    PROVE  /\ Halves(s) \in Seq(Half) /\ Len(Halves(s)) = 2 * Len(s)
           /\ \A k \in 1 .. 2 * Len(s) :
                Halves(s)[k] = <<s[(k + 1) \div 2], 2 - (k % 2)>>
<1>1. 2 * Len(s) \in Nat /\ Len(s) \in Nat
  OBVIOUS
<1>2. ASSUME NEW k \in 1 .. 2 * Len(s)
      PROVE  <<s[(k + 1) \div 2], 2 - (k % 2)>> \in Half
  <2>1. (k + 1) \div 2 \in 1 .. Len(s) /\ 2 - (k % 2) \in {1, 2}
    BY <1>1, HalfRange
  <2>2. s[(k + 1) \div 2] \in Nat
    BY <2>1, ElementOfSeq
  <2> QED BY <2>1, <2>2 DEF Half
<1>3. Halves(s) \in [1 .. 2 * Len(s) -> Half]
  BY <1>2 DEF Halves
<1> QED BY <1>1, <1>3, FunctionsAreSequences DEF Halves

\* What Sent says by its parts is the equation of InOrder.
LEMMA SentInOrder ==
    ASSUME LogTypes, NEW r \in connected, Sent(r)
    PROVE  received[r] \o SubSeq(Halves(entryQueue[r]), writeOffset[r] + 1,
                                 2 * Len(entryQueue[r]))
               = Halves(SubSeq(log, since[r] + 1, Len(log)))
<1> DEFINE got == received[r]
           queue == entryQueue[r]
           q == Len(queue)
           w == writeOffset[r]
           n == Len(log) - since[r]
           due == SubSeq(log, since[r] + 1, Len(log))
           waits == SubSeq(Halves(queue), w + 1, 2 * q)
<1>1. /\ r \in Reader /\ got \in Seq(Half) /\ queue \in Seq(Nat) /\ q \in Nat
      /\ w \in {0, 1} /\ since[r] \in Nat /\ log \in Seq(Nat) /\ Len(log) \in Nat
      /\ w = 1 => q > 0
  <2>1. r \in Reader
    BY DEF LogTypes, TypeOK
  <2>2. w = 1 => queue # <<>>
    BY <2>1 DEF LogTypes, TypeOK
  <2>3. /\ got \in Seq(Half) /\ queue \in Seq(Nat)
        /\ w \in {0, 1} /\ since[r] \in Nat /\ log \in Seq(Nat)
    BY <2>1 DEF LogTypes
  <2> QED BY <2>1, <2>2, <2>3, EmptySeq
<1>2. /\ q <= n /\ Len(got) = 2 * (n - q) + w
      /\ \A k \in 1 .. Len(got) : got[k] = HalfOf(r, k)
      /\ \A i \in 1 .. q : queue[i] = log[(Len(log) - q) + i]
  BY DEF Sent
<1>3. n \in Nat
  BY <1>1, <1>2
<1>4. /\ due \in Seq(Nat) /\ Len(due) = n
      /\ \A i \in 1 .. n : due[i] = log[since[r] + i]
  <2>1. \A i \in since[r] + 1 .. Len(log) : log[i] \in Nat
    BY <1>1
  <2>2. since[r] + 1 \in Int /\ Len(log) \in Int
    BY <1>1
  <2>3. /\ due \in Seq(Nat)
        /\ Len(due) = IF since[r] + 1 <= Len(log) THEN Len(log) - (since[r] + 1) + 1 ELSE 0
        /\ \A i \in 1 .. Len(log) - (since[r] + 1) + 1 :
             due[i] = log[(since[r] + 1) + i - 1]
    BY <2>1, <2>2, SubSeqProperties
  <2>4. Len(log) - (since[r] + 1) + 1 = n
    BY <1>1
  <2>5. Len(due) = n
    BY <1>1, <1>3, <2>3
  <2>6. ASSUME NEW i \in 1 .. n PROVE due[i] = log[since[r] + i]
    <3>1. (since[r] + 1) + i - 1 = since[r] + i
      BY <1>1, <1>3
    <3> QED BY <2>3, <2>4, <3>1
  <2> QED BY <2>3, <2>5, <2>6
<1>5. /\ waits \in Seq(Half) /\ Len(waits) = 2 * q - w
      /\ \A i \in 1 .. 2 * q - w : waits[i] = Halves(queue)[w + i]
  <2>1. /\ Halves(queue) \in Seq(Half) /\ Len(Halves(queue)) = 2 * q
    BY <1>1, HalvesOf
  <2>2. \A i \in w + 1 .. 2 * q : Halves(queue)[i] \in Half
    BY <1>1, <2>1
  <2>3. w + 1 \in Int /\ 2 * q \in Int
    BY <1>1
  <2> HIDE DEF q, w
  <2>4. /\ waits \in Seq(Half)
        /\ Len(waits) = IF w + 1 <= 2 * q THEN 2 * q - (w + 1) + 1 ELSE 0
        /\ \A i \in 1 .. 2 * q - (w + 1) + 1 :
             waits[i] = Halves(queue)[(w + 1) + i - 1]
    BY <2>2, <2>3, SubSeqProperties
  <2>5. 2 * q - (w + 1) + 1 = 2 * q - w /\ Len(waits) = 2 * q - w
    BY <1>1, <2>4
  <2>6. ASSUME NEW i \in 1 .. 2 * q - w PROVE waits[i] = Halves(queue)[w + i]
    <3>1. (w + 1) + i - 1 = w + i
      BY <1>1
    <3> QED BY <2>4, <2>5, <3>1
  <2> QED BY <2>4, <2>5, <2>6
<1> HIDE DEF got, queue, q, w, n, due, waits
<1>6. /\ got \o waits \in Seq(Half) /\ Len(got \o waits) = 2 * n
      /\ \A k \in 1 .. 2 * n : (got \o waits)[k] =
             IF k <= Len(got) THEN got[k] ELSE waits[k - Len(got)]
  <2>1. Len(got) + Len(waits) = 2 * n
    BY <1>1, <1>2, <1>3, <1>5
  <2>2. /\ got \o waits \in Seq(Half) /\ Len(got \o waits) = Len(got) + Len(waits)
        /\ \A k \in 1 .. Len(got) + Len(waits) : (got \o waits)[k] =
               IF k <= Len(got) THEN got[k] ELSE waits[k - Len(got)]
    BY <1>1, <1>5, ConcatProperties, Zenon
  <2> QED BY <2>1, <2>2
<1>7. /\ Halves(due) \in Seq(Half) /\ Len(Halves(due)) = 2 * n
      /\ \A k \in 1 .. 2 * n : Halves(due)[k] = <<due[(k + 1) \div 2], 2 - (k % 2)>>
  BY <1>4, HalvesOf
<1>8. ASSUME NEW k \in 1 .. 2 * n PROVE (got \o waits)[k] = Halves(due)[k]
  <2>1. (k + 1) \div 2 \in 1 .. n /\ k \in Int
    BY <1>3, HalfRange
  <2>2. Halves(due)[k] = HalfOf(r, k)
    BY <1>4, <1>7, <2>1 DEF HalfOf
  <2>3. CASE k <= Len(got)
    BY <1>2, <1>3, <1>6, <2>2, <2>3
  <2>4. CASE ~(k <= Len(got))
    <3> DEFINE i == k - Len(got)
               j == k - 2 * (n - q)
    <3>1. /\ i \in 1 .. 2 * q - w /\ w + i = j /\ j \in 1 .. 2 * q
      <4>1. /\ k \in 1 .. 2 * n /\ n \in Nat /\ q \in Nat /\ q <= n /\ w \in {0, 1}
            /\ Len(got) = 2 * (n - q) + w /\ ~(k <= Len(got))
        BY <1>1, <1>2, <1>3, <2>4
      <4>2. k \in Int /\ k > 2 * (n - q) + w /\ k <= 2 * n
        BY <4>1
      <4> QED BY ONLY <4>1, <4>2 DEF i, j
    <3>2. (got \o waits)[k] = Halves(queue)[j]
      BY <1>5, <1>6, <2>4, <3>1
    <3>3. Halves(queue)[j] = <<queue[(j + 1) \div 2], 2 - (j % 2)>>
      <4> HIDE DEF i, j
      <4>1. Halves(queue)[j] = <<queue[(j + 1) \div 2], 2 - (j % 2)>>
        BY <1>1, <3>1, HalvesOf DEF q
      <4> QED BY <4>1
    <3>4. (j + 1) \div 2 = ((k + 1) \div 2) - (n - q) /\ j % 2 = k % 2
      BY <1>1, <1>3, <2>1, HalfShift
    <3>5. (j + 1) \div 2 \in 1 .. q
      BY <1>1, <3>1, HalfRange
    <3> HIDE DEF i, j
    <3>6. queue[(j + 1) \div 2] = log[(Len(log) - q) + ((j + 1) \div 2)]
      BY <1>2, <3>5
    <3>7. (Len(log) - q) + ((j + 1) \div 2) = since[r] + ((k + 1) \div 2)
      <4> DEFINE x == (k + 1) \div 2
                 y == (j + 1) \div 2
                 total == Len(log)
                 before == since[r]
      <4>1. /\ x \in Int /\ y = x - (n - q) /\ n = total - before
            /\ total \in Int /\ before \in Int /\ q \in Int
        BY <1>1, <2>1, <3>4 DEF n
      <4> HIDE DEF x, y, total, before
      <4>2. (total - q) + y = before + x
        BY <4>1
      <4> QED BY <4>2 DEF x, y, total, before
    <3> QED BY <2>2, <3>2, <3>3, <3>4, <3>6, <3>7 DEF HalfOf
  <2> QED BY <2>3, <2>4
<1>9. got \o waits = Halves(due)
  BY <1>6, <1>7, <1>8, SeqEqual
<1> QED BY <1>9 DEF got, queue, q, w, due, waits

-----------------------------------------------------------------------------
(* Types *)

LEMMA LogInitially == ASSUME Init PROVE LogInv
<1>1. <<>> \in Seq(Nat) /\ <<>> \in Seq(Half) /\ Len(<<>>) = 0
  OBVIOUS
<1>2. LogTypes
  <2>1. MaxPending \in Nat
    BY BoundAssumption
  <2>2. {chatLogger, doRun, async, crashed, missed, disturbed, stopLost} \subseteq BOOLEAN
    BY DEF Init
  <2>3. /\ entryQueue \in [Reader -> Seq(Nat)] /\ writeOffset \in [Reader -> {0, 1}]
        /\ received \in [Reader -> Seq(Half)] /\ since \in [Reader -> Nat]
        /\ requestQueue \in Seq(Nat) /\ log \in Seq(Nat) /\ entries \in Nat
        /\ \A r \in Reader : writeOffset[r] = 1 => entryQueue[r] # <<>>
    BY <1>1 DEF Init
  <2>4. /\ main \in {"idle", "added", "clearing", "stopping", "joining"} /\ connected \subseteq Reader
        /\ thread \in {"none", "starting", "preparing", "loop", "processing", "exited"}
        /\ Len(requestQueue) <= MaxPending
    BY <1>1, <2>1 DEF Init
  <2> QED BY <2>2, <2>3, <2>4 DEF LogTypes, TypeOK
<1> QED
  BY <1>2
  DEF Init, LogInv, ReadersOfTheRunning, NoLostWakeup, QuietStopIsSafe, WakeupsAreKnown,
      StopInv, StopIsSeen

LEMMA ServerTypes == ASSUME LogTypes, MainStep PROVE LogTypes'
<1> USE DEF LogTypes, TypeOK, readers
<1>1. CASE LoggerStart
  <2>1. <<>> \in Seq(Nat) /\ Len(<<>>) = 0 /\ MaxPending \in Nat
    BY BoundAssumption
  <2>2. {chatLogger', doRun', async', crashed', missed', disturbed', stopLost'} \subseteq BOOLEAN
    BY <1>1 DEF LoggerStart
  <2>3. requestQueue' \in Seq(Nat) /\ log' \in Seq(Nat) /\ Len(requestQueue') <= MaxPending
    BY <1>1, <2>1 DEF LoggerStart
  <2>4. thread' = "starting" /\ UNCHANGED <<main, readers, entries>>
    BY <1>1 DEF LoggerStart
  <2> QED BY <2>2, <2>3, <2>4
<1>2. CASE LogMessage
  <2>1. entries' \in Nat /\ main' = "added"
        /\ UNCHANGED <<chatLogger, doRun, thread, async, readers, crashed, log, missed,
                       disturbed, stopLost>>
    BY <1>2 DEF LogMessage
  <2>2. requestQueue' \in Seq(Nat) /\ Len(requestQueue') <= MaxPending
    <3>1. CASE Len(requestQueue) < MaxPending /\ requestQueue' = Append(requestQueue, entries')
      <4>1. Len(requestQueue') = Len(requestQueue) + 1 /\ requestQueue' \in Seq(Nat)
        BY <2>1, <3>1
      <4>2. MaxPending \in Nat /\ Len(requestQueue) \in Nat
        BY BoundAssumption
      <4> QED BY <3>1, <4>1, <4>2
    <3>2. CASE UNCHANGED requestQueue
      BY <3>2
    <3> QED BY <1>2, <3>1, <3>2 DEF LogMessage, AddLogEntry
  <2> QED BY <2>1, <2>2
<1>3. CASE SendWakeup
  <2>1. async' \in BOOLEAN /\ missed' \in BOOLEAN
    BY <1>3 DEF SendWakeup, Ready
  <2>2. main' = "idle"
        /\ UNCHANGED <<chatLogger, doRun, thread, requestQueue, readers, crashed, entries,
                       log, disturbed, stopLost>>
    BY <1>3 DEF SendWakeup
  <2> QED BY <2>1, <2>2
<1>4. CASE StopThread
  <2>1. disturbed' \in BOOLEAN /\ doRun' = FALSE /\ main' = "clearing"
    BY <1>4 DEF StopThread
  <2>2. UNCHANGED <<chatLogger, thread, requestQueue, async, readers, crashed, entries, log,
                    missed, stopLost>>
    BY <1>4 DEF StopThread
  <2> QED BY <2>1, <2>2
<1>5. CASE SendStop
  <2>1. async' \in BOOLEAN /\ stopLost' \in BOOLEAN /\ main' = "joining"
    BY <1>5 DEF SendStop, Ready
  <2>2. crashed' \in BOOLEAN
    BY <1>5 DEF SendStop
  <2>3. UNCHANGED <<chatLogger, doRun, thread, requestQueue, readers, entries, log, missed,
                    disturbed>>
    BY <1>5 DEF SendStop
  <2> QED BY <2>1, <2>2, <2>3
<1>6. CASE Joined
  <2>1. <<>> \in Seq(Nat) /\ Len(<<>>) = 0 /\ MaxPending \in Nat
    BY BoundAssumption
  <2>2. {chatLogger', doRun', async', crashed', missed', disturbed', stopLost'} \subseteq BOOLEAN
    BY <1>6 DEF Joined
  <2>3. /\ requestQueue' \in Seq(Nat) /\ log' \in Seq(Nat)
        /\ Len(requestQueue') <= MaxPending
    BY <1>6, <2>1 DEF Joined
  <2>4. /\ entryQueue' \in [Reader -> Seq(Nat)] /\ writeOffset' \in [Reader -> {0, 1}]
        /\ \A r \in Reader : writeOffset'[r] = 1 => entryQueue'[r] # <<>>
    BY <1>6, <2>1 DEF Joined
  <2>5. /\ main' = "idle" /\ thread' = "none" /\ connected' = {}
        /\ UNCHANGED <<since, received, entries>>
    BY <1>6 DEF Joined
  <2> QED BY <2>2, <2>3, <2>4, <2>5
<1>7. CASE DeleteReaders
  <2>1. <<>> \in Seq(Nat)
    OBVIOUS
  <2>2. crashed' \in BOOLEAN
    BY <1>7 DEF DeleteReaders
  <2>3. /\ main' = "stopping" /\ connected' = {}
        /\ entryQueue' = [r \in Reader |-> <<>>] /\ writeOffset' = [r \in Reader |-> 0]
        /\ UNCHANGED <<chatLogger, doRun, thread, requestQueue, async, entries, log, since,
                       received, missed, disturbed, stopLost>>
    BY <1>7 DEF DeleteReaders
  <2>4. entryQueue' \in [Reader -> Seq(Nat)] /\ writeOffset' \in [Reader -> {0, 1}]
        /\ \A r \in Reader : writeOffset'[r] = 1 => entryQueue'[r] # <<>>
    BY <2>1, <2>3
  <2> QED BY <2>2, <2>3, <2>4
<1> QED BY <1>1, <1>2, <1>3, <1>4, <1>5, <1>6, <1>7 DEF MainStep

\* A step that uses the readers may harm the process, and disturbs if it does.
LEMMA UseFacts ==
    ASSUME LogTypes, UsesReaders
    PROVE  /\ crashed' \in BOOLEAN /\ disturbed' \in BOOLEAN
           /\ disturbed => disturbed'
           /\ crashed' => disturbed'
           /\ main = "clearing" => disturbed'
           /\ main # "clearing" => ~crashed' /\ disturbed' = disturbed
BY DEF UsesReaders, LogTypes, TypeOK

\* What writeCallback sends of the entry at the front.
LEMMA HeadOfQueue ==
    ASSUME LogTypes, NEW r \in Reader, entryQueue[r] # <<>>
    PROVE  /\ Head(entryQueue[r]) \in Nat /\ Head(entryQueue[r]) = entryQueue[r][1]
           /\ Tail(entryQueue[r]) \in Seq(Nat) /\ Len(entryQueue[r]) \in Nat \ {0}
           /\ Len(Tail(entryQueue[r])) = Len(entryQueue[r]) - 1
           /\ \A i \in 1 .. Len(entryQueue[r]) - 1 :
                Tail(entryQueue[r])[i] = entryQueue[r][i + 1]
<1>1. entryQueue[r] \in Seq(Nat)
  BY DEF LogTypes
<1> QED BY <1>1

\* A half at the end.
LEMMA HalfAdded ==
    ASSUME NEW got \in Seq(Half), NEW h \in Half
    PROVE  /\ got \o <<h>> \in Seq(Half) /\ Len(got \o <<h>>) = Len(got) + 1
           /\ \A k \in 1 .. Len(got) : (got \o <<h>>)[k] = got[k]
           /\ (got \o <<h>>)[Len(got) + 1] = h
           /\ Len(got) \in Nat
<1>1. got \o <<h>> = Append(got, h)
  BY AppendIsConcat
<1> QED BY <1>1, AppendProperties

LEMMA WriteFacts ==
    ASSUME LogTypes, NEW r \in Reader, WriteComplete(r)
    PROVE  LET got == received[r]
               e == Head(entryQueue[r])
               new == received'[r]
           IN  /\ r \in connected /\ entryQueue[r] # <<>>
               /\ received' \in [Reader -> Seq(Half)] /\ writeOffset' \in [Reader -> {0, 1}]
               /\ entryQueue' \in [Reader -> Seq(Nat)]
               /\ entryQueue'[r] = Tail(entryQueue[r]) /\ writeOffset'[r] = 0
               /\ Len(new) = Len(got) + 2 - writeOffset[r]
               /\ \A k \in 1 .. Len(got) : new[k] = got[k]
               /\ new[Len(new)] = <<e, 2>>
               /\ writeOffset[r] = 0 => new[Len(new) - 1] = <<e, 1>>
               /\ \A v \in Reader \ {r} :
                    /\ received'[v] = received[v] /\ entryQueue'[v] = entryQueue[v]
                    /\ writeOffset'[v] = writeOffset[v]
<1> DEFINE got == received[r]
           e == Head(entryQueue[r])
           first == IF writeOffset[r] = 0 THEN <<<<e, 1>>>> ELSE <<>>
           new == got \o first \o <<<<e, 2>>>>
<1>1. /\ r \in connected /\ entryQueue[r] # <<>>
      /\ received' = [received EXCEPT ![r] = new]
      /\ entryQueue' = [entryQueue EXCEPT ![r] = Tail(@)]
      /\ writeOffset' = [writeOffset EXCEPT ![r] = 0]
  BY DEF WriteComplete
<1>2. /\ received \in [Reader -> Seq(Half)] /\ writeOffset \in [Reader -> {0, 1}]
      /\ entryQueue \in [Reader -> Seq(Nat)] /\ got \in Seq(Half)
      /\ writeOffset[r] \in {0, 1}
  BY DEF LogTypes
<1>3. e \in Nat /\ Tail(entryQueue[r]) \in Seq(Nat)
  BY <1>1, HeadOfQueue
<1> HIDE DEF got, e
<1>4. <<e, 1>> \in Half /\ <<e, 2>> \in Half
  BY <1>3 DEF Half
<1>5. CASE writeOffset[r] = 0
  <2>1. first = <<<<e, 1>>>>
    BY <1>5
  <2>2. /\ got \o first \in Seq(Half) /\ Len(got \o first) = Len(got) + 1
        /\ \A k \in 1 .. Len(got) : (got \o first)[k] = got[k]
        /\ (got \o first)[Len(got) + 1] = <<e, 1>>
    BY <1>2, <1>4, <2>1, HalfAdded
  <2> HIDE DEF first
  <2>4. /\ new \in Seq(Half) /\ Len(new) = (Len(got) + 1) + 1
        /\ \A k \in 1 .. Len(got) + 1 : new[k] = (got \o first)[k]
        /\ new[(Len(got) + 1) + 1] = <<e, 2>>
    BY <1>4, <2>2, HalfAdded
  <2> HIDE DEF new
  <2>5. Len(got) \in Nat
    BY <1>2
  <2>6. Len(new) - 1 = Len(got) + 1 /\ Len(new) = Len(got) + 2 - writeOffset[r]
        /\ (Len(got) + 1) + 1 = Len(new)
    BY <1>5, <2>4, <2>5
  <2>7. \A k \in 1 .. Len(got) : k \in 1 .. Len(got) + 1
    BY <2>5
  <2>8. Len(got) + 1 \in 1 .. Len(got) + 1
    BY <2>5
  <2>9. /\ new[Len(new) - 1] = <<e, 1>> /\ new[Len(new)] = <<e, 2>>
        /\ \A k \in 1 .. Len(got) : new[k] = got[k]
    BY <2>2, <2>4, <2>6, <2>7, <2>8
  <2>10. /\ received'[r] = new /\ entryQueue'[r] = Tail(entryQueue[r])
        /\ writeOffset'[r] = 0
        /\ received' \in [Reader -> Seq(Half)] /\ entryQueue' \in [Reader -> Seq(Nat)]
        /\ writeOffset' \in [Reader -> {0, 1}]
        /\ \A v \in Reader \ {r} :
             /\ received'[v] = received[v] /\ entryQueue'[v] = entryQueue[v]
             /\ writeOffset'[v] = writeOffset[v]
    BY <1>1, <1>2, <1>3, <2>4
  <2> QED BY <1>1, <1>5, <2>4, <2>6, <2>9, <2>10 DEF got, e
<1>6. CASE writeOffset[r] = 1
  <2>1. first = <<>>
    BY <1>6
  <2>2. got \o first = got
    BY <1>2, <2>1, ConcatEmptySeq
  <2>5. new = got \o <<<<e, 2>>>>
    BY <2>2
  <2> HIDE DEF new, first
  <2>3. /\ new \in Seq(Half) /\ Len(new) = Len(got) + 1
        /\ \A k \in 1 .. Len(got) : new[k] = got[k]
        /\ new[Len(got) + 1] = <<e, 2>> /\ Len(got) \in Nat
    BY <1>2, <1>4, <2>5, HalfAdded
  <2>4. Len(new) = Len(got) + 2 - writeOffset[r]
    BY <1>6, <2>3
  <2>6. /\ received'[r] = new /\ entryQueue'[r] = Tail(entryQueue[r])
        /\ writeOffset'[r] = 0
        /\ received' \in [Reader -> Seq(Half)] /\ entryQueue' \in [Reader -> Seq(Nat)]
        /\ writeOffset' \in [Reader -> {0, 1}]
        /\ \A v \in Reader \ {r} :
             /\ received'[v] = received[v] /\ entryQueue'[v] = entryQueue[v]
             /\ writeOffset'[v] = writeOffset[v]
    BY <1>1, <1>2, <1>3, <2>3
  <2> QED BY <1>1, <1>6, <2>3, <2>4, <2>6 DEF got, e
<1> QED BY <1>2, <1>5, <1>6

LEMMA LoggerTypes == ASSUME LogTypes, LoggerStep PROVE LogTypes'
<1>0. LogTypes
  OBVIOUS
<1> USE DEF LogTypes, TypeOK, server, readers
<1>1. CASE Runner \/ StartAsync \/ RunnerFails \/ ProcessQueue
  BY <1>1 DEF Runner, StartAsync, RunnerFails, ProcessQueue
<1>2. CASE GetQueueEntry
  <2>1. CASE requestQueue = <<>>
    BY <1>2, <2>1 DEF GetQueueEntry
  <2>2. CASE requestQueue # <<>>
    <3>1. /\ requestQueue' = Tail(requestQueue)
          /\ log' = Append(log, Head(requestQueue))
          /\ entryQueue' = [r \in Reader |-> IF r \in connected
                               THEN Append(entryQueue[r], Head(requestQueue))
                               ELSE entryQueue[r]]
          /\ UNCHANGED <<thread, missed, chatLogger, doRun, main, async, connected,
                         writeOffset, since, received, entries, stopLost>>
      BY <1>2, <2>2 DEF GetQueueEntry, ProcessEntry
    <3>6. crashed' \in BOOLEAN /\ disturbed' \in BOOLEAN
      <4> HIDE DEF LogTypes, TypeOK
      <4> QED BY <1>0, <1>2, <2>2, UseFacts DEF GetQueueEntry
    <3>2. Head(requestQueue) \in Nat /\ Tail(requestQueue) \in Seq(Nat)
          /\ Len(Tail(requestQueue)) = Len(requestQueue) - 1 /\ Len(requestQueue) \in Nat
          /\ MaxPending \in Nat
      BY <2>2, BoundAssumption
    <3>3. Len(requestQueue') <= MaxPending /\ requestQueue' \in Seq(Nat)
      BY <3>1, <3>2
    <3>4. log' \in Seq(Nat) /\ entryQueue' \in [Reader -> Seq(Nat)]
      BY <3>1, <3>2
    <3>5. \A r \in Reader : writeOffset'[r] = 1 => entryQueue'[r] # <<>>
      <4>1. ASSUME NEW r \in Reader, writeOffset[r] = 1, r \in connected
            PROVE  Append(entryQueue[r], Head(requestQueue)) # <<>>
        <5>1. entryQueue[r] \in Seq(Nat)
          OBVIOUS
        <5> HIDE DEF LogTypes, TypeOK
        <5> QED BY <3>2, <5>1, AppendProperties
      <4> QED BY <3>1, <4>1
    <3> QED BY <3>1, <3>3, <3>4, <3>5, <3>6
  <2> QED BY <2>1, <2>2
<1>7. ASSUME NEW r \in Reader,
             Accept(r) \/ WriteComplete(r) \/ WritePart(r) \/ WriteFails(r)
      PROVE  crashed' \in BOOLEAN /\ disturbed' \in BOOLEAN
  <2> HIDE DEF LogTypes, TypeOK
  <2> QED BY <1>0, <1>7, UseFacts DEF Accept, WriteComplete, WritePart, WriteFails
<1>3. ASSUME NEW r \in Reader, Accept(r) PROVE LogTypes'
  <2>1. Len(log) \in Nat /\ <<>> \in Seq(Half)
    OBVIOUS
  <2> QED BY <1>3, <1>7, <2>1 DEF Accept
<1>4. ASSUME NEW r \in Reader, WriteComplete(r) PROVE LogTypes'
  <2>0. LogTypes
    OBVIOUS
  <2>1. /\ received' \in [Reader -> Seq(Half)] /\ writeOffset' \in [Reader -> {0, 1}]
        /\ entryQueue' \in [Reader -> Seq(Nat)]
        /\ \A v \in Reader \ {r} :
             entryQueue'[v] = entryQueue[v] /\ writeOffset'[v] = writeOffset[v]
        /\ writeOffset'[r] = 0
    <3> HIDE DEF LogTypes, TypeOK
    <3> QED BY <1>4, <2>0, WriteFacts
  <2>2. /\ UNCHANGED <<server, thread, requestQueue, async, connected, since, entries, log,
                       missed, stopLost>>
        /\ crashed' \in BOOLEAN /\ disturbed' \in BOOLEAN
    BY <1>4, <1>7 DEF WriteComplete
  <2>3. \A v \in Reader : writeOffset[v] = 1 => entryQueue[v] # <<>>
    OBVIOUS
  <2>4. ASSUME NEW v \in Reader, writeOffset'[v] = 1 PROVE entryQueue'[v] # <<>>
    <3> HIDE DEF LogTypes, TypeOK
    <3>1. v # r
      BY <2>1, <2>4
    <3> QED BY <2>1, <2>3, <2>4, <3>1
  <2> QED BY <2>1, <2>2, <2>4
<1>5. ASSUME NEW r \in Reader, WritePart(r) PROVE LogTypes'
  <2>1. <<Head(entryQueue[r]), 1>> \in Half
    BY <1>5, HeadOfQueue DEF WritePart, Half
  <2>2. received' \in [Reader -> Seq(Half)] /\ writeOffset' \in [Reader -> {0, 1}]
    BY <1>5, <2>1 DEF WritePart
  <2>3. \A v \in Reader : writeOffset'[v] = 1 => entryQueue'[v] # <<>>
    BY <1>5 DEF WritePart
  <2> QED BY <1>5, <1>7, <2>2, <2>3 DEF WritePart
<1>6. ASSUME NEW r \in Reader, WriteFails(r) PROVE LogTypes'
  <2>1. <<>> \in Seq(Nat)
    OBVIOUS
  <2>2. /\ connected' \subseteq Reader /\ entryQueue' \in [Reader -> Seq(Nat)]
        /\ writeOffset' \in [Reader -> {0, 1}]
    BY <1>6, <2>1 DEF WriteFails
  <2>3. \A v \in Reader : writeOffset'[v] = 1 => entryQueue'[v] # <<>>
    BY <1>6 DEF WriteFails
  <2>4. UNCHANGED <<server, thread, requestQueue, async, since, received, entries, log,
                    missed, stopLost>>
    BY <1>6 DEF WriteFails
  <2> QED BY <1>6, <1>7, <2>2, <2>3, <2>4
<1> QED BY <1>1, <1>2, <1>3, <1>4, <1>5, <1>6 DEF LoggerStep

LEMMA LogSteps == ASSUME LogTypes, [Next]_vars PROVE LogTypes'
<1>1. CASE UNCHANGED vars
  BY <1>1 DEF LogTypes, TypeOK, vars, server, readers
<1> QED BY <1>1, ServerTypes, LoggerTypes DEF Next

-----------------------------------------------------------------------------
(* The readers *)

LEMMA ReadersSteps ==
    ASSUME LogTypes, ReadersOfTheRunning, [Next]_vars
    PROVE  ReadersOfTheRunning'
<1>1. /\ thread # "none" => chatLogger
      /\ chatLogger => thread # "none"
      /\ ~chatLogger => connected = {}
      /\ \A r \in Reader \ connected : entryQueue[r] = <<>> /\ writeOffset[r] = 0
  BY DEF ReadersOfTheRunning
<1>2. CASE LoggerStart
  <2>1. chatLogger' = TRUE /\ thread' = "starting" /\ UNCHANGED readers
    BY <1>2 DEF LoggerStart
  <2> QED BY <1>1, <2>1 DEF readers, ReadersOfTheRunning
<1>10. CASE LogMessage \/ SendWakeup \/ StopThread \/ SendStop
  <2>1. UNCHANGED <<chatLogger, thread, readers>>
    BY <1>10 DEF LogMessage, SendWakeup, StopThread, SendStop
  <2> QED BY <1>1, <2>1 DEF readers, ReadersOfTheRunning
<1>3. CASE DeleteReaders \/ Joined
  <2>1. /\ connected' = {} /\ entryQueue' = [r \in Reader |-> <<>>]
        /\ writeOffset' = [r \in Reader |-> 0]
    BY <1>3 DEF DeleteReaders, Joined
  <2>2. \/ UNCHANGED <<chatLogger, thread>>
        \/ chatLogger' = FALSE /\ thread' = "none"
    BY <1>3 DEF DeleteReaders, Joined
  <2> QED BY <1>1, <2>1, <2>2 DEF ReadersOfTheRunning
<1>4. CASE Runner \/ StartAsync \/ RunnerFails \/ ProcessQueue
  BY <1>1, <1>4
  DEF Runner, StartAsync, RunnerFails, ProcessQueue, Logger, server, readers, ReadersOfTheRunning
<1>5. CASE GetQueueEntry
  <2>1. /\ \A r \in Reader \ connected : entryQueue'[r] = entryQueue[r]
        /\ thread' # "none" /\ thread # "none"
        /\ UNCHANGED <<chatLogger, connected, writeOffset>>
    BY <1>5 DEF GetQueueEntry, ProcessEntry, Logger, server
  <2> QED BY <1>1, <2>1 DEF ReadersOfTheRunning
<1>6. ASSUME NEW r \in Reader, Accept(r) PROVE ReadersOfTheRunning'
  BY <1>1, <1>6 DEF Accept, Logger, server, ReadersOfTheRunning
<1>7. ASSUME NEW r \in Reader, WriteComplete(r) \/ WritePart(r) PROVE ReadersOfTheRunning'
  <2>1. /\ r \in connected
        /\ \A v \in Reader \ {r} :
             entryQueue'[v] = entryQueue[v] /\ writeOffset'[v] = writeOffset[v]
        /\ UNCHANGED <<chatLogger, thread, connected>>
    BY <1>7 DEF WriteComplete, WritePart, server, LogTypes
  <2> QED BY <1>1, <2>1 DEF ReadersOfTheRunning
<1>8. ASSUME NEW r \in Reader, WriteFails(r) PROVE ReadersOfTheRunning'
  <2>1. /\ r \in connected /\ connected' = connected \ {r}
        /\ \A v \in Reader \ {r} :
             entryQueue'[v] = entryQueue[v] /\ writeOffset'[v] = writeOffset[v]
        /\ entryQueue'[r] = <<>> /\ writeOffset'[r] = 0
        /\ UNCHANGED <<chatLogger, thread>>
    BY <1>8 DEF WriteFails, server, LogTypes
  <2> QED BY <1>1, <2>1 DEF ReadersOfTheRunning
<1>9. CASE UNCHANGED vars
  BY <1>1, <1>9 DEF vars, server, readers, ReadersOfTheRunning
<1> QED
  BY <1>2, <1>3, <1>4, <1>5, <1>6, <1>7, <1>8, <1>9, <1>10
  DEF Next, MainStep, LoggerStep

-----------------------------------------------------------------------------
(* The wake-ups *)

LEMMA WakeupSteps ==
    ASSUME LogTypes, NoLostWakeup, QuietStopIsSafe, WakeupsAreKnown, [Next]_vars
    PROVE  NoLostWakeup' /\ QuietStopIsSafe' /\ WakeupsAreKnown'
<1> USE DEF NoLostWakeup, QuietStopIsSafe, WakeupsAreKnown
<1>1. CASE LoggerStart
  BY <1>1 DEF LoggerStart, Main
<1>2. CASE LogMessage
  BY <1>2 DEF LogMessage, Main
<1>3. CASE SendWakeup
  BY <1>3 DEF SendWakeup, Main, Ready
<1>4. CASE StopThread
  <2>1. disturbed' = (thread # "loop" \/ async \/ \E r \in connected : entryQueue[r] # <<>>)
    BY <1>4 DEF StopThread
  <2>2. /\ ~crashed /\ ~doRun' /\ main' = "clearing"
        /\ UNCHANGED <<thread, async, crashed, connected, entryQueue>>
    BY <1>4 DEF StopThread, Main, readers
  <2> QED BY <2>1, <2>2
<1>13. CASE DeleteReaders
  <2>1. crashed' => thread = "processing" \/ \E r \in connected : entryQueue[r] # <<>>
    BY <1>13 DEF DeleteReaders
  <2>2. /\ main = "clearing" /\ main' = "stopping"
        /\ UNCHANGED <<doRun, thread, async, requestQueue, missed, disturbed>>
    BY <1>13 DEF DeleteReaders, Main
  <2> QED BY <2>1, <2>2
<1>5. CASE SendStop
  <2>1. /\ main = "stopping" /\ main' = "joining" /\ ~crashed
        /\ async' = (async \/ Ready)
        /\ UNCHANGED <<doRun, thread, requestQueue, missed, disturbed>>
    BY <1>5 DEF SendStop, Main
  <2>2. crashed' => thread \in {"starting", "exited"}
    BY <1>5 DEF SendStop
  <2> QED BY <2>1, <2>2 DEF Ready
<1>6. CASE Joined
  BY <1>6 DEF Joined, Main
<1>7. CASE Runner \/ StartAsync
  BY <1>7 DEF Runner, StartAsync, Logger, server, readers
<1>8. CASE RunnerFails
  BY <1>8 DEF RunnerFails, Logger, readers
<1>9. CASE ProcessQueue
  BY <1>9 DEF ProcessQueue, Logger, server, readers
<1>10. CASE GetQueueEntry
  <2>1. /\ thread = "processing" /\ ~crashed /\ thread' \in {"loop", "processing"}
        /\ thread' = "loop" => requestQueue' = <<>>
        /\ UNCHANGED <<doRun, main, async>>
    BY <1>10 DEF GetQueueEntry, Logger, server
  <2>2. (disturbed => disturbed') /\ (crashed' => disturbed')
    BY <1>10, <2>1, UseFacts DEF GetQueueEntry
  <2> QED BY <2>1, <2>2
<1>11. ASSUME NEW r \in Reader,
              Accept(r) \/ WriteComplete(r) \/ WritePart(r) \/ WriteFails(r)
       PROVE  NoLostWakeup' /\ QuietStopIsSafe' /\ WakeupsAreKnown'
  <2>1. UNCHANGED <<requestQueue, doRun, thread, missed, async, main>>
    BY <1>11 DEF Accept, WriteComplete, WritePart, WriteFails, server
  <2>2. /\ disturbed => disturbed'
        /\ crashed' => disturbed'
        /\ main = "clearing" => disturbed'
    BY <1>11, UseFacts DEF Accept, WriteComplete, WritePart, WriteFails
  <2> QED BY <2>1, <2>2
<1>12. CASE UNCHANGED vars
  BY <1>12 DEF vars, server, readers
<1> QED
  BY <1>1, <1>2, <1>3, <1>4, <1>5, <1>6, <1>7, <1>8, <1>9, <1>10, <1>11, <1>12, <1>13
  DEF Next, MainStep, LoggerStep

LEMMA StopSteps ==
    ASSUME ReadersOfTheRunning, LogTypes, StopInv, [Next]_vars
    PROVE  StopInv'
<1> USE DEF StopInv, StopIsSeen, Ready
<1>1. CASE LoggerStart \/ LogMessage \/ SendWakeup \/ Joined
  BY <1>1 DEF LoggerStart, LogMessage, SendWakeup, Joined, Main
<1>6. CASE StopThread
  <2>1. /\ doRun' = FALSE /\ main' = "clearing" /\ thread' = thread /\ thread # "none"
    BY <1>6 DEF StopThread, ReadersOfTheRunning
  <2> QED BY <2>1
<1>7. CASE DeleteReaders
  BY <1>7 DEF DeleteReaders, Main
<1>2. CASE SendStop
  <2>1. /\ main = "stopping" /\ main' = "joining"
        /\ async' = (async \/ Ready) /\ stopLost' = (thread = "preparing")
        /\ UNCHANGED <<doRun, thread>>
    BY <1>2 DEF SendStop, Main
  <2>2. thread = "starting" => crashed'
    BY <1>2 DEF SendStop
  <2>3. /\ ~doRun
        /\ thread \in {"starting", "preparing", "loop", "processing", "exited"}
    BY <2>1 DEF LogTypes, TypeOK
  <2> QED BY <2>1, <2>2, <2>3
<1>3. CASE Runner \/ StartAsync \/ RunnerFails \/ ProcessQueue \/ GetQueueEntry
  BY <1>3 DEF Runner, StartAsync, RunnerFails, ProcessQueue, GetQueueEntry, Logger, server
<1>4. ASSUME NEW r \in Reader,
             Accept(r) \/ WriteComplete(r) \/ WritePart(r) \/ WriteFails(r)
      PROVE  StopInv'
  <2>1. UNCHANGED <<doRun, thread, async, main, stopLost>> /\ ~crashed
    BY <1>4 DEF Accept, WriteComplete, WritePart, WriteFails, Logger, server
  <2> QED BY <2>1
<1>5. CASE UNCHANGED vars
  BY <1>5 DEF vars, server
<1> QED BY <1>1, <1>2, <1>3, <1>4, <1>5, <1>6, <1>7 DEF Next, MainStep, LoggerStep

-----------------------------------------------------------------------------
(* What readers are sent *)

LEMMA SentStays ==
    ASSUME NEW r, Sent(r), log' = log, since'[r] = since[r], received'[r] = received[r],
           entryQueue'[r] = entryQueue[r], writeOffset'[r] = writeOffset[r]
    PROVE  Sent(r)'
BY DEF Sent, HalfOf

\* An entry more is due and queued.
LEMMA SentWhenLogged ==
    ASSUME LogTypes, NEW r \in connected, Sent(r), GetQueueEntry
    PROVE  Sent(r)'
<1>1. r \in Reader
  BY DEF LogTypes, TypeOK
<1>2. CASE requestQueue = <<>>
  BY <1>2, SentStays DEF GetQueueEntry
<1>3. CASE requestQueue # <<>>
  <2> DEFINE e == Head(requestQueue)
             n == Len(log)
             q == Len(entryQueue[r])
             got == received[r]
             first == since[r]
             queue == entryQueue[r]
  <2>1. /\ log' = Append(log, e) /\ entryQueue'[r] = Append(queue, e)
        /\ received'[r] = got /\ since'[r] = first
        /\ writeOffset'[r] = writeOffset[r]
    BY <1>1, <1>3 DEF GetQueueEntry, ProcessEntry
  <2>2. /\ log \in Seq(Nat) /\ queue \in Seq(Nat) /\ got \in Seq(Half) /\ first \in Nat
        /\ requestQueue \in Seq(Nat) /\ writeOffset[r] \in {0, 1}
    BY <1>1 DEF LogTypes
  <2>3. writeOffset[r] = 1 => queue # <<>>
    BY <1>1 DEF LogTypes, TypeOK
  <2>4. e \in Nat
    BY <1>3, <2>2
  <2>5. /\ n \in Nat /\ q \in Nat /\ Len(got) \in Nat
        /\ writeOffset[r] = 1 => q > 0
    BY <2>2, <2>3, EmptySeq
  <2>6. /\ 0 <= q /\ q <= n - first
        /\ Len(got) = 2 * ((n - first) - q) + writeOffset[r]
        /\ \A k \in 1 .. Len(got) : got[k] = HalfOf(r, k)
        /\ \A i \in 1 .. q : queue[i] = log[(n - q) + i]
    BY DEF Sent
  <2> HIDE DEF e, got, first, queue
  <2>7. /\ Len(log') = n + 1
        /\ \A i \in 1 .. n : log'[i] = log[i]
        /\ log'[n + 1] = e
    BY <2>1, <2>2, <2>4, AppendProperties
  <2>8. /\ Len(entryQueue'[r]) = q + 1
        /\ \A i \in 1 .. q : entryQueue'[r][i] = queue[i]
        /\ entryQueue'[r][q + 1] = e
    BY <2>1, <2>2, <2>4, AppendProperties DEF queue
  <2> HIDE DEF n, q
  <2>9. ASSUME NEW k \in 1 .. Len(got) PROVE got[k] = HalfOf(r, k)'
    <3>1. first + ((k + 1) \div 2) \in 1 .. n
      <4> DEFINE w == writeOffset[r]
      <4>1. /\ {first, n, q} \subseteq Nat /\ q <= n - first /\ w \in {0, 1}
            /\ w = 1 => q > 0
            /\ k \in 1 .. 2 * ((n - first) - q) + w
        BY <2>2, <2>5, <2>6
      <4> HIDE DEF w
      <4> QED BY <4>1
    <3> QED BY <2>1, <2>6, <2>7, <3>1 DEF HalfOf, first
  <2>10. ASSUME NEW i \in 1 .. q + 1
         PROVE  entryQueue'[r][i] = log'[((n + 1) - (q + 1)) + i]
    <3>1. ((n + 1) - (q + 1)) + i = (n - q) + i
      BY <2>5
    <3>2. CASE i = q + 1
      <4>1. (n - q) + i = n + 1
        BY <2>5, <3>2
      <4> QED BY <2>7, <2>8, <3>1, <3>2, <4>1
    <3>3. CASE i # q + 1
      <4>1. {first, n, q} \subseteq Nat /\ q <= n - first
        BY <2>2, <2>5, <2>6
      <4>2. i \in 1 .. q /\ (n - q) + i \in 1 .. n
        BY <3>3, <4>1
      <4> QED BY <2>6, <2>7, <2>8, <3>1, <4>2
    <3> QED BY <3>2, <3>3
  <2>11. /\ 0 <= q + 1 /\ q + 1 <= (n + 1) - first
         /\ Len(got) = 2 * (((n + 1) - first) - (q + 1)) + writeOffset[r]
    BY <2>2, <2>5, <2>6
  <2> QED BY <2>1, <2>7, <2>8, <2>9, <2>10, <2>11 DEF Sent, first, got
<1> QED BY <1>2, <1>3

\* The first entry leaves the queue and has been received in full.
LEMMA SentWhenWritten ==
    ASSUME LogTypes, NEW r \in connected, Sent(r), WriteComplete(r)
    PROVE  Sent(r)'
<1> DEFINE n == Len(log)
           q == Len(entryQueue[r])
           w == writeOffset[r]
           got == received[r]
           new == received'[r]
           first == since[r]
           queue == entryQueue[r]
           e == Head(queue)
<1>0. r \in Reader
  BY DEF LogTypes, TypeOK
<1>1. /\ queue # <<>> /\ entryQueue'[r] = Tail(queue) /\ writeOffset'[r] = 0
      /\ Len(new) = Len(got) + 2 - w
      /\ \A k \in 1 .. Len(got) : new[k] = got[k]
      /\ new[Len(new)] = <<e, 2>>
      /\ w = 0 => new[Len(new) - 1] = <<e, 1>>
  BY <1>0, WriteFacts
<1>2. /\ q \in Nat \ {0} /\ e = queue[1]
      /\ Len(Tail(queue)) = q - 1
      /\ \A i \in 1 .. q - 1 : Tail(queue)[i] = queue[i + 1]
  BY <1>0, <1>1, HeadOfQueue
<1>3. /\ n \in Nat /\ first \in Nat /\ w \in {0, 1} /\ Len(got) \in Nat
  BY <1>0 DEF LogTypes
<1>4. /\ q <= n - first
      /\ Len(got) = 2 * ((n - first) - q) + w
      /\ \A k \in 1 .. Len(got) : got[k] = HalfOf(r, k)
      /\ \A i \in 1 .. q : queue[i] = log[(n - q) + i]
  BY DEF Sent
<1>5. log' = log /\ since' = since
  BY DEF WriteComplete
<1> DEFINE m == (n - first) - q
<1> HIDE DEF n, q, w, got, new, first, queue, e, m
<1>6. m \in Nat /\ Len(got) = 2 * m + w /\ Len(new) = 2 * m + 2 /\ n - q = first + m
  <2>1. /\ n \in Nat /\ first \in Nat /\ q \in Nat /\ w \in {0, 1} /\ q <= n - first
        /\ Len(got) = 2 * m + w /\ m = (n - first) - q /\ Len(new) = Len(got) + 2 - w
    BY <1>1, <1>2, <1>3, <1>4 DEF m
  <2>2. m \in Nat /\ n - q = first + m
    BY ONLY <2>1
  <2>3. Len(new) = 2 * m + 2
    BY ONLY <2>1, <2>2
  <2> QED BY <2>1, <2>2, <2>3
<1>7. e = log[first + (m + 1)]
  <2>1. queue[1] = log[(n - q) + 1] /\ (n - q) + 1 = first + (m + 1)
    BY <1>2, <1>3, <1>4, <1>6
  <2> QED BY <1>2, <2>1
<1>8. ASSUME NEW k \in 1 .. Len(new) PROVE new[k] = HalfOf(r, k)
  <2>1. CASE k <= Len(got)
    BY <1>1, <1>4, <1>6, <2>1
  <2>2. CASE k = 2 * m + 2
    <3>1. (k + 1) \div 2 = m + 1 /\ 2 - (k % 2) = 2
      BY <1>6, <2>2, HalfIndex
    <3> QED BY <1>1, <1>6, <1>7, <2>2, <3>1 DEF HalfOf, first
  <2>3. CASE k = 2 * m + 1 /\ w = 0
    <3>1. (k + 1) \div 2 = m + 1 /\ 2 - (k % 2) = 1
      BY <1>6, <2>3, HalfIndex
    <3>2. Len(new) - 1 = k
      BY <1>6, <2>3
    <3> QED BY <1>1, <1>7, <2>3, <3>1, <3>2 DEF HalfOf, first
  <2> QED BY <1>3, <1>6, <2>1, <2>2, <2>3
<1>9. \A k \in 1 .. Len(new) : new[k] = HalfOf(r, k)'
  BY <1>5, <1>8 DEF HalfOf
<1>10. ASSUME NEW i \in 1 .. q - 1 PROVE Tail(queue)[i] = log[(n - (q - 1)) + i]
  <2>1. i + 1 \in 1 .. q /\ (n - q) + (i + 1) = (n - (q - 1)) + i
    BY <1>2, <1>3
  <2> QED BY <1>2, <1>4, <2>1
<1>11. /\ 0 <= q - 1 /\ q - 1 <= n - first
       /\ Len(new) = 2 * ((n - first) - (q - 1)) + 0
  BY <1>2, <1>3, <1>4, <1>6 DEF m
<1>12. /\ Len(entryQueue'[r]) = q - 1 /\ entryQueue'[r] = Tail(queue)
       /\ received'[r] = new /\ since'[r] = first /\ Len(log') = n /\ log' = log
       /\ writeOffset'[r] = 0
  BY <1>1, <1>2, <1>5 DEF n, new, first
<1> QED BY <1>9, <1>10, <1>11, <1>12 DEF Sent

LEMMA SentWhenCut ==
    ASSUME LogTypes, NEW r \in connected, Sent(r), WritePart(r)
    PROVE  Sent(r)'
<1> DEFINE n == Len(log)
           q == Len(entryQueue[r])
           got == received[r]
           new == received'[r]
           first == since[r]
           queue == entryQueue[r]
           e == Head(queue)
           m == (n - first) - q
<1>0. r \in Reader
  BY DEF LogTypes, TypeOK
<1>1. /\ queue # <<>> /\ writeOffset[r] = 0
      /\ received' = [received EXCEPT ![r] = Append(got, <<e, 1>>)]
      /\ writeOffset' = [writeOffset EXCEPT ![r] = 1]
      /\ UNCHANGED <<log, since, entryQueue>>
  BY DEF WritePart
<1>2. q \in Nat \ {0} /\ e = queue[1] /\ e \in Nat
  BY <1>0, <1>1, HeadOfQueue
<1>3. /\ received \in [Reader -> Seq(Half)] /\ writeOffset \in [Reader -> {0, 1}]
      /\ got \in Seq(Half) /\ n \in Nat /\ first \in Nat
  BY <1>0 DEF LogTypes
<1>4. new = Append(got, <<e, 1>>) /\ writeOffset'[r] = 1
  BY <1>0, <1>1, <1>3
<1>5. /\ q <= n - first
      /\ Len(got) = 2 * ((n - first) - q) + 0
      /\ \A k \in 1 .. Len(got) : got[k] = HalfOf(r, k)
      /\ \A i \in 1 .. q : queue[i] = log[(n - q) + i]
  BY <1>1 DEF Sent
<1>6. <<e, 1>> \in Half
  BY <1>2 DEF Half
<1> HIDE DEF n, q, got, new, first, queue, e, m
<1>7. /\ Len(new) = Len(got) + 1 /\ new[Len(got) + 1] = <<e, 1>>
      /\ \A k \in 1 .. Len(got) : new[k] = got[k]
  BY <1>3, <1>4, <1>6, AppendProperties
<1>8. m \in Nat /\ Len(got) = 2 * m /\ Len(new) = 2 * m + 1 /\ n - q = first + m
  BY <1>2, <1>3, <1>5, <1>7 DEF m
<1>9. e = log[first + (m + 1)]
  <2>1. queue[1] = log[(n - q) + 1] /\ (n - q) + 1 = first + (m + 1)
    BY <1>2, <1>3, <1>5, <1>8
  <2> QED BY <1>2, <2>1
<1>10. ASSUME NEW k \in 1 .. Len(new) PROVE new[k] = HalfOf(r, k)
  <2>1. CASE k <= Len(got)
    BY <1>5, <1>7, <1>8, <2>1
  <2>2. CASE k = 2 * m + 1
    <3>1. (k + 1) \div 2 = m + 1 /\ 2 - (k % 2) = 1
      BY <1>8, <2>2, HalfIndex
    <3> QED BY <1>7, <1>8, <1>9, <2>2, <3>1 DEF HalfOf, first
  <2> QED BY <1>8, <2>1, <2>2
<1>11. \A k \in 1 .. Len(new) : new[k] = HalfOf(r, k)'
  BY <1>1, <1>10 DEF HalfOf
<1>12. Len(new) = 2 * ((n - first) - q) + 1 /\ 0 <= q
  BY <1>2, <1>3, <1>5, <1>7
<1> QED BY <1>1, <1>4, <1>5, <1>11, <1>12 DEF Sent, n, q, new, first, queue

LEMMA SentSteps ==
    ASSUME LogTypes, ReadersOfTheRunning, \A r \in connected : Sent(r), [Next]_vars
    PROVE  (\A r \in connected : Sent(r))'
<1>1. connected \subseteq Reader
  BY DEF LogTypes, TypeOK
<1>2. CASE LoggerStart
  BY <1>2 DEF LoggerStart, Main, ReadersOfTheRunning, readers
<1>3. CASE DeleteReaders \/ Joined
  BY <1>3 DEF DeleteReaders, Joined
<1>4. CASE \/ LogMessage \/ SendWakeup \/ StopThread \/ SendStop \/ Runner \/ StartAsync
           \/ RunnerFails \/ ProcessQueue \/ UNCHANGED vars
  <2>1. UNCHANGED <<log, readers>>
    BY <1>4
    DEF LogMessage, SendWakeup, StopThread, SendStop, Runner, StartAsync, RunnerFails,
        ProcessQueue, vars
  <2> QED BY <2>1, SentStays DEF readers
<1>5. CASE GetQueueEntry
  <2>1. connected' = connected
    BY <1>5 DEF GetQueueEntry
  <2> QED BY <1>5, <2>1, SentWhenLogged
<1>6. ASSUME NEW r \in Reader, Accept(r) PROVE (\A v \in connected : Sent(v))'
  <2>1. /\ r \notin connected /\ connected' = connected \cup {r}
        /\ since' = [since EXCEPT ![r] = Len(log)]
        /\ received' = [received EXCEPT ![r] = <<>>]
        /\ UNCHANGED <<log, entryQueue, writeOffset>>
    BY <1>6 DEF Accept
  <2>2. since \in [Reader -> Nat] /\ received \in [Reader -> Seq(Half)] /\ Len(log) \in Nat
    BY DEF LogTypes
  <2>3. ASSUME NEW v \in connected PROVE Sent(v)'
    <3>1. v \in Reader /\ v # r
      BY <1>1, <2>1
    <3>2. since'[v] = since[v] /\ received'[v] = received[v]
      BY <2>1, <2>2, <3>1
    <3> QED BY <2>1, <3>2, SentStays
  <2>4. Sent(r)'
    <3>1. since'[r] = Len(log) /\ received'[r] = <<>>
      BY <2>1, <2>2
    <3>2. entryQueue[r] = <<>> /\ writeOffset[r] = 0
      BY <2>1 DEF ReadersOfTheRunning
    <3>3. Len(<<>>) = 0 /\ 1 .. 0 = {}
      OBVIOUS
    <3>4. /\ 0 <= 0 /\ 0 <= Len(log) - Len(log)
          /\ 0 = 2 * ((Len(log) - Len(log)) - 0) + 0
      BY <2>2
    <3> QED BY <2>1, <3>1, <3>2, <3>3, <3>4 DEF Sent
  <2> QED BY <2>1, <2>3, <2>4
<1>7. ASSUME NEW r \in Reader, WriteComplete(r) \/ WritePart(r)
      PROVE  (\A v \in connected : Sent(v))'
  <2>1. /\ r \in connected /\ connected' = connected /\ since' = since /\ log' = log
        /\ \A v \in Reader \ {r} :
             /\ received'[v] = received[v] /\ entryQueue'[v] = entryQueue[v]
             /\ writeOffset'[v] = writeOffset[v]
    BY <1>7 DEF WriteComplete, WritePart, LogTypes
  <2>2. ASSUME NEW v \in connected, v # r PROVE Sent(v)'
    BY <1>1, <2>1, <2>2, SentStays
  <2>3. Sent(r)'
    BY <1>7, <2>1, SentWhenWritten, SentWhenCut
  <2> QED BY <2>1, <2>2, <2>3
<1>8. ASSUME NEW r \in Reader, WriteFails(r) PROVE (\A v \in connected : Sent(v))'
  <2>1. /\ connected' = connected \ {r}
        /\ UNCHANGED <<log, since, received>>
        /\ \A v \in Reader \ {r} :
             entryQueue'[v] = entryQueue[v] /\ writeOffset'[v] = writeOffset[v]
    BY <1>8 DEF WriteFails, LogTypes
  <2>2. ASSUME NEW v \in connected, v # r PROVE Sent(v)'
    BY <1>1, <2>1, <2>2, SentStays
  <2> QED BY <2>1, <2>2
<1> QED
  BY <1>2, <1>3, <1>4, <1>5, <1>6, <1>7, <1>8 DEF Next, MainStep, LoggerStep

-----------------------------------------------------------------------------
(* The theorem *)

\* Every reader gets each entry logged since it came, in order and whole; no
\* entry that came with a wake-up is left lying; a stop is safe if the logger
\* rests meanwhile, and the logger sees every stop but one that is sent before
\* its watcher is started.  For any number of readers, entries and starts.
THEOREM LogCorrect == Spec => []LogOK
<1>1. Init => LogInv
  BY LogInitially
<1>2. LogInv /\ [Next]_vars => LogInv'
  BY LogSteps, ReadersSteps, WakeupSteps, StopSteps, SentSteps DEF LogInv
<1>3. LogInv => LogOK
  BY SentInOrder DEF LogInv, LogOK, InOrder, LogTypes, StopInv
<1> QED BY <1>1, <1>2, <1>3, PTL DEF Spec

-----------------------------------------------------------------------------
(* RedisQueue *)

\* Between its two requests the list is empty, if nothing is lost; who is online
\* was not in the last list as somebody who has gone.
RedisInv ==
    /\ R!RedisOK
    /\ listing => redisRun
    /\ listing /\ ~spoilt => \A n \in Name : ~R!WillHave(R!Soon, redisRequests, n)
    /\ stale \cap online = {}

\* What a request at the end of a queue makes of it.
LEMMA WillHaveAppended ==
    ASSUME NEW queue \in Seq(R!Request), NEW r \in R!Request, NEW n \in Name, NEW set
    PROVE  R!WillHave(set, Append(queue, r), n) <=>
               R!Adds(r, n) \/ (R!WillHave(set, queue, n) /\ ~R!Removes(r, n))
<1> DEFINE all == Append(queue, r)
           len == Len(queue)
<1>1. /\ len \in Nat /\ Len(all) = len + 1 /\ all[len + 1] = r
      /\ \A i \in 1 .. len : all[i] = queue[i]
  OBVIOUS
<1>2. ~(R!Adds(r, n) /\ R!Removes(r, n))
  BY DEF R!Adds, R!Removes
<1> HIDE DEF all, len
<1>3. ASSUME NEW i \in 0 .. len
      PROVE  R!RemovedAfter(all, n, i) <=>
                 R!RemovedAfter(queue, n, i) \/ R!Removes(r, n)
  <2>1. len + 1 > i /\ len + 1 \in 1 .. len + 1
    BY <1>1, <1>3
  <2> QED BY <1>1, <2>1 DEF R!RemovedAfter, len
<1>4. ~R!RemovedAfter(all, n, len + 1)
  BY <1>1 DEF R!RemovedAfter
<1>5. ASSUME NEW i \in 1 .. len PROVE i \in 0 .. len /\ all[i] = queue[i]
  BY <1>1, <1>5
<1>6. 0 \in 0 .. len /\ 1 .. Len(all) = 1 .. len \cup {len + 1}
  BY <1>1
<1> QED BY <1>1, <1>2, <1>3, <1>4, <1>5, <1>6 DEF R!WillHave, len, all

\* Carrying out the first request leaves what the queue will make of the set.
LEMMA WillHaveTail ==
    ASSUME NEW queue \in Seq(R!Request), queue # <<>>, NEW n \in Name, NEW set
    PROVE  R!WillHave(R!Applied(set, Head(queue)), Tail(queue), n) <=>
               R!WillHave(set, queue, n)
<1> DEFINE rest == Tail(queue)
           r == Head(queue)
           len == Len(queue)
<1>1. /\ len \in Nat \ {0} /\ Len(rest) = len - 1 /\ r = queue[1] /\ r \in R!Request
      /\ \A i \in 1 .. len - 1 : rest[i] = queue[i + 1]
  OBVIOUS
<1>2. n \in R!Applied(set, r) <=> R!Adds(r, n) \/ (n \in set /\ ~R!Removes(r, n))
  BY <1>1 DEF R!Applied, R!Adds, R!Removes, R!Request
<1> HIDE DEF rest, r, len
<1>3. ASSUME NEW i \in 0 .. len - 1
      PROVE  R!RemovedAfter(rest, n, i) <=> R!RemovedAfter(queue, n, i + 1)
  <2>1. ASSUME NEW j \in 1 .. len - 1, j > i, R!Removes(rest[j], n)
        PROVE  R!RemovedAfter(queue, n, i + 1)
    <3>1. j + 1 \in 1 .. len /\ j + 1 > i + 1 /\ R!Removes(queue[j + 1], n)
      BY <1>1, <1>3, <2>1
    <3> QED BY <3>1 DEF R!RemovedAfter, len
  <2>2. ASSUME NEW j \in 1 .. len, j > i + 1, R!Removes(queue[j], n)
        PROVE  R!RemovedAfter(rest, n, i)
    <3>1. j - 1 \in 1 .. len - 1 /\ j - 1 > i /\ rest[j - 1] = queue[(j - 1) + 1]
          /\ (j - 1) + 1 = j
      BY <1>1, <1>3, <2>2
    <3> QED BY <1>1, <2>2, <3>1 DEF R!RemovedAfter
  <2> QED BY <1>1, <2>1, <2>2 DEF R!RemovedAfter, len
<1>4. R!RemovedAfter(queue, n, 0) <=> R!Removes(r, n) \/ R!RemovedAfter(queue, n, 1)
  <2>1. 1 \in 1 .. len /\ 1 > 0 /\ \A j \in 1 .. len : j > 0 <=> j = 1 \/ j > 1
    BY <1>1
  <2> QED BY <1>1, <2>1 DEF R!RemovedAfter, len
<1>5. (\E i \in 1 .. len : R!Adds(queue[i], n) /\ ~R!RemovedAfter(queue, n, i)) <=>
        \/ R!Adds(r, n) /\ ~R!RemovedAfter(queue, n, 1)
        \/ \E i \in 1 .. len - 1 : R!Adds(rest[i], n) /\ ~R!RemovedAfter(rest, n, i)
  <2>1. ASSUME NEW i \in 1 .. len - 1, R!Adds(rest[i], n), ~R!RemovedAfter(rest, n, i)
        PROVE  \E k \in 1 .. len : R!Adds(queue[k], n) /\ ~R!RemovedAfter(queue, n, k)
    <3>1. i + 1 \in 1 .. len /\ i \in 0 .. len - 1 /\ rest[i] = queue[i + 1]
      BY <1>1, <2>1
    <3> QED BY <1>3, <2>1, <3>1
  <2>2. ASSUME NEW i \in 1 .. len, R!Adds(queue[i], n), ~R!RemovedAfter(queue, n, i),
               i # 1
        PROVE  \E k \in 1 .. len - 1 : R!Adds(rest[k], n) /\ ~R!RemovedAfter(rest, n, k)
    <3>1. i - 1 \in 1 .. len - 1 /\ i - 1 \in 0 .. len - 1 /\ (i - 1) + 1 = i
          /\ rest[i - 1] = queue[(i - 1) + 1]
      BY <1>1, <2>2
    <3> QED BY <1>3, <2>2, <3>1
  <2>3. 1 \in 1 .. len
    BY <1>1
  <2> QED BY <1>1, <2>1, <2>2, <2>3
<1>6. R!RemovedAfter(rest, n, 0) <=> R!RemovedAfter(queue, n, 1)
  BY <1>1, <1>3
<1>7. R!WillHave(R!Applied(set, r), rest, n) <=> R!WillHave(set, queue, n)
  BY <1>1, <1>2, <1>4, <1>5, <1>6 DEF R!WillHave, len
<1> QED BY <1>7 DEF rest, r

\* A request that is added goes on top of what the queue will make of the set.
LEMMA QueuedChanges ==
    ASSUME R!RequestAssumption, RedisInv, NEW r \in R!Request,
           redisRequests' = Append(redisRequests, r), UNCHANGED <<request, stored>>
    PROVE  /\ redisRequests' \in Seq(R!Request)
           /\ \A n \in Name : R!WillHave(R!Soon, redisRequests, n)' <=>
                 R!Adds(r, n) \/ (R!WillHave(R!Soon, redisRequests, n) /\ ~R!Removes(r, n))
<1>1. redisRequests \in Seq(R!Request) /\ R!Soon' = R!Soon
  BY DEF RedisInv, R!RedisOK, R!TypeOK, R!Soon
<1>2. ASSUME NEW n \in Name
      PROVE  R!WillHave(R!Soon, redisRequests, n)'
                 <=> R!WillHave(R!Soon, Append(redisRequests, r), n)
  BY <1>1 DEF R!WillHave, R!RemovedAfter
<1> QED BY <1>1, <1>2, WillHaveAppended

LEMMA RedisInitially == ASSUME R!Init PROVE RedisInv
<1>1. <<>> \in Seq(R!Request)
  OBVIOUS
<1> QED BY <1>1 DEF R!Init, RedisInv, R!RedisOK, R!TypeOK, R!InRedisOrQueued

LEMMA RedisTypes ==
    ASSUME RedisInv
    PROVE  /\ redisRequests \in Seq(R!Request) /\ request \in R!Request \cup {NoRequest}
           /\ online \subseteq connectionMap /\ connectionMap \subseteq Name
           /\ stored \subseteq Name /\ stale \subseteq Name
BY DEF RedisInv, R!RedisOK, R!TypeOK

LEMMA SetIdentKeeps ==
    ASSUME R!RequestAssumption, RedisInv, NEW n \in Name, R!SetIdent(n)
    PROVE  RedisInv'
<1> DEFINE r == [method |-> "SADD", values |-> {n}]
<1>1. /\ connectionMap' = connectionMap \cup {n} /\ online' = online \cup {n}
      /\ stale' = stale \ {n} /\ ~listing /\ redisRun
      /\ UNCHANGED <<listing, redisRun, redisThread, request, context, stored>>
      /\ \/ redisRequests' = Append(redisRequests, r) /\ spoilt' = spoilt
         \/ redisRequests' = redisRequests /\ spoilt' = TRUE
  BY DEF R!SetIdent, R!AddRequest, R!Running, R!redis
<1>2. /\ r \in R!Request
      /\ \A m \in Name : (R!Adds(r, m) <=> m = n) /\ ~R!Removes(r, m)
  BY DEF R!Request, R!Adds, R!Removes
<1> HIDE DEF r
<1>3. redisRequests' \in Seq(R!Request)
  BY <1>1, <1>2, QueuedChanges, RedisTypes
<1>4. R!TypeOK'
  BY <1>1, <1>3 DEF RedisInv, R!RedisOK, R!TypeOK
<1>5. R!InRedisOrQueued'
  <2>1. CASE redisRequests' = Append(redisRequests, r) /\ spoilt' = spoilt
    <3>1. SUFFICES ASSUME ~spoilt, NEW m \in Name
                   PROVE  R!WillHave(R!Soon, redisRequests, m)' <=> m \in online' \cup stale'
      BY <2>1 DEF R!InRedisOrQueued
    <3>2. R!WillHave(R!Soon, redisRequests, m) <=> m \in online \cup stale
      BY <1>1, <3>1 DEF RedisInv, R!RedisOK, R!InRedisOrQueued
    <3> QED BY <1>1, <1>2, <2>1, <3>2, QueuedChanges
  <2>2. CASE spoilt' = TRUE
    BY <2>2 DEF R!InRedisOrQueued
  <2> QED BY <1>1, <2>1, <2>2
<1> QED BY <1>1, <1>4, <1>5 DEF RedisInv, R!RedisOK

LEMMA PrepareShutdownKeeps ==
    ASSUME R!RequestAssumption, RedisInv, NEW n \in Name, R!PrepareShutdown(n)
    PROVE  RedisInv'
<1> DEFINE r == [method |-> "SREM", values |-> {n}]
<1>1. /\ n \in online /\ online' = online \ {n} /\ ~listing /\ redisRun
      /\ UNCHANGED <<connectionMap, stale, listing, redisRun, redisThread, request,
                     context, stored>>
      /\ \/ redisRequests' = Append(redisRequests, r) /\ spoilt' = spoilt
         \/ redisRequests' = redisRequests /\ spoilt' = TRUE
  BY DEF R!PrepareShutdown, R!AddRequest, R!Running, R!redis
<1>2. /\ r \in R!Request
      /\ \A m \in Name : (R!Removes(r, m) <=> m = n) /\ ~R!Adds(r, m)
  BY DEF R!Request, R!Adds, R!Removes
<1> HIDE DEF r
<1>3. redisRequests' \in Seq(R!Request)
  BY <1>1, <1>2, QueuedChanges, RedisTypes
<1>4. R!TypeOK'
  BY <1>1, <1>3 DEF RedisInv, R!RedisOK, R!TypeOK
<1>5. R!InRedisOrQueued'
  <2>1. CASE redisRequests' = Append(redisRequests, r) /\ spoilt' = spoilt
    <3>1. SUFFICES ASSUME ~spoilt, NEW m \in Name
                   PROVE  R!WillHave(R!Soon, redisRequests, m)' <=> m \in online' \cup stale'
      BY <2>1 DEF R!InRedisOrQueued
    <3>2. R!WillHave(R!Soon, redisRequests, m) <=> m \in online \cup stale
      BY <1>1, <3>1 DEF RedisInv, R!RedisOK, R!InRedisOrQueued
    <3>3. n \notin stale
      BY <1>1 DEF RedisInv
    <3> QED BY <1>1, <1>2, <2>1, <3>2, <3>3, QueuedChanges
  <2>2. CASE spoilt' = TRUE
    BY <2>2 DEF R!InRedisOrQueued
  <2> QED BY <1>1, <2>1, <2>2
<1> QED BY <1>1, <1>4, <1>5 DEF RedisInv, R!RedisOK

\* The list begins with a request that empties the set ...
LEMMA UserListKeeps ==
    ASSUME R!RequestAssumption, RedisInv, R!SendUserList
    PROVE  RedisInv'
<1> DEFINE r == [method |-> "DEL", values |-> {}]
<1>1. /\ ~listing /\ redisRun
      /\ UNCHANGED <<connectionMap, online, stale, redisRun, redisThread, request,
                     context, stored>>
      /\ \/ redisRequests' = Append(redisRequests, r) /\ spoilt' = FALSE /\ listing' = TRUE
         \/ UNCHANGED <<redisRequests, listing, spoilt>>
  BY DEF R!SendUserList, R!Running, R!redis
<1>2. r \in R!Request /\ \A m \in Name : R!Removes(r, m) /\ ~R!Adds(r, m)
  BY DEF R!Request, R!Adds, R!Removes
<1> HIDE DEF r
<1>3. CASE redisRequests' = Append(redisRequests, r) /\ spoilt' = FALSE /\ listing' = TRUE
  <2>1. /\ redisRequests' \in Seq(R!Request)
        /\ \A m \in Name : ~R!WillHave(R!Soon, redisRequests, m)'
    BY <1>1, <1>2, <1>3, QueuedChanges
  <2>2. R!TypeOK' /\ R!InRedisOrQueued'
    BY <1>1, <1>3, <2>1 DEF RedisInv, R!RedisOK, R!TypeOK, R!InRedisOrQueued
  <2> QED BY <1>1, <1>3, <2>1, <2>2 DEF RedisInv, R!RedisOK
<1>4. CASE UNCHANGED <<redisRequests, listing, spoilt>>
  BY <1>1, <1>4
  DEF RedisInv, R!RedisOK, R!TypeOK, R!InRedisOrQueued, R!WillHave, R!RemovedAfter, R!Soon
<1> QED BY <1>1, <1>3, <1>4

\* ... and ends with one for all there are.
LEMMA UserListRestKeeps ==
    ASSUME R!RequestAssumption, RedisInv, R!SendUserListRest
    PROVE  RedisInv'
<1> DEFINE r == [method |-> "SADD", values |-> connectionMap]
<1>1. /\ listing /\ listing' = FALSE /\ stale' = connectionMap \ online
      /\ UNCHANGED <<connectionMap, online, redisRun, redisThread, request, context,
                     stored>>
      /\ \/ redisRequests' = Append(redisRequests, r) /\ spoilt' = spoilt
         \/ redisRequests' = redisRequests /\ spoilt' = TRUE
  BY DEF R!SendUserListRest, R!redis
<1>2. /\ r \in R!Request
      /\ \A m \in Name : (R!Adds(r, m) <=> m \in connectionMap) /\ ~R!Removes(r, m)
  BY RedisTypes DEF R!Request, R!Adds, R!Removes
<1> HIDE DEF r
<1>3. redisRequests' \in Seq(R!Request)
  BY <1>1, <1>2, QueuedChanges, RedisTypes
<1>4. R!TypeOK'
  BY <1>1, <1>3 DEF RedisInv, R!RedisOK, R!TypeOK
<1>5. R!InRedisOrQueued'
  <2>1. CASE redisRequests' = Append(redisRequests, r) /\ spoilt' = spoilt
    <3>1. SUFFICES ASSUME ~spoilt, NEW m \in Name
                   PROVE  R!WillHave(R!Soon, redisRequests, m)' <=> m \in online' \cup stale'
      BY <2>1 DEF R!InRedisOrQueued
    <3>2. ~R!WillHave(R!Soon, redisRequests, m)
      BY <1>1, <3>1 DEF RedisInv
    <3>3. m \in online' \cup stale' <=> m \in connectionMap
      BY <1>1, RedisTypes
    <3> QED BY <1>1, <1>2, <2>1, <3>2, <3>3, QueuedChanges
  <2>2. CASE spoilt' = TRUE
    BY <2>2 DEF R!InRedisOrQueued
  <2> QED BY <1>1, <2>1, <2>2
<1> QED BY <1>1, <1>4, <1>5 DEF RedisInv, R!RedisOK

LEMMA OtherServerSteps ==
    ASSUME RedisInv, R!StopThread \/ (\E n \in Name : R!RemoveConnection(n))
    PROVE  RedisInv'
<1>1. CASE R!StopThread
  BY <1>1
  DEF R!StopThread, R!redis, RedisInv, R!RedisOK, R!TypeOK, R!InRedisOrQueued
<1>2. ASSUME NEW n \in Name, R!RemoveConnection(n) PROVE RedisInv'
  <2>1. /\ n \notin online /\ connectionMap' = connectionMap \ {n}
        /\ UNCHANGED <<online, listing, redisRequests, redisRun, redisThread, request,
                       context, stored, spoilt, stale>>
    BY <1>2 DEF R!RemoveConnection, R!redis
  <2>2. R!TypeOK'
    BY <2>1 DEF RedisInv, R!RedisOK, R!TypeOK
  <2> QED
    BY <2>1, <2>2
    DEF RedisInv, R!RedisOK, R!InRedisOrQueued, R!WillHave, R!RemovedAfter, R!Soon
<1> QED BY <1>1, <1>2

\* The Redis thread moves what is queued to the request in hand and from there to
\* Redis; what it all comes to is the same, unless something is lost.
LEMMA RedisThreadKeeps ==
    ASSUME R!RequestAssumption, RedisInv, R!RedisStep
    PROVE  RedisInv'
<1> DEFINE Same ==
        \A n \in Name : R!WillHave(R!Soon, redisRequests, n)'
                            <=> R!WillHave(R!Soon, redisRequests, n)
<1>1. UNCHANGED <<connectionMap, online, listing, redisRun, stale>>
  BY DEF R!RedisStep, R!Timeout, R!GetRequest, R!ConnectToRedis, R!GiveUp,
         R!ProcessRequest, R!ProcessRequestFails, R!server
<1>2. R!TypeOK'
  <2>0. ASSUME NEW r \in R!Request, NEW set \in SUBSET Name
        PROVE  R!Applied(set, r) \in SUBSET Name
    BY DEF R!Request, R!Applied
  <2>1. CASE R!GetRequest
    <3>1. /\ redisRequests' \in Seq(R!Request) /\ request' \in R!Request \cup {NoRequest}
          /\ request' # NoRequest => redisThread' = "round"
          /\ redisThread' \in {"resting", "round"}
      BY <2>1, RedisTypes DEF R!GetRequest
    <3> QED
      BY <1>1, <2>1, <3>1 DEF R!GetRequest, RedisInv, R!RedisOK, R!TypeOK
  <2>2. CASE R!ProcessRequest
    <3>1. stored' \in SUBSET Name
      BY <2>0, <2>2, RedisTypes DEF R!ProcessRequest
    <3> QED BY <1>1, <2>2, <3>1 DEF R!ProcessRequest, RedisInv, R!RedisOK, R!TypeOK
  <2>3. CASE R!ProcessRequestFails
    <3>1. request \in R!Request
      BY <2>3, RedisTypes DEF R!ProcessRequestFails
    <3>2. PICK done \in SUBSET request.values :
              stored' \in {R!Applied(stored, [request EXCEPT !.values = done]), stored}
      BY <2>3 DEF R!ProcessRequestFails
    <3>3. [request EXCEPT !.values = done] \in R!Request
      BY <3>1 DEF R!Request
    <3>4. stored' \in SUBSET Name
      BY <2>0, <3>2, <3>3, RedisTypes
    <3> QED BY <1>1, <2>3, <3>4 DEF R!ProcessRequestFails, RedisInv, R!RedisOK, R!TypeOK
  <2>4. CASE R!Timeout \/ R!ConnectToRedis \/ R!GiveUp
    BY <1>1, <2>4
    DEF R!Timeout, R!ConnectToRedis, R!GiveUp, RedisInv, R!RedisOK, R!TypeOK
  <2> QED BY <2>1, <2>2, <2>3, <2>4 DEF R!RedisStep
<1>3. redisRun => spoilt' \/ (Same /\ spoilt' = spoilt)
  <2>1. CASE R!GetRequest
    <3>1. spoilt' = spoilt /\ stored' = stored /\ request = NoRequest
      BY <2>1 DEF R!GetRequest
    <3>2. CASE redisRequests = <<>>
      <4>1. UNCHANGED <<redisRequests, request>>
        BY <2>1, <3>2 DEF R!GetRequest
      <4> QED BY <3>1, <4>1 DEF R!WillHave, R!RemovedAfter, R!Soon
    <3>3. CASE redisRequests # <<>> /\ redisRun
      <4>1. request' = Head(redisRequests) /\ redisRequests' = Tail(redisRequests)
        BY <2>1, <3>3 DEF R!GetRequest
      <4>2. Head(redisRequests) \in R!Request
        BY <3>3, RedisTypes
      <4>3. R!Soon = stored /\ R!Soon' = R!Applied(stored, Head(redisRequests))
        BY <3>1, <4>1, <4>2 DEF R!Soon, R!RequestAssumption, R!Applied
      <4>4. ASSUME NEW n \in Name
            PROVE  R!WillHave(R!Soon, redisRequests, n)' <=>
                     R!WillHave(R!Applied(stored, Head(redisRequests)),
                                Tail(redisRequests), n)
        BY <4>1, <4>3 DEF R!WillHave, R!RemovedAfter
      <4> QED BY <3>1, <3>3, <4>3, <4>4, RedisTypes, WillHaveTail
    <3> QED BY <3>2, <3>3
  <2>2. CASE R!ProcessRequest
    <3>1. R!Soon' = R!Soon /\ UNCHANGED <<redisRequests, spoilt>>
      BY <2>2 DEF R!ProcessRequest, R!Soon
    <3> QED BY <3>1 DEF R!WillHave, R!RemovedAfter
  <2>3. CASE R!ProcessRequestFails
    BY <2>3 DEF R!ProcessRequestFails
  <2>4. CASE R!GiveUp
    BY <2>4 DEF R!GiveUp
  <2>5. CASE R!Timeout \/ R!ConnectToRedis
    <3>1. UNCHANGED <<redisRequests, request, stored, spoilt>>
      BY <2>5 DEF R!Timeout, R!ConnectToRedis
    <3> QED BY <3>1 DEF R!WillHave, R!RemovedAfter, R!Soon
  <2> QED BY <2>1, <2>2, <2>3, <2>4, <2>5 DEF R!RedisStep
<1>4. R!InRedisOrQueued' /\ (listing' /\ ~spoilt' =>
                                \A n \in Name : ~R!WillHave(R!Soon, redisRequests, n)')
  BY <1>1, <1>3 DEF RedisInv, R!RedisOK, R!InRedisOrQueued
<1> QED BY <1>1, <1>2, <1>4 DEF RedisInv, R!RedisOK

LEMMA RedisSteps ==
    ASSUME R!RequestAssumption, RedisInv, [R!Next]_(R!vars)
    PROVE  RedisInv'
<1>1. CASE UNCHANGED R!vars
  BY <1>1
  DEF R!vars, RedisInv, R!RedisOK, R!TypeOK, R!InRedisOrQueued, R!WillHave,
      R!RemovedAfter, R!Soon
<1> QED
  BY <1>1, SetIdentKeeps, PrepareShutdownKeeps, UserListKeeps, UserListRestKeeps,
     OtherServerSteps, RedisThreadKeeps
  DEF R!Next, R!ServerStep

\* Whatever is queued, in hand or half done, Redis has or will have who is online
\* and whom the last list had, as long as nothing was lost since it (setIdent,
\* prepareShutdownConnection and sendUserListToRedis against the Redis thread).
THEOREM UserListCorrect == ASSUME R!RequestAssumption PROVE R!Spec => []RedisOK
<1>1. R!Init => RedisInv
  BY RedisInitially
<1>2. RedisInv => R!RedisOK
  BY DEF RedisInv
<1> QED BY <1>1, <1>2, RedisSteps, PTL DEF R!Spec, RedisOK

\* How far the Redis thread is from its end once it is stopped: at rest it ends with
\* its timer, a round ends with the request it is at.
RedisLeft ==
    CASE redisThread = "exited" -> 0
      [] redisThread = "resting" -> 1
      [] redisThread = "round" /\ request = NoRequest -> 2
      [] OTHER -> 3

\* However many requests are queued and whether or not Redis answers: after the stop
\* neither thread has a step but the at most three that end the Redis thread
\* (stopThread, getRequest and processRequest of redis.cpp).
THEOREM RedisStops ==
    ASSUME R!RequestAssumption
    PROVE  R!Spec => [][~redisRun => /\ ~redisRun' /\ RedisLeft \in 0 .. 3
                                     /\ RedisLeft' \in 0 .. 3 /\ RedisLeft' < RedisLeft]_(R!vars)
<1>1. R!Init => RedisInv
  BY RedisInitially
<1>2. ASSUME RedisInv, ~redisRun, R!Next
      PROVE  /\ ~redisRun' /\ RedisLeft \in 0 .. 3
             /\ RedisLeft' \in 0 .. 3 /\ RedisLeft' < RedisLeft
  <2>1. ~listing /\ (request # NoRequest => redisThread = "round")
    BY <1>2 DEF RedisInv, R!RedisOK, R!TypeOK
  <2>2. R!RedisStep
    BY <1>2, <2>1
    DEF R!Next, R!ServerStep, R!SetIdent, R!PrepareShutdown, R!RemoveConnection,
        R!SendUserList, R!SendUserListRest, R!StopThread, R!Running
  <2>3. ~redisRun'
    BY <1>2, <2>2
    DEF R!RedisStep, R!Timeout, R!GetRequest, R!ConnectToRedis, R!GiveUp,
        R!ProcessRequest, R!ProcessRequestFails, R!server
  <2>4. R!Timeout \/ R!GetRequest \/ R!GiveUp \/ R!ProcessRequest \/ R!ProcessRequestFails
    BY <1>2, <2>2 DEF R!RedisStep, R!ConnectToRedis
  <2>5. CASE R!Timeout
    BY <1>2, <2>3, <2>5 DEF R!Timeout, RedisLeft
  <2>6. CASE R!GetRequest
    BY <1>2, <2>3, <2>6 DEF R!GetRequest, RedisLeft
  <2>7. CASE R!GiveUp \/ R!ProcessRequest \/ R!ProcessRequestFails
    BY <2>1, <2>3, <2>7 DEF R!GiveUp, R!ProcessRequest, R!ProcessRequestFails, RedisLeft
  <2> QED BY <2>3, <2>4, <2>5, <2>6, <2>7
<1> QED BY <1>1, <1>2, RedisSteps, PTL DEF R!Spec

-----------------------------------------------------------------------------
(* Persistence *)

BanLists == [bans : SUBSET Account, timeouts : F!TimeoutMap]

\* An entry of "saving": a file and what is written to it.
Entry ==
    [file : {"ops", "scops"}, content : SUBSET Character]
        \cup [file : {"bans"}, content : BanLists]

FileTypes ==
    /\ F!TypeOK
    /\ disk = [f \in F!File |-> disk[f]]
    /\ saving \in Seq(Entry)
    /\ now \in 0 .. MaxTime /\ fileFaults \in Nat

\* The process that is down has nothing in memory.
EmptyWhenDown ==
    ~up => /\ ops = {} /\ scops = {} /\ bans = {}
           /\ timeouts = [a \in Account |-> F!NoTimeout]
           /\ saving = <<>> /\ ~writing /\ ~reloading

\* The last of the writes to come to a file writes what memory has.
LastIsRight ==
    \A i \in 1 .. Len(saving) :
        (\A j \in 1 .. Len(saving) : j > i => saving[j].file # saving[i].file)
            => saving[i].content = F!Content(saving[i].file)

\* SavedAtOnce, in the middle of a handler, too.
SavedOrToCome ==
    up => \A f \in F!File :
        \/ disk[f] \in {Torn, F!Content(f)}
        \/ f \in failed
        \/ f = "bans" /\ edited
        \/ \E i \in 1 .. Len(saving) : saving[i].file = f

FilesInv ==
    /\ FileTypes /\ EmptyWhenDown /\ LastIsRight /\ SavedOrToCome
    /\ F!OneFileEach

-----------------------------------------------------------------------------

LEMMA EntryTypes ==
    ASSUME NEW e \in Entry
    PROVE  /\ e.file \in F!File
           /\ e.file = "bans" => e.content \in BanLists
           /\ e.file \in {"ops", "scops"} => e.content \in SUBSET Character
BY DEF Entry, F!File

LEMMA OpsEntries ==
    ASSUME NEW o \in SUBSET Character, NEW sc \in SUBSET Character
    PROVE  /\ F!OpsFile(o) \in Entry /\ F!SCopsFile(sc) \in Entry
           /\ F!SaveOps(o, sc) = <<F!OpsFile(o), F!SCopsFile(sc)>>
BY DEF Entry, F!OpsFile, F!SCopsFile, F!SaveOps

LEMMA ThreeEntries ==
    ASSUME NEW x \in Entry, NEW y \in Entry, NEW z \in Entry
    PROVE  <<x>> \o <<y, z>> = <<x, y, z>>
<1> DEFINE s == <<x>>
           t == <<y, z>>
           u == <<x, y, z>>
<1>1. /\ s \in Seq(Entry) /\ t \in Seq(Entry) /\ u \in Seq(Entry)
      /\ Len(s) = 1 /\ Len(t) = 2 /\ Len(u) = 3
      /\ s[1] = x /\ t[1] = y /\ t[2] = z /\ u[1] = x /\ u[2] = y /\ u[3] = z
  OBVIOUS
<1> HIDE DEF s, t, u
<1>2. /\ s \o t \in Seq(Entry) /\ Len(s \o t) = 3
      /\ \A i \in 1 .. 3 : (s \o t)[i] = IF i <= 1 THEN s[i] ELSE t[i - 1]
  <2>1. Len(s) + Len(t) = 3
    BY <1>1
  <2>2. /\ s \o t \in Seq(Entry) /\ Len(s \o t) = Len(s) + Len(t)
        /\ \A i \in 1 .. Len(s) + Len(t) :
             (s \o t)[i] = IF i <= Len(s) THEN s[i] ELSE t[i - Len(s)]
    BY <1>1, ConcatProperties, Zenon
  <2> QED BY <1>1, <2>1, <2>2
<1>3. \A i \in 1 .. 3 : (s \o t)[i] = u[i]
  BY <1>1, <1>2
<1>4. s \o t = u
  BY <1>1, <1>2, <1>3, SeqEqual
<1> QED BY <1>4 DEF s, t, u

LEMMA BansEntry ==
    ASSUME NEW b \in SUBSET Account, NEW t \in F!TimeoutMap
    PROVE  F!BansFile(b, t) \in Entry /\ F!BanList(b, t) \in BanLists
BY DEF Entry, BanLists, F!BansFile, F!BanList

LEMMA BanListEqual ==
    ASSUME NEW l \in BanLists
    PROVE  F!BanList(l.bans, l.timeouts) = l
BY DEF BanLists, F!BanList

LEMMA TornIsNoList ==
    ASSUME F!FilesAssumption
    PROVE  Torn \notin SUBSET Character /\ Torn \notin BanLists
<1>1. ASSUME NEW l \in BanLists PROVE Torn # l
  <2>1. l.bans \in SUBSET Account /\ l.timeouts \in F!TimeoutMap
    BY DEF BanLists
  <2> QED BY <2>1, BanListEqual DEF F!FilesAssumption
<1> QED BY <1>1 DEF F!FilesAssumption

LEMMA TimeoutMaps ==
    ASSUME F!FilesAssumption, NEW t \in F!TimeoutMap, FileTypes
    PROVE  /\ F!Unexpired(t) \in F!TimeoutMap
           /\ \A a \in Account : [t EXCEPT ![a] = F!NoTimeout] \in F!TimeoutMap
           /\ \A a \in Account, length \in 1 .. MaxLength :
                [t EXCEPT ![a] = now + length] \in F!TimeoutMap
<1>1. MaxTime \in Nat /\ MaxLength \in Nat /\ now \in 0 .. MaxTime
  BY DEF F!FilesAssumption, FileTypes
<1>2. \A length \in 1 .. MaxLength : now + length \in 0 .. (MaxTime + MaxLength)
  BY <1>1
<1> QED BY <1>2 DEF F!TimeoutMap, F!Unexpired

-----------------------------------------------------------------------------
(* Handlers *)

LEMMA FilesTypes ==
    ASSUME FilesInv
    PROVE  /\ ops \in SUBSET Character /\ scops \in SUBSET Character /\ bans \in SUBSET Account
           /\ timeouts \in F!TimeoutMap /\ saving \in Seq(Entry)
           /\ {writing, reloading, up, edited} \subseteq BOOLEAN
           /\ now \in 0 .. MaxTime /\ fileFaults \in Nat
           /\ writing => saving # <<>>
BY DEF FilesInv, FileTypes, F!TypeOK

\* A handler that begins: it has changed memory, and the files of what it has
\* changed are to be written, each with what memory has now.
LEMMA HandlerKeeps ==
    ASSUME FilesInv, F!Idle,
           ops' \in SUBSET Character, scops' \in SUBSET Character, bans' \in SUBSET Account,
           timeouts' \in F!TimeoutMap, reloading' \in BOOLEAN, saving' \in Seq(Entry),
           UNCHANGED <<disk, writing, up, now, fileFaults, failed, edited>>,
           LastIsRight',
           \A f \in F!File : \/ F!Content(f)' = F!Content(f)
                             \/ \E i \in 1 .. Len(saving') : saving'[i].file = f
    PROVE  FilesInv' /\ F!Wrong' \subseteq F!Wrong
<1>1. saving = <<>> /\ up /\ ~writing
  BY FilesTypes DEF F!Idle
<1>2. FileTypes'
  <2>1. \A i \in 1 .. Len(saving') : saving'[i].file \in F!File
    BY EntryTypes
  <2> QED BY <1>1, <2>1 DEF FilesInv, FileTypes, F!TypeOK
<1>3. SavedOrToCome'
  <2>1. ASSUME NEW f \in F!File
        PROVE  disk[f] \in {Torn, F!Content(f)} \/ f \in failed \/ (f = "bans" /\ edited)
    BY <1>1 DEF FilesInv, SavedOrToCome
  <2> QED BY <2>1 DEF SavedOrToCome
<1>4. F!OneFileEach'
  BY <1>1 DEF FilesInv, F!OneFileEach
<1>5. F!Wrong' \subseteq F!Wrong
  <2>1. \A i \in 1 .. Len(saving) : FALSE
    BY <1>1
  <2> QED BY <1>1, <2>1 DEF F!Wrong
<1> QED BY <1>1, <1>2, <1>3, <1>4, <1>5 DEF FilesInv, EmptyWhenDown

LEMMA ContentOf ==
    /\ F!Content("ops") = ops /\ F!Content("scops") = scops
    /\ F!Content("bans") = F!BanList(bans, timeouts)
    /\ F!Content("ops")' = ops' /\ F!Content("scops")' = scops'
    /\ F!Content("bans")' = F!BanList(bans', timeouts')
BY DEF F!Content, F!BanList

\* The operators change, and saveOps writes them and the super moderators.
LEMMA OpsHandlerKeeps ==
    ASSUME FilesInv, F!Idle, ops' \in SUBSET Character, scops' \in SUBSET Character,
           F!Save(F!SaveOps(ops', scops')), UNCHANGED <<bans, timeouts, reloading>>
    PROVE  FilesInv' /\ F!Wrong' \subseteq F!Wrong
<1>1. /\ saving' = <<F!OpsFile(ops'), F!SCopsFile(scops')>> /\ saving' \in Seq(Entry)
      /\ UNCHANGED <<disk, writing, up, now, fileFaults, failed, edited>>
  <2>1. saving' = F!SaveOps(ops', scops')
    BY DEF F!Save
  <2>2. /\ F!OpsFile(ops') \in Entry /\ F!SCopsFile(scops') \in Entry
        /\ F!SaveOps(ops', scops') = <<F!OpsFile(ops'), F!SCopsFile(scops')>>
    BY OpsEntries
  <2>3. saving' = <<F!OpsFile(ops'), F!SCopsFile(scops')>>
    BY <2>1, <2>2
  <2>4. UNCHANGED <<disk, writing, up, now, fileFaults, failed, edited>>
    BY DEF F!Save, F!environment
  <2> QED BY <2>2, <2>3, <2>4
<1>2. /\ Len(saving') = 2 /\ 1 .. 2 = {1, 2}
      /\ saving'[1].file = "ops" /\ saving'[1].content = ops'
      /\ saving'[2].file = "scops" /\ saving'[2].content = scops'
  BY <1>1 DEF F!OpsFile, F!SCopsFile
<1>3. LastIsRight'
  BY <1>2, ContentOf DEF LastIsRight
<1>4. \A f \in F!File : \/ F!Content(f)' = F!Content(f)
                        \/ \E i \in 1 .. Len(saving') : saving'[i].file = f
  BY <1>2, ContentOf DEF F!File
<1> QED BY <1>1, <1>3, <1>4, HandlerKeeps, FilesTypes

\* The bans change, and saveBans writes them.
LEMMA BansHandlerKeeps ==
    ASSUME FilesInv, F!Idle, bans' \in SUBSET Account, timeouts' \in F!TimeoutMap,
           F!Save(<<F!BansFile(bans', timeouts')>>), UNCHANGED <<ops, scops, reloading>>
    PROVE  FilesInv' /\ F!Wrong' \subseteq F!Wrong
<1>1. /\ saving' = <<F!BansFile(bans', timeouts')>> /\ saving' \in Seq(Entry)
      /\ UNCHANGED <<disk, writing, up, now, fileFaults, failed, edited>>
  BY BansEntry DEF F!Save, F!environment
<1>2. /\ Len(saving') = 1 /\ 1 .. 1 = {1}
      /\ saving'[1].file = "bans" /\ saving'[1].content = F!BanList(bans', timeouts')
  BY <1>1 DEF F!BansFile
<1>3. LastIsRight'
  BY <1>2, ContentOf DEF LastIsRight
<1>4. \A f \in F!File : \/ F!Content(f)' = F!Content(f)
                        \/ \E i \in 1 .. Len(saving') : saving'[i].file = f
  BY <1>2, ContentOf DEF F!File
<1> QED BY <1>1, <1>3, <1>4, HandlerKeeps, FilesTypes

LEMMA UnbanKeeps ==
    ASSUME F!FilesAssumption, FilesInv, NEW a \in Account, F!UNB(a)
    PROVE  FilesInv' /\ F!Wrong' \subseteq F!Wrong
<1>1. /\ F!Idle /\ timeouts' = F!RemoveTimeout(a) /\ bans' = F!RemoveBan(a)
      /\ saving' = <<F!BansFile(bans, timeouts'), F!BansFile(bans', timeouts')>>
      /\ UNCHANGED <<ops, scops, reloading, disk, writing, up, now, fileFaults, failed,
                     edited>>
  BY DEF F!UNB, F!Save, F!environment
<1>2. bans' \in SUBSET Account /\ timeouts' \in F!TimeoutMap
  BY <1>1, TimeoutMaps, FilesTypes DEF F!RemoveTimeout, F!RemoveBan, FilesInv
<1>3. saving' \in Seq(Entry)
  BY <1>1, <1>2, BansEntry, FilesTypes
<1>4. /\ Len(saving') = 2 /\ 1 .. 2 = {1, 2}
      /\ saving'[1].file = "bans" /\ saving'[2].file = "bans"
      /\ saving'[2].content = F!BanList(bans', timeouts')
  BY <1>1 DEF F!BansFile
<1>5. LastIsRight'
  BY <1>4, ContentOf DEF LastIsRight
<1>6. \A f \in F!File : \/ F!Content(f)' = F!Content(f)
                        \/ \E i \in 1 .. Len(saving') : saving'[i].file = f
  BY <1>1, <1>4, ContentOf DEF F!File
<1> QED BY <1>1, <1>2, <1>3, <1>5, <1>6, HandlerKeeps, FilesTypes

\* Everything is written, by the idle tasks or before a reload.
LEMMA SaveAllKeeps ==
    ASSUME F!FilesAssumption, FilesInv, F!Idle, timeouts' = F!Unexpired(timeouts),
           F!Save(F!AllFiles), UNCHANGED <<ops, scops, bans>>, reloading' \in BOOLEAN
    PROVE  FilesInv' /\ F!Wrong' \subseteq F!Wrong /\ F!Wrong' = {}
<1>1. timeouts' \in F!TimeoutMap
  BY TimeoutMaps, FilesTypes DEF FilesInv
<1>2. /\ saving' = <<F!BansFile(bans', timeouts'), F!OpsFile(ops'), F!SCopsFile(scops')>>
      /\ UNCHANGED <<disk, writing, up, now, fileFaults, failed, edited>>
  <2>1. saving' = <<F!BansFile(bans, timeouts')>> \o F!SaveOps(ops, scops)
    BY DEF F!Save, F!AllFiles
  <2>2. F!SaveOps(ops, scops) = <<F!OpsFile(ops'), F!SCopsFile(scops')>>
    BY OpsEntries, FilesTypes
  <2>3. saving' = <<F!BansFile(bans', timeouts')>> \o <<F!OpsFile(ops'), F!SCopsFile(scops')>>
    BY <2>1, <2>2
  <2>4. <<F!BansFile(bans', timeouts')>> \o <<F!OpsFile(ops'), F!SCopsFile(scops')>>
            = <<F!BansFile(bans', timeouts'), F!OpsFile(ops'), F!SCopsFile(scops')>>
    BY <1>1, ThreeEntries, BansEntry, OpsEntries, FilesTypes
  <2>5. UNCHANGED <<disk, writing, up, now, fileFaults, failed, edited>>
    BY DEF F!Save, F!environment
  <2> QED BY <2>3, <2>4, <2>5
<1>3. saving' \in Seq(Entry)
  BY <1>1, <1>2, OpsEntries, BansEntry, FilesTypes
<1>4. /\ Len(saving') = 3 /\ 1 .. 3 = {1, 2, 3}
      /\ saving'[1].file = "bans" /\ saving'[1].content = F!BanList(bans', timeouts')
      /\ saving'[2].file = "ops" /\ saving'[2].content = ops'
      /\ saving'[3].file = "scops" /\ saving'[3].content = scops'
  BY <1>2 DEF F!BansFile, F!OpsFile, F!SCopsFile
<1>5. LastIsRight'
  BY <1>4, ContentOf DEF LastIsRight
<1>6. \A f \in F!File : \/ F!Content(f)' = F!Content(f)
                        \/ \E i \in 1 .. Len(saving') : saving'[i].file = f
  BY <1>4 DEF F!File
<1>7. FilesInv' /\ F!Wrong' \subseteq F!Wrong
  BY <1>1, <1>2, <1>3, <1>5, <1>6, HandlerKeeps, FilesTypes
<1>8. F!Wrong' = {}
  <2>1. up'
    BY <1>2 DEF F!Idle
  <2> QED BY <1>4, <2>1 DEF F!Wrong, F!File
<1> QED BY <1>7, <1>8

LEMMA CommandKeeps ==
    ASSUME F!FilesAssumption, FilesInv, F!Command \/ F!IdleTasks
    PROVE  FilesInv' /\ F!Wrong' \subseteq F!Wrong
<1>1. ASSUME NEW n \in Character, F!AOP(n) \/ F!DOP(n) PROVE FilesInv' /\ F!Wrong' \subseteq F!Wrong
  <2>1. /\ F!Idle /\ ops' \in SUBSET Character /\ scops' = scops /\ F!Save(F!SaveOps(ops', scops'))
        /\ UNCHANGED <<bans, timeouts, reloading>>
    BY <1>1, FilesTypes DEF F!AOP, F!DOP
  <2> QED BY <2>1, OpsHandlerKeeps, FilesTypes
<1>2. ASSUME NEW n \in Character, NEW action \in {"add", "remove"}, F!SCP(n, action)
      PROVE  FilesInv' /\ F!Wrong' \subseteq F!Wrong
  <2>1. /\ F!Idle /\ scops' \in SUBSET Character /\ ops' = ops /\ F!Save(F!SaveOps(ops', scops'))
        /\ UNCHANGED <<bans, timeouts, reloading>>
    BY <1>2, FilesTypes DEF F!SCP
  <2> QED BY <2>1, OpsHandlerKeeps, FilesTypes
<1>3. ASSUME NEW a \in Account, NEW length \in 1 .. MaxLength, F!TMO(a, length)
      PROVE  FilesInv' /\ F!Wrong' \subseteq F!Wrong
  <2>1. /\ F!Idle /\ timeouts' = F!Unexpired([timeouts EXCEPT ![a] = now + length])
        /\ F!Save(<<F!BansFile(bans', timeouts')>>)
        /\ UNCHANGED <<ops, scops, bans, reloading>>
    BY <1>3 DEF F!TMO
  <2>2. timeouts' \in F!TimeoutMap
    <3>1. [timeouts EXCEPT ![a] = now + length] \in F!TimeoutMap
      BY TimeoutMaps, FilesTypes DEF FilesInv
    <3> QED BY <2>1, <3>1, TimeoutMaps DEF FilesInv
  <2> QED BY <2>1, <2>2, BansHandlerKeeps, FilesTypes
<1>4. ASSUME NEW savefirst \in BOOLEAN, F!RLD(savefirst) PROVE FilesInv' /\ F!Wrong' \subseteq F!Wrong
  <2>1. /\ F!Idle /\ reloading' = TRUE /\ UNCHANGED <<ops, scops, bans>>
        /\ timeouts' = IF savefirst THEN F!Unexpired(timeouts) ELSE timeouts
        /\ F!Save(IF savefirst THEN F!AllFiles ELSE <<>>)
    BY <1>4 DEF F!RLD
  <2>2. CASE savefirst
    BY <2>1, <2>2, SaveAllKeeps
  <2>3. CASE ~savefirst
    <3>1. /\ saving' = <<>> /\ UNCHANGED <<timeouts, ops, scops, bans>> /\ <<>> \in Seq(Entry)
          /\ Len(<<>>) = 0
          /\ UNCHANGED <<disk, writing, up, now, fileFaults, failed, edited>>
      BY <2>1, <2>3 DEF F!Save, F!environment
    <3>2. LastIsRight' /\ \A f \in F!File : F!Content(f)' = F!Content(f)
      BY <3>1, ContentOf DEF LastIsRight, F!File
    <3> QED BY <2>1, <3>1, <3>2, HandlerKeeps, FilesTypes
  <2> QED BY <2>2, <2>3
<1>5. CASE F!IdleTasks
  BY <1>5, SaveAllKeeps, FilesTypes DEF F!IdleTasks
<1> QED BY <1>1, <1>2, <1>3, <1>4, <1>5, UnbanKeeps DEF F!Command

-----------------------------------------------------------------------------
(* fsaveFile *)

\* The files that are torn and not being written.
Spoilt ==
    {f \in F!File : disk[f] = Torn} \ (IF writing THEN {Head(saving).file} ELSE {})

LEMMA SpoiltCount ==
    ASSUME FilesInv, fileFaults' \in Nat, fileFaults' >= fileFaults,
           \/ Spoilt' \subseteq Spoilt
           \/ fileFaults' = fileFaults + 1 /\ \E f : Spoilt' \subseteq Spoilt \cup {f}
    PROVE  F!OneFileEach'
<1>0. \A S : F!Cardinality(S) = Cardinality(S)
  BY DEF F!Cardinality, Cardinality
<1>1. IsFiniteSet(F!File)
  <2>1. F!File = (({} \cup {"ops"}) \cup {"scops"}) \cup {"bans"}
    BY DEF F!File
  <2>2. IsFiniteSet({})
    BY FS_EmptySet
  <2>3. IsFiniteSet({} \cup {"ops"})
    BY <2>2, FS_AddElement
  <2>4. IsFiniteSet(({} \cup {"ops"}) \cup {"scops"})
    BY <2>3, FS_AddElement
  <2> QED BY <2>1, <2>4, FS_AddElement
<1>2. Spoilt \subseteq F!File
  BY DEF Spoilt
<1>3. IsFiniteSet(Spoilt) /\ Cardinality(Spoilt) \in Nat
  BY <1>1, <1>2, FS_Subset, FS_CardinalityType
<1>4. Cardinality(Spoilt) <= fileFaults /\ fileFaults \in Nat
  BY <1>0, FilesTypes DEF FilesInv, F!OneFileEach, Spoilt
<1>5. CASE Spoilt' \subseteq Spoilt
  <2>1. Cardinality(Spoilt') <= Cardinality(Spoilt) /\ IsFiniteSet(Spoilt')
    BY <1>3, <1>5, FS_Subset
  <2>2. Cardinality(Spoilt') \in Nat
    BY <2>1, FS_CardinalityType
  <2>3. Cardinality(Spoilt') <= fileFaults'
    BY <1>3, <1>4, <2>1, <2>2
  <2> QED BY <1>0, <2>3 DEF F!OneFileEach, Spoilt
<1>6. ASSUME NEW f, fileFaults' = fileFaults + 1, Spoilt' \subseteq Spoilt \cup {f}
      PROVE  F!OneFileEach'
  <2>1. /\ IsFiniteSet(Spoilt \cup {f})
        /\ Cardinality(Spoilt \cup {f}) \in {Cardinality(Spoilt), Cardinality(Spoilt) + 1}
    BY <1>3, FS_AddElement
  <2>2. Cardinality(Spoilt') <= Cardinality(Spoilt \cup {f}) /\ IsFiniteSet(Spoilt')
    BY <1>6, <2>1, FS_Subset
  <2>3. Cardinality(Spoilt') \in Nat
    BY <2>2, FS_CardinalityType
  <2>4. Cardinality(Spoilt') <= fileFaults'
    BY <1>3, <1>4, <1>6, <2>1, <2>2, <2>3
  <2> QED BY <1>0, <2>4 DEF F!OneFileEach, Spoilt
<1> QED BY <1>5, <1>6

\* The rest of what is to be written.
LEMMA RestToWrite ==
    ASSUME FilesInv, saving # <<>>
    PROVE  /\ Len(saving) \in Nat \ {0} /\ Head(saving) = saving[1]
           /\ saving[1] \in Entry /\ Tail(saving) \in Seq(Entry)
           /\ Len(Tail(saving)) = Len(saving) - 1
           /\ \A i \in 1 .. Len(saving) - 1 : Tail(saving)[i] = saving[i + 1]
BY FilesTypes

\* One write is over: the others are as they were, and LastIsRight was about it
\* unless its file is written again.
LEMMA WriteIsOver ==
    ASSUME FilesInv, saving # <<>>, saving' = Tail(saving),
           UNCHANGED <<ops, scops, bans, timeouts>>
    PROVE  /\ LastIsRight'
           /\ \A i \in 1 .. Len(saving') : saving'[i].file \in F!File
           /\ \A f \in F!File :
                (\E i \in 1 .. Len(saving) : saving[i].file = f)
                    => f = Head(saving).file
                       \/ \E i \in 1 .. Len(saving') : saving'[i].file = f
           /\ \/ \E i \in 1 .. Len(saving') : saving'[i].file = Head(saving).file
              \/ Head(saving).content = F!Content(Head(saving).file)
<1> DEFINE n == Len(saving)
<1>1. /\ n \in Nat \ {0} /\ Head(saving) = saving[1] /\ Len(saving') = n - 1
      /\ \A i \in 1 .. n - 1 : saving'[i] = saving[i + 1]
      /\ \A i \in 1 .. n - 1 : saving'[i] \in Entry
  BY RestToWrite
<1>2. \A i : (F!Content(saving[i].file))' = F!Content(saving'[i].file)
  BY DEF F!Content, F!BanList
<1>3. \A i \in 1 .. n :
        (\A j \in 1 .. n : j > i => saving[j].file # saving[i].file)
            => saving[i].content = F!Content(saving[i].file)
  BY DEF FilesInv, LastIsRight
<1> HIDE DEF n
<1>4. LastIsRight'
  <2> SUFFICES ASSUME NEW i \in 1 .. n - 1,
                      \A j \in 1 .. n - 1 : j > i => saving'[j].file # saving'[i].file
               PROVE  saving'[i].content = F!Content(saving'[i].file)
    BY <1>1, <1>2 DEF LastIsRight
  <2>1. i + 1 \in 1 .. n /\ saving'[i] = saving[i + 1]
    BY <1>1
  <2>2. ASSUME NEW j \in 1 .. n, j > i + 1 PROVE saving[j].file # saving[i + 1].file
    <3>1. j - 1 \in 1 .. n - 1 /\ j - 1 > i /\ saving'[j - 1] = saving[(j - 1) + 1]
          /\ (j - 1) + 1 = j
      BY <1>1, <2>1, <2>2
    <3> QED BY <2>1, <3>1
  <2> QED BY <1>3, <2>1, <2>2
<1>5. ASSUME NEW j \in 1 .. n, j # 1
      PROVE  \E i \in 1 .. Len(saving') : saving'[i].file = saving[j].file
  <2>1. j - 1 \in 1 .. n - 1 /\ saving'[j - 1] = saving[(j - 1) + 1] /\ (j - 1) + 1 = j
    BY <1>1, <1>5
  <2> QED BY <1>1, <2>1
<1>6. 1 \in 1 .. n /\ \A j \in 1 .. n : j > 1 => j # 1
  BY <1>1
<1> QED BY <1>1, <1>3, <1>4, <1>5, <1>6, EntryTypes DEF n

LEMMA WritingKeeps ==
    ASSUME F!FilesAssumption, FilesInv,
           F!Open \/ F!OpenFails \/ F!Close \/ F!WriteFails
    PROVE  FilesInv' /\ (fileFaults' = fileFaults => F!Wrong' \subseteq F!Wrong)
<1> DEFINE h == Head(saving)
<1>1. /\ up /\ saving # <<>>
      /\ UNCHANGED <<ops, scops, bans, timeouts, reloading, up, now>>
  BY FilesTypes DEF F!Open, F!OpenFails, F!Close, F!WriteFails, F!lists
<1>2. /\ h \in Entry /\ h.file \in F!File /\ h = saving[1]
      /\ h.content # Torn
      /\ h.file = "bans" => h.content \in BanLists
      /\ h.file \in {"ops", "scops"} => h.content \in SUBSET Character
  <2>1. h \in Entry /\ h = saving[1]
    BY <1>1, RestToWrite
  <2> QED BY <2>1, EntryTypes, TornIsNoList DEF F!File
<1>3. disk = [f \in F!File |-> disk[f]]
  BY DEF FilesInv, FileTypes
<1>4. \A f : F!Content(f)' = F!Content(f)
  BY <1>1 DEF F!Content, F!BanList
<1>5. /\ \A f \in {"ops", "scops"} : disk[f] = Torn \/ disk[f] \subseteq Character
      /\ disk["bans"] = Torn \/ disk["bans"] \in BanLists
      /\ failed \subseteq F!File /\ edited \in BOOLEAN /\ fileFaults \in Nat
  BY FilesTypes DEF FilesInv, FileTypes, F!TypeOK, BanLists
<1>6. \A f \in F!File :
        \/ disk[f] \in {Torn, F!Content(f)}
        \/ f \in failed
        \/ f = "bans" /\ edited
        \/ \E i \in 1 .. Len(saving) : saving[i].file = f
  BY <1>1 DEF FilesInv, SavedOrToCome
<1> HIDE DEF h
<1>7. CASE F!Open
  <2>1. /\ ~writing /\ writing' = TRUE /\ disk' = [disk EXCEPT ![h.file] = Torn]
        /\ UNCHANGED <<saving, fileFaults, failed, edited>>
    BY <1>7 DEF F!Open, h
  <2>2. /\ disk' = [f \in F!File |-> disk'[f]] /\ disk'[h.file] = Torn
        /\ \A f \in F!File : f # h.file => disk'[f] = disk[f]
    BY <1>2, <1>3, <2>1
  <2>3. FileTypes'
    <3>1. /\ \A f \in {"ops", "scops"} : disk'[f] = Torn \/ disk'[f] \subseteq Character
          /\ disk'["bans"] = Torn \/ disk'["bans"] \in BanLists
      BY <1>5, <2>2 DEF F!File
    <3> QED BY <1>1, <2>1, <2>2, <3>1 DEF FilesInv, FileTypes, F!TypeOK, BanLists
  <2>4. LastIsRight' /\ SavedOrToCome'
    BY <1>4, <1>6, <2>1, <2>2 DEF FilesInv, LastIsRight, SavedOrToCome
  <2>5. Spoilt' \subseteq Spoilt
    BY <2>1, <2>2 DEF Spoilt, h
  <2>6. F!OneFileEach'
    BY <1>5, <2>1, <2>5, SpoiltCount
  <2>7. F!Wrong' \subseteq F!Wrong
    <3>1. 1 \in 1 .. Len(saving)
      BY <1>1, RestToWrite
    <3> QED BY <1>1, <1>2, <1>4, <2>1, <2>2, <3>1 DEF F!Wrong
  <2> QED BY <1>1, <2>3, <2>4, <2>6, <2>7 DEF FilesInv, EmptyWhenDown
<1>8. CASE F!OpenFails \/ F!WriteFails
  <2>1. /\ saving' = Tail(saving) /\ writing' = FALSE /\ failed' = failed \cup {h.file}
        /\ fileFaults' = fileFaults + 1
        /\ UNCHANGED <<disk, edited>>
    BY <1>8, FilesTypes DEF F!OpenFails, F!WriteFails, h
  <2>2. Tail(saving) \in Seq(Entry)
    BY <1>1, RestToWrite
  <2>3. /\ LastIsRight'
        /\ \A i \in 1 .. Len(saving') : saving'[i].file \in F!File
        /\ \A f \in F!File :
             (\E i \in 1 .. Len(saving) : saving[i].file = f)
                 => f = h.file \/ \E i \in 1 .. Len(saving') : saving'[i].file = f
    BY <1>1, <2>1, WriteIsOver DEF h
  <2>4. FileTypes'
    <3>1. failed' \subseteq F!File /\ fileFaults' \in Nat
      BY <1>2, <1>5, <2>1
    <3> QED BY <1>1, <2>1, <2>2, <2>3, <3>1 DEF FilesInv, FileTypes, F!TypeOK
  <2>5. SavedOrToCome'
    BY <1>4, <1>6, <2>1, <2>3 DEF SavedOrToCome
  <2>6. Spoilt' \subseteq Spoilt \cup {h.file}
    BY <2>1 DEF Spoilt, h
  <2>7. F!OneFileEach'
    BY <1>5, <2>1, <2>6, SpoiltCount
  <2>8. fileFaults' # fileFaults
    BY <1>5, <2>1
  <2> QED BY <1>1, <2>3, <2>4, <2>5, <2>7, <2>8 DEF FilesInv, EmptyWhenDown
<1>9. CASE F!Close
  <2>1. /\ writing /\ saving' = Tail(saving) /\ writing' = FALSE
        /\ disk' = [disk EXCEPT ![h.file] = h.content]
        /\ failed' = failed \ {h.file} /\ edited' = (edited /\ h.file # "bans")
        /\ fileFaults' = fileFaults
    BY <1>9 DEF F!Close, h
  <2>2. /\ disk' = [f \in F!File |-> disk'[f]] /\ disk'[h.file] = h.content
        /\ \A f \in F!File : f # h.file => disk'[f] = disk[f]
    BY <1>2, <1>3, <2>1
  <2>3. Tail(saving) \in Seq(Entry)
    BY <1>1, RestToWrite
  <2>4. /\ LastIsRight'
        /\ \A i \in 1 .. Len(saving') : saving'[i].file \in F!File
        /\ \A f \in F!File :
             (\E i \in 1 .. Len(saving) : saving[i].file = f)
                 => f = h.file \/ \E i \in 1 .. Len(saving') : saving'[i].file = f
        /\ \/ \E i \in 1 .. Len(saving') : saving'[i].file = h.file
           \/ h.content = F!Content(h.file)
    BY <1>1, <2>1, WriteIsOver DEF h
  <2>5. FileTypes'
    <3>1. /\ \A f \in {"ops", "scops"} : disk'[f] = Torn \/ disk'[f] \subseteq Character
          /\ disk'["bans"] = Torn \/ disk'["bans"] \in BanLists
      BY <1>2, <1>5, <2>2 DEF F!File
    <3>2. edited' \in BOOLEAN /\ failed' \subseteq F!File
      BY <1>5, <2>1
    <3> QED BY <1>1, <2>1, <2>2, <2>3, <2>4, <3>1, <3>2 DEF FilesInv, FileTypes, F!TypeOK, BanLists
  <2>6. SavedOrToCome'
    BY <1>4, <1>6, <2>1, <2>2, <2>4 DEF SavedOrToCome
  <2>7. Spoilt' \subseteq Spoilt
    BY <1>2, <2>1, <2>2 DEF Spoilt, h
  <2>8. F!OneFileEach'
    BY <1>5, <2>1, <2>7, SpoiltCount
  <2>9. F!Wrong' \subseteq F!Wrong
    <3> SUFFICES ASSUME NEW f \in F!File, disk'[f] # F!Content(f)',
                        \A i \in 1 .. Len(saving') : saving'[i].file # f
                 PROVE  disk[f] # F!Content(f) /\ \A i \in 1 .. Len(saving) : saving[i].file # f
      BY <1>1 DEF F!Wrong
    <3>1. f # h.file
      BY <1>4, <2>2, <2>4
    <3> QED BY <1>4, <2>2, <2>4, <3>1
  <2> QED BY <1>1, <2>4, <2>5, <2>6, <2>8, <2>9 DEF FilesInv, EmptyWhenDown
<1> QED BY <1>7, <1>8, <1>9

-----------------------------------------------------------------------------
(* Reading the files *)

\* What LoadOps and LoadBans make of memory.
LEMMA Loaded ==
    ASSUME FilesInv, F!LoadOps, F!LoadBans
    PROVE  /\ ops' \in SUBSET Character /\ scops' \in SUBSET Character /\ bans' \in SUBSET Account
           /\ timeouts' \in F!TimeoutMap
           /\ ops' = IF disk["ops"] = Torn THEN ops ELSE disk["ops"]
           /\ scops' = IF disk["scops"] = Torn THEN scops ELSE disk["scops"]
           /\ disk["bans"] = Torn => bans' = bans /\ timeouts' = timeouts
           /\ disk["bans"] # Torn =>
                /\ disk["bans"] \in BanLists
                /\ bans' = bans \cup disk["bans"].bans
                /\ timeouts' = [a \in Account |->
                                  IF disk["bans"].timeouts[a] = F!NoTimeout
                                  THEN timeouts[a] ELSE disk["bans"].timeouts[a]]
<1>1. /\ disk["ops"] = Torn \/ disk["ops"] \subseteq Character
      /\ disk["scops"] = Torn \/ disk["scops"] \subseteq Character
      /\ disk["bans"] = Torn \/ disk["bans"] \in BanLists
  BY DEF FilesInv, FileTypes, F!TypeOK, BanLists
<1>2. /\ ops' = IF disk["ops"] = Torn THEN ops ELSE disk["ops"]
      /\ scops' = IF disk["scops"] = Torn THEN scops ELSE disk["scops"]
  BY DEF F!LoadOps, F!LoadStringList
<1>3. CASE disk["bans"] = Torn
  BY <1>1, <1>2, <1>3, FilesTypes DEF F!LoadBans
<1>4. CASE disk["bans"] # Torn
  <2>1. /\ bans' = bans \cup disk["bans"].bans
        /\ timeouts' = [a \in Account |->
                          IF disk["bans"].timeouts[a] = F!NoTimeout
                          THEN timeouts[a] ELSE disk["bans"].timeouts[a]]
    BY <1>4 DEF F!LoadBans
  <2>2. disk["bans"].bans \in SUBSET Account /\ disk["bans"].timeouts \in F!TimeoutMap
    BY <1>1, <1>4 DEF BanLists
  <2>3. bans' \in SUBSET Account
    BY <2>1, <2>2, FilesTypes
  <2>4. timeouts' \in F!TimeoutMap
    BY <2>1, <2>2, FilesTypes DEF F!TimeoutMap
  <2> QED BY <1>1, <1>2, <1>4, <2>1, <2>3, <2>4, FilesTypes
<1> QED BY <1>3, <1>4

LEMMA ReloadKeepsInv ==
    ASSUME FilesInv, F!Reload
    PROVE  FilesInv' /\ F!Wrong' \subseteq F!Wrong
<1>1. /\ up /\ saving = <<>> /\ reloading' = FALSE /\ F!LoadBans /\ F!LoadOps
      /\ UNCHANGED <<disk, saving, writing, up, now, fileFaults, failed, edited>>
  BY DEF F!Reload, F!environment
<1>2. FileTypes'
  BY <1>1, Loaded DEF FilesInv, FileTypes, F!TypeOK
<1>3. LastIsRight'
  BY <1>1 DEF LastIsRight
<1>7. ASSUME disk["bans"] = F!Content("bans"), disk["bans"] # Torn
       PROVE  disk["bans"] = F!Content("bans")'
  <2>1. disk["bans"].bans = bans /\ disk["bans"].timeouts = timeouts
    BY <1>7, ContentOf DEF F!BanList
  <2>2. bans' = bans /\ timeouts' = timeouts
    BY <1>1, <1>7, <2>1, Loaded, FilesTypes DEF F!TimeoutMap
  <2> QED BY <1>7, <2>2, ContentOf
<1>4. SavedOrToCome'
  <2>1. ASSUME NEW f \in F!File
        PROVE  \/ disk[f] \in {Torn, F!Content(f)'}
               \/ f \in failed
               \/ f = "bans" /\ edited
    <3>1. CASE f \in {"ops", "scops"}
      BY <1>1, <3>1, Loaded, ContentOf
    <3> QED
      BY <1>1, <1>7, <3>1 DEF FilesInv, SavedOrToCome, F!File
  <2> QED BY <1>1, <2>1 DEF SavedOrToCome
<1>5. Spoilt' \subseteq Spoilt
  BY <1>1 DEF Spoilt
<1>6. F!OneFileEach'
  BY <1>1, <1>5, SpoiltCount, FilesTypes
<1>8. F!Wrong' \subseteq F!Wrong
  <2> SUFFICES ASSUME NEW f \in F!File, disk[f] = F!Content(f)
               PROVE  disk[f] = F!Content(f)'
    BY <1>1 DEF F!Wrong
  <2>1. CASE f \in {"ops", "scops"}
    BY <1>1, <2>1, Loaded, ContentOf
  <2>2. CASE f = "bans" /\ disk[f] = Torn
    BY <1>1, <2>2, Loaded, ContentOf
  <2> QED BY <1>7, <2>1, <2>2 DEF F!File
<1> QED BY <1>1, <1>2, <1>3, <1>4, <1>6, <1>8 DEF FilesInv, EmptyWhenDown

\* A start has exactly what the whole files have.
LEMMA Started ==
    ASSUME FilesInv, ~up, up', F!Start
    PROVE  \A f \in F!File : disk[f] # Torn => F!Content(f)' = disk[f]
<1>1. /\ bans = {} /\ timeouts = [a \in Account |-> F!NoTimeout]
      /\ F!LoadOps /\ F!LoadBans
  BY DEF FilesInv, EmptyWhenDown, F!Start
<1>2. ASSUME disk["bans"] # Torn PROVE F!Content("bans")' = disk["bans"]
  <2>1. disk["bans"].timeouts \in F!TimeoutMap /\ disk["bans"] \in BanLists
    BY <1>1, <1>2, Loaded DEF BanLists
  <2>2. bans' = disk["bans"].bans
    BY <1>1, <1>2, Loaded
  <2>3. timeouts' = [a \in Account |-> disk["bans"].timeouts[a]]
    BY <1>1, <1>2, Loaded
  <2>4. timeouts' = disk["bans"].timeouts
    BY <2>1, <2>3 DEF F!TimeoutMap
  <2> QED BY <2>1, <2>2, <2>4, ContentOf, BanListEqual
<1> QED BY <1>1, <1>2, Loaded, ContentOf DEF F!File

LEMMA StartKeeps ==
    ASSUME FilesInv, F!Start
    PROVE  FilesInv' /\ F!Wrong' \subseteq F!Wrong
<1>1. /\ ~up /\ up' = TRUE /\ F!LoadBans /\ F!LoadOps
      /\ saving = <<>> /\ ~writing /\ ~reloading
      /\ UNCHANGED <<disk, saving, writing, reloading, now, fileFaults, failed, edited>>
  BY DEF F!Start, FilesInv, EmptyWhenDown
<1>2. FileTypes'
  BY <1>1, Loaded DEF FilesInv, FileTypes, F!TypeOK
<1>3. LastIsRight'
  BY <1>1 DEF LastIsRight
<1>4. SavedOrToCome'
  BY <1>1, Started DEF SavedOrToCome
<1>5. Spoilt' \subseteq Spoilt
  BY <1>1 DEF Spoilt
<1>6. F!OneFileEach'
  BY <1>1, <1>5, SpoiltCount, FilesTypes
<1>7. F!Wrong' \subseteq F!Wrong
  BY <1>1, Started DEF F!Wrong
<1> QED BY <1>1, <1>2, <1>3, <1>4, <1>6, <1>7 DEF FilesInv, EmptyWhenDown

-----------------------------------------------------------------------------
(* The process and its surroundings *)

LEMMA CrashKeeps ==
    ASSUME FilesInv, F!Crash
    PROVE  FilesInv'
<1>1. /\ up' = FALSE /\ saving' = <<>> /\ writing' = FALSE /\ reloading' = FALSE
      /\ ops' = {} /\ scops' = {} /\ bans' = {}
      /\ timeouts' = [a \in Account |-> F!NoTimeout]
      /\ fileFaults' = fileFaults + 1
      /\ UNCHANGED <<disk, now, failed, edited>>
  BY DEF F!Crash
<1>2. FileTypes'
  <2>1. <<>> \in Seq(Entry) /\ Len(<<>>) = 0 /\ timeouts' \in F!TimeoutMap
    BY <1>1 DEF F!TimeoutMap
  <2>2. Len(saving') = 0
    BY <1>1, <2>1
  <2>5. \A i \in 1 .. Len(saving') : saving'[i].file \in F!File
    BY <2>2
  <2>6. ops' \subseteq Character /\ scops' \subseteq Character /\ bans' \subseteq Account
    BY <1>1
  <2>3. F!TypeOK'
    BY <1>1, <2>1, <2>5, <2>6 DEF FilesInv, FileTypes, F!TypeOK
  <2>4. fileFaults' \in Nat
    BY <1>1, FilesTypes
  <2> QED BY <1>1, <2>1, <2>3, <2>4 DEF FilesInv, FileTypes
<1>3. LastIsRight' /\ SavedOrToCome' /\ EmptyWhenDown'
  BY <1>1 DEF LastIsRight, SavedOrToCome, EmptyWhenDown
<1>4. Spoilt' \subseteq Spoilt \cup {Head(saving).file}
  BY <1>1 DEF Spoilt
<1>5. F!OneFileEach'
  BY <1>1, <1>4, SpoiltCount, FilesTypes
<1> QED BY <1>2, <1>3, <1>5 DEF FilesInv

LEMMA EditKeeps ==
    ASSUME F!FilesAssumption, FilesInv, NEW a \in Account, F!Edit(a)
    PROVE  FilesInv'
<1> DEFINE new == [disk["bans"] EXCEPT !.bans = @ \ {a}]
<1>1. /\ saving = <<>> /\ up /\ disk["bans"] # Torn
      /\ disk' = [disk EXCEPT !["bans"].bans = @ \ {a}]
      /\ fileFaults' = fileFaults + 1 /\ edited' = TRUE
      /\ UNCHANGED <<ops, scops, bans, timeouts, saving, writing, reloading, up, now,
                     failed>>
  BY DEF F!Edit, F!Idle, F!lists
<1>2. /\ disk = [f \in F!File |-> disk[f]] /\ disk["bans"] \in BanLists
      /\ \A f \in {"ops", "scops"} : disk[f] = Torn \/ disk[f] \subseteq Character
  BY <1>1 DEF FilesInv, FileTypes, F!TypeOK, BanLists
<1>3. disk' = [disk EXCEPT !["bans"] = new]
  BY <1>1
<1>4. new \in BanLists
  BY <1>2 DEF BanLists
<1> HIDE DEF new
<1>5. /\ disk' = [f \in F!File |-> disk'[f]] /\ disk'["bans"] = new
      /\ disk'["ops"] = disk["ops"] /\ disk'["scops"] = disk["scops"]
  BY <1>2, <1>3 DEF F!File
<1>6. FileTypes'
  <2>1. /\ \A f \in {"ops", "scops"} : disk'[f] = Torn \/ disk'[f] \subseteq Character
        /\ disk'["bans"] \in BanLists
    BY <1>2, <1>4, <1>5
  <2>2. fileFaults' \in Nat
    BY <1>1, FilesTypes
  <2> QED BY <1>1, <1>5, <2>1, <2>2 DEF FilesInv, FileTypes, F!TypeOK, BanLists
<1>7. \A f : F!Content(f)' = F!Content(f)
  BY <1>1 DEF F!Content, F!BanList
<1>8. LastIsRight' /\ SavedOrToCome'
  BY <1>1, <1>5, <1>7 DEF FilesInv, LastIsRight, SavedOrToCome, F!File
<1>9. Spoilt' \subseteq Spoilt
  <2>1. new # Torn
    BY <1>4, TornIsNoList
  <2> QED BY <1>1, <1>5, <2>1 DEF Spoilt, F!File
<1>10. F!OneFileEach'
  BY <1>1, <1>9, SpoiltCount, FilesTypes
<1> QED BY <1>1, <1>6, <1>8, <1>10 DEF FilesInv, EmptyWhenDown

LEMMA TickKeeps ==
    ASSUME F!FilesAssumption, FilesInv, F!Tick \/ UNCHANGED F!vars
    PROVE  FilesInv'
<1>1. /\ UNCHANGED <<ops, scops, bans, timeouts, disk, saving, writing, reloading, up,
                     fileFaults, failed, edited>>
      /\ now' \in 0 .. MaxTime
  BY FilesTypes DEF F!Tick, F!vars, F!lists, F!FilesAssumption
<1>2. \A f : F!Content(f)' = F!Content(f)
  BY <1>1 DEF F!Content, F!BanList
<1>3. Spoilt' \subseteq Spoilt
  BY <1>1 DEF Spoilt
<1>4. F!OneFileEach'
  BY <1>1, <1>3, SpoiltCount, FilesTypes
<1>5. FileTypes'
  BY <1>1 DEF FilesInv, FileTypes, F!TypeOK
<1>6. LastIsRight' /\ SavedOrToCome' /\ EmptyWhenDown'
  BY <1>1, <1>2 DEF FilesInv, LastIsRight, SavedOrToCome, EmptyWhenDown
<1> QED BY <1>4, <1>5, <1>6 DEF FilesInv

-----------------------------------------------------------------------------
(* The theorems about the lists *)

LEMMA FilesInitially == ASSUME F!FilesAssumption, F!Init PROVE FilesInv
<1>1. /\ ops \in SUBSET Character /\ scops = {} /\ bans \in SUBSET Account
      /\ timeouts = [a \in Account |-> F!NoTimeout]
      /\ disk = [f \in F!File |-> F!Content(f)]
      /\ saving = <<>> /\ writing = FALSE /\ reloading = FALSE /\ up = TRUE
      /\ now = 0 /\ fileFaults = 0 /\ failed = {} /\ edited = FALSE
  BY DEF F!Init
<1>2. timeouts \in F!TimeoutMap /\ <<>> \in Seq(Entry) /\ Len(<<>>) = 0
  BY <1>1 DEF F!TimeoutMap
<1>3. F!BanList(bans, timeouts) \in BanLists
  BY <1>1, <1>2, BansEntry
<1>4. /\ disk["ops"] = ops /\ disk["scops"] = scops
      /\ disk["bans"] = F!BanList(bans, timeouts)
      /\ disk = [f \in F!File |-> disk[f]]
  BY <1>1, ContentOf DEF F!File
<1>5. now \in 0 .. MaxTime
  BY <1>1 DEF F!FilesAssumption
<1>6. FileTypes
  <2>1. /\ \A f \in {"ops", "scops"} : disk[f] = Torn \/ disk[f] \subseteq Character
        /\ disk["bans"] \in BanLists
    BY <1>1, <1>3, <1>4
  <2>2. \A i \in 1 .. Len(saving) : saving[i].file \in F!File
    BY <1>1, <1>2
  <2>3. F!TypeOK
    BY <1>1, <1>2, <2>1, <2>2 DEF F!TypeOK, BanLists
  <2> QED BY <1>1, <1>2, <1>4, <1>5, <2>3 DEF FileTypes
<1>7. LastIsRight /\ SavedOrToCome /\ EmptyWhenDown
  BY <1>1, <1>2 DEF LastIsRight, SavedOrToCome, EmptyWhenDown
<1>8. F!OneFileEach
  <2>1. {f \in F!File : disk[f] = Torn} = {}
    BY <1>1, <1>3, <1>4, TornIsNoList DEF F!File
  <2>2. Spoilt = {}
    BY <2>1 DEF Spoilt
  <2>3. F!Cardinality({}) = Cardinality({})
    BY DEF F!Cardinality, Cardinality
  <2>4. F!Cardinality(Spoilt) = 0
    BY <2>2, <2>3, FS_EmptySet
  <2>5. F!Cardinality(Spoilt) <= fileFaults
    BY <1>1, <2>4
  <2> QED BY <2>5 DEF F!OneFileEach, Spoilt
<1> QED BY <1>6, <1>7, <1>8 DEF FilesInv

LEMMA FilesSteps ==
    ASSUME F!FilesAssumption, FilesInv, [F!Next]_(F!vars)
    PROVE  FilesInv'
BY CommandKeeps, WritingKeeps, ReloadKeepsInv, StartKeeps, CrashKeeps, EditKeeps,
   TickKeeps
DEF F!Next

LEMMA RepairSteps ==
    ASSUME F!FilesAssumption, FilesInv, [F!Next]_(F!vars)
    PROVE  /\ fileFaults' = fileFaults => F!Wrong' \subseteq F!Wrong
           /\ F!IdleTasks => F!Wrong' = {}
<1>1. ASSUME F!IdleTasks PROVE F!Wrong' = {}
  BY <1>1, SaveAllKeeps, FilesTypes DEF F!IdleTasks
<1>2. ASSUME fileFaults' = fileFaults PROVE F!Wrong' \subseteq F!Wrong
  <2>1. ~F!Crash /\ \A a \in Account : ~F!Edit(a)
    BY <1>2, FilesTypes DEF F!Crash, F!Edit
  <2>2. ASSUME F!Tick \/ UNCHANGED F!vars PROVE F!Wrong' \subseteq F!Wrong
    <3>1. UNCHANGED <<ops, scops, bans, timeouts, disk, saving, up>>
      BY <2>2 DEF F!Tick, F!vars, F!lists
    <3>2. \A f : F!Content(f)' = F!Content(f)
      BY <3>1 DEF F!Content, F!BanList
    <3> QED BY <3>1, <3>2 DEF F!Wrong
  <2> QED
    BY <1>2, <2>1, <2>2, CommandKeeps, WritingKeeps, ReloadKeepsInv, StartKeeps DEF F!Next
<1> QED BY <1>1, <1>2

LEMMA FilesInvOK == ASSUME FilesInv PROVE F!FilesOK
<1>1. F!SavedAtOnce
  <2> SUFFICES ASSUME F!Idle, NEW f \in F!File
               PROVE  disk[f] \in {Torn, F!Content(f)} \/ f \in failed \/ (f = "bans" /\ edited)
    BY DEF F!SavedAtOnce
  <2> QED BY DEF F!Idle, FilesInv, SavedOrToCome
<1> QED BY <1>1 DEF FilesInv, FileTypes, F!FilesOK

\* Between handlers each file has what memory has, unless its last write failed or
\* it was edited, and each fault spoils one file at most (saveOps, saveSCops and
\* saveBans against crashes and full disks).
THEOREM FilesCorrect == ASSUME F!FilesAssumption PROVE F!Spec => []F!FilesOK
<1>1. F!Init => FilesInv
  BY FilesInitially
<1>2. FilesInv /\ [F!Next]_(F!vars) => FilesInv'
  BY FilesSteps
<1> QED BY <1>1, <1>2, FilesInvOK, PTL DEF F!Spec

\* A start brings back what whole files have; a reload empties no list and takes no
\* ban away (loadOps, loadSCops, loadBans).
THEOREM FilesAreRead == ASSUME F!FilesAssumption PROVE F!Spec => F!FilesLoad
<1>1. F!Init => FilesInv
  BY FilesInitially
<1>2. FilesInv /\ [F!Next]_(F!vars) => FilesInv'
  BY FilesSteps
<1>3. ASSUME FilesInv, [F!Next]_(F!vars), ~up, up'
      PROVE  \A f \in F!File : disk[f] # Torn => F!Content(f)' = disk[f]
  <2>1. F!Start
    BY <1>3
    DEF F!Next, F!Command, F!vars, F!IdleTasks, F!Reload, F!Open, F!OpenFails, F!Close,
        F!WriteFails, F!Crash, F!Tick, F!Edit, F!AOP, F!DOP, F!SCP, F!UNB, F!TMO,
        F!RLD, F!Idle
  <2> QED BY <1>3, <2>1, Started
<1>4. ASSUME FilesInv, [F!Next]_(F!vars), reloading, up', ~reloading'
      PROVE  /\ disk["ops"] = Torn => ops' = ops
             /\ disk["scops"] = Torn => scops' = scops
             /\ bans \subseteq bans'
             /\ \A a \in Account :
                  timeouts[a] # F!NoTimeout => timeouts'[a] # F!NoTimeout
  <2>1. F!Reload
    BY <1>4
    DEF F!Next, F!Command, F!vars, F!IdleTasks, F!Open, F!OpenFails, F!Close, F!Start,
        F!WriteFails, F!Crash, F!Tick, F!Edit, F!AOP, F!DOP, F!SCP, F!UNB, F!TMO,
        F!RLD, F!Idle
  <2>2. F!LoadOps /\ F!LoadBans
    BY <2>1 DEF F!Reload
  <2> QED BY <1>4, <2>2, Loaded
<1> QED
  BY <1>1, <1>2, <1>3, <1>4, RepairSteps, PTL
  DEF F!Spec, F!FilesLoad, F!Restored, F!ReloadKeeps, F!RepairLasts

-----------------------------------------------------------------------------
(* SavedChannels *)

Kinds == {"public", "private", "pubprivate", "absent"}

Channel ==
    [type : Kinds, owner : User \cup {NoUser}, moderators : SUBSET User,
     bans : [User -> {C!NoBan} \cup 0 .. C!Forever], top : Nat, text : Text,
     participants : SUBSET User, idle : 0 .. (Day + 1), canDestroy : BOOLEAN]

\* Who is an operator because of a channel.
OpsOf(k) == IF k.type = "public" THEN k.moderators ELSE {}

FileOK ==
    channelsFile = Torn
        \/ (DOMAIN channelsFile \subseteq Chan
            /\ \A ch \in DOMAIN channelsFile : channelsFile[ch] \in C!Saved)

SavedInv ==
    /\ chan \in [Chan -> Channel] /\ FileOK /\ running \in BOOLEAN
    /\ running => channelOpList = C!ChannelOps(chan)

-----------------------------------------------------------------------------

LEMMA Numbers ==
    ASSUME C!SavedAssumption
    PROVE  /\ MaxBans \in Nat /\ MaxBan \in Nat /\ Day \in Nat
           /\ C!NoBan = -2 /\ C!Over = -1 /\ C!Forever = MaxBan + 1
           /\ Text # {} /\ IsFiniteSet(User)
           /\ \A set : C!Cardinality(set) = Cardinality(set)
<1>1. \A set : C!Cardinality(set) = Cardinality(set)
  BY DEF C!Cardinality, Cardinality
<1>2. C!IsFiniteSet(User) = IsFiniteSet(User)
  BY DEF C!IsFiniteSet, IsFiniteSet
<1> QED
  BY <1>1, <1>2 DEF C!SavedAssumption, C!NoBan, C!Over, C!Forever

LEMMA OpsAreUnion ==
    ASSUME NEW c1, NEW c2, \A ch \in Chan : OpsOf(c1[ch]) = OpsOf(c2[ch])
    PROVE  C!ChannelOps(c1) = C!ChannelOps(c2)
<1>1. ASSUME NEW c PROVE \A u : u \in C!ChannelOps(c) <=> \E ch \in Chan : u \in OpsOf(c[ch])
  BY DEF C!ChannelOps, OpsOf
<1>2. \A u : u \in C!ChannelOps(c1) <=> u \in C!ChannelOps(c2)
  BY <1>1
<1> QED BY <1>2, Zenon DEF C!ChannelOps

LEMMA NewChannelTypes ==
    ASSUME C!SavedAssumption, NEW type \in Kinds, NEW owner \in User \cup {NoUser},
           NEW text \in Text
    PROVE  /\ C!NewChannel(type, owner, text) \in Channel
           /\ OpsOf(C!NewChannel(type, owner, text)) = {}
           /\ C!NewChannel(type, owner, text).type = type
<1>1. [u \in User |-> C!NoBan] \in [User -> {C!NoBan} \cup 0 .. C!Forever]
  OBVIOUS
<1>2. Day + 1 \in 0 .. (Day + 1)
  BY Numbers
<1> QED BY <1>1, <1>2 DEF Channel, C!NewChannel, OpsOf

LEMMA NoChannelTypes ==
    ASSUME C!SavedAssumption
    PROVE  C!NoChannel \in Channel /\ OpsOf(C!NoChannel) = {} /\ C!NoChannel.type = "absent"
<1>1. (CHOOSE t \in Text : TRUE) \in Text
  BY Numbers
<1> QED BY <1>1, NewChannelTypes DEF C!NoChannel, Kinds

LEMMA SizeIsNat ==
    ASSUME C!SavedAssumption, NEW set \in SUBSET User
    PROVE  C!Cardinality(set) \in Nat
BY Numbers, FS_Subset, FS_CardinalityType

LEMMA JoinTypes ==
    ASSUME C!SavedAssumption, NEW k \in Channel, NEW u \in User
    PROVE  C!Join(k, u) \in Channel /\ OpsOf(C!Join(k, u)) = OpsOf(k)
<1>1. C!Cardinality(k.participants) \in Nat
  BY SizeIsNat DEF Channel
<1>2. 0 \in 0 .. (Day + 1)
  BY Numbers
<1> DEFINE size == C!Cardinality(k.participants) + 1
           top == IF size > k.top THEN size ELSE k.top
<1>3. /\ k.top \in Nat /\ k.participants \cup {u} \in SUBSET User
      /\ C!Join(k, u) = [k EXCEPT !.participants = k.participants \cup {u},
                                  !.idle = 0, !.top = top]
  BY DEF Channel, C!Join
<1>4. top \in Nat
  BY <1>1, <1>3
<1> HIDE DEF top
<1> QED BY <1>2, <1>3, <1>4 DEF Channel, OpsOf

LEMMA PartTypes ==
    ASSUME C!SavedAssumption, NEW k \in Channel, NEW u \in User
    PROVE  C!Part(k, u) \in Channel /\ OpsOf(C!Part(k, u)) = OpsOf(k)
           /\ C!Part(k, u).type = k.type
<1>1. 0 \in 0 .. (Day + 1)
  BY Numbers
<1> QED BY <1>1 DEF Channel, C!Part, OpsOf

\* A binding makes of the channel ch the channel k.
LEMMA BindingKeeps ==
    ASSUME SavedInv, running, NEW ch \in Chan, NEW k \in Channel,
           chan' = [chan EXCEPT ![ch] = k], UNCHANGED <<channelsFile, running>>,
           \/ channelOpList' = C!ChannelOps(chan')
           \/ channelOpList' = channelOpList /\ OpsOf(k) = OpsOf(chan[ch])
    PROVE  SavedInv'
<1>1. chan' \in [Chan -> Channel] /\ chan'[ch] = k
      /\ \A x \in Chan \ {ch} : chan'[x] = chan[x]
  BY DEF SavedInv
<1>2. channelOpList' = C!ChannelOps(chan')
  BY <1>1, OpsAreUnion DEF SavedInv
<1> QED BY <1>1, <1>2 DEF SavedInv, FileOK

LEMMA ChannelOf ==
    ASSUME SavedInv, NEW ch \in Chan
    PROVE  chan[ch] \in Channel
BY DEF SavedInv

LEMMA CreationKeeps ==
    ASSUME C!SavedAssumption, SavedInv, NEW ch \in Chan,
           \/ C!CreateChannel(ch) \/ C!DestroyChannel(ch)
           \/ \E u \in User : C!CreatePrivateChannel(ch, u)
    PROVE  SavedInv'
<1>1. CASE C!CreateChannel(ch)
  <2>1. PICK t \in Text : chan' = [chan EXCEPT ![ch] = C!NewChannel("public", NoUser, t)]
    BY <1>1 DEF C!CreateChannel
  <2>2. /\ running /\ chan[ch].type = "absent"
        /\ UNCHANGED <<channelOpList, channelsFile, running>>
    BY <1>1 DEF C!CreateChannel, C!Exists
  <2>3. /\ C!NewChannel("public", NoUser, t) \in Channel
        /\ OpsOf(C!NewChannel("public", NoUser, t)) = {}
    BY NewChannelTypes DEF Kinds
  <2>4. OpsOf(chan[ch]) = {}
    BY <2>2 DEF OpsOf
  <2> QED BY <2>1, <2>2, <2>3, <2>4, BindingKeeps
<1>2. ASSUME NEW u \in User, C!CreatePrivateChannel(ch, u) PROVE SavedInv'
  <2>1. PICK t \in Text :
            chan' = [chan EXCEPT ![ch] = C!Join(C!NewChannel("private", u, t), u)]
    BY <1>2 DEF C!CreatePrivateChannel
  <2>2. /\ running /\ chan[ch].type = "absent"
        /\ UNCHANGED <<channelOpList, channelsFile, running>>
    BY <1>2 DEF C!CreatePrivateChannel, C!Exists
  <2>3. /\ C!NewChannel("private", u, t) \in Channel
        /\ OpsOf(C!NewChannel("private", u, t)) = {}
    BY NewChannelTypes DEF Kinds
  <2>4. /\ C!Join(C!NewChannel("private", u, t), u) \in Channel
        /\ OpsOf(C!Join(C!NewChannel("private", u, t), u)) = {}
    BY <2>3, JoinTypes
  <2>5. OpsOf(chan[ch]) = {}
    BY <2>2 DEF OpsOf
  <2> QED BY <2>1, <2>2, <2>4, <2>5, BindingKeeps
<1>3. CASE C!DestroyChannel(ch)
  <2>1. /\ running /\ chan' = [chan EXCEPT ![ch] = C!NoChannel]
        /\ channelOpList' = IF chan[ch].type = "public"
                            THEN C!ChannelOps(chan') ELSE channelOpList
        /\ UNCHANGED <<channelsFile, running>>
    BY <1>3 DEF C!DestroyChannel
  <2>2. chan[ch].type # "public" => OpsOf(chan[ch]) = {}
    BY DEF OpsOf
  <2> QED BY <2>1, <2>2, NoChannelTypes, BindingKeeps
<1> QED BY <1>1, <1>2, <1>3

LEMMA MembersKeep ==
    ASSUME C!SavedAssumption, SavedInv, NEW ch \in Chan, NEW u \in User,
           C!JoinChannel(ch, u) \/ C!PartChannel(ch, u)
    PROVE  SavedInv'
<1>1. CASE C!JoinChannel(ch, u)
  <2>1. /\ running /\ chan' = [chan EXCEPT ![ch] = C!Join(chan[ch], u)]
        /\ UNCHANGED <<channelOpList, channelsFile, running>>
    BY <1>1 DEF C!JoinChannel, C!Update
  <2>2. C!Join(chan[ch], u) \in Channel /\ OpsOf(C!Join(chan[ch], u)) = OpsOf(chan[ch])
    BY ChannelOf, JoinTypes
  <2> QED BY <2>1, <2>2, BindingKeeps
<1>2. CASE C!PartChannel(ch, u)
  <2> DEFINE k == C!Part(chan[ch], u)
             left == IF C!Abandoned(k) THEN C!NoChannel ELSE k
  <2>1. /\ running /\ chan' = [chan EXCEPT ![ch] = left]
        /\ UNCHANGED <<channelOpList, channelsFile, running>>
    BY <1>2 DEF C!PartChannel, C!Update
  <2>2. k \in Channel /\ OpsOf(k) = OpsOf(chan[ch]) /\ k.type = chan[ch].type
    BY ChannelOf, PartTypes
  <2> HIDE DEF k
  <2>3. C!Abandoned(k) => OpsOf(k) = {}
    BY DEF C!Abandoned, OpsOf
  <2>4. left \in Channel /\ OpsOf(left) = OpsOf(chan[ch])
    BY <2>2, <2>3, NoChannelTypes
  <2> QED BY <2>1, <2>4, BindingKeeps
<1> QED BY <1>1, <1>2

LEMMA BanKeeps ==
    ASSUME C!SavedAssumption, SavedInv, NEW ch \in Chan, NEW u \in User,
           \/ C!ChannelBan(ch, u) \/ C!Unban(ch, u)
           \/ \E length \in 0 .. MaxBan : C!ChannelTimeout(ch, u, length)
    PROVE  SavedInv'
<1>1. PICK length \in {C!NoBan} \cup 0 .. C!Forever : C!BanFor(ch, u, length)
  <2>1. C!Forever \in 0 .. C!Forever /\ \A l \in 0 .. MaxBan : l \in 0 .. C!Forever
    BY Numbers
  <2> QED BY <2>1 DEF C!ChannelBan, C!Unban, C!ChannelTimeout
<1> DEFINE k == [chan[ch] EXCEPT !.bans[u] = length]
<1>2. /\ running /\ chan' = [chan EXCEPT ![ch] = k]
      /\ UNCHANGED <<channelOpList, channelsFile, running>>
  BY <1>1 DEF C!BanFor, C!Update
<1>3. k \in Channel /\ OpsOf(k) = OpsOf(chan[ch])
  <2>1. chan[ch] \in Channel
    BY ChannelOf
  <2>2. k = [chan[ch] EXCEPT !.bans = [chan[ch].bans EXCEPT ![u] = length]]
    BY <2>1 DEF Channel
  <2>3. [chan[ch].bans EXCEPT ![u] = length] \in [User -> {C!NoBan} \cup 0 .. C!Forever]
    BY <2>1 DEF Channel
  <2> QED BY <2>1, <2>2, <2>3 DEF Channel, OpsOf
<1> QED BY <1>2, <1>3, BindingKeeps

LEMMA ModeratorsKeep ==
    ASSUME C!SavedAssumption, SavedInv, NEW ch \in Chan, NEW u \in User,
           C!AddMod(ch, u) \/ C!RemoveMod(ch, u)
    PROVE  SavedInv'
<1>1. PICK mods \in SUBSET User :
        LET k == [chan[ch] EXCEPT !.moderators = mods]
        IN  /\ C!Update(ch, k)
            /\ channelOpList' = IF k.type = "public"
                                THEN C!ChannelOps([chan EXCEPT ![ch] = k])
                                ELSE channelOpList
  <2>1. chan[ch].moderators \cup {u} \in SUBSET User
        /\ chan[ch].moderators \ {u} \in SUBSET User
    BY ChannelOf DEF Channel
  <2> QED BY <2>1 DEF C!AddMod, C!RemoveMod
<1> DEFINE k == [chan[ch] EXCEPT !.moderators = mods]
<1>2. /\ running /\ chan' = [chan EXCEPT ![ch] = k]
      /\ channelOpList' = IF k.type = "public"
                          THEN C!ChannelOps([chan EXCEPT ![ch] = k]) ELSE channelOpList
      /\ UNCHANGED <<channelsFile, running>>
  BY <1>1 DEF C!Update
<1>3. k \in Channel /\ k.type = chan[ch].type
  BY ChannelOf DEF Channel
<1> HIDE DEF k
<1>4. k.type # "public" => OpsOf(k) = OpsOf(chan[ch])
  BY <1>3 DEF OpsOf
<1> QED BY <1>2, <1>3, <1>4, BindingKeeps

LEMMA SettingsKeep ==
    ASSUME C!SavedAssumption, SavedInv, NEW ch \in Chan,
           \/ \E u \in User : C!SetOwner(ch, u)
           \/ \E open \in BOOLEAN : C!SetPublic(ch, open)
           \/ \E t \in Text : C!SetDescription(ch, t) \/ C!SetTitle(ch, t) \/ C!SetMode(ch, t)
    PROVE  SavedInv'
<1>1. ASSUME NEW u \in User, C!SetOwner(ch, u) PROVE SavedInv'
  <2> DEFINE k == [chan[ch] EXCEPT !.owner = u]
  <2>1. /\ running /\ chan' = [chan EXCEPT ![ch] = k]
        /\ UNCHANGED <<channelOpList, channelsFile, running>>
    BY <1>1 DEF C!SetOwner, C!Update
  <2>2. k \in Channel /\ OpsOf(k) = OpsOf(chan[ch])
    BY ChannelOf DEF Channel, OpsOf
  <2> QED BY <2>1, <2>2, BindingKeeps
<1>2. ASSUME NEW open \in BOOLEAN, C!SetPublic(ch, open) PROVE SavedInv'
  <2> DEFINE k == [chan[ch] EXCEPT !.type = IF open THEN "pubprivate" ELSE "private"]
  <2>1. /\ running /\ chan' = [chan EXCEPT ![ch] = k]
        /\ chan[ch].type \in {"private", "pubprivate"}
        /\ UNCHANGED <<channelOpList, channelsFile, running>>
    BY <1>2 DEF C!SetPublic, C!Update
  <2>2. k \in Channel /\ OpsOf(k) = {} /\ OpsOf(chan[ch]) = {}
    BY <2>1, ChannelOf DEF Channel, OpsOf, Kinds
  <2> QED BY <2>1, <2>2, BindingKeeps
<1>3. ASSUME NEW t \in Text, C!SetDescription(ch, t) \/ C!SetTitle(ch, t) \/ C!SetMode(ch, t)
      PROVE  SavedInv'
  <2> DEFINE k == [chan[ch] EXCEPT !.text = t]
  <2>1. /\ running /\ chan' = [chan EXCEPT ![ch] = k]
        /\ UNCHANGED <<channelOpList, channelsFile, running>>
    BY <1>3 DEF C!SetDescription, C!SetTitle, C!SetMode, C!SetText, C!Update
  <2>2. k \in Channel /\ OpsOf(k) = OpsOf(chan[ch])
    BY ChannelOf DEF Channel, OpsOf
  <2> QED BY <2>1, <2>2, BindingKeeps
<1> QED BY <1>1, <1>2, <1>3

-----------------------------------------------------------------------------
(* Saving, stopping and starting *)

LEMMA SaveTypes ==
    ASSUME C!SavedAssumption, NEW c \in [Chan -> Channel]
    PROVE  /\ DOMAIN C!SaveChannels(c)
                = {ch \in Chan : c[ch].type \in {"public", "pubprivate"}}
           /\ \A ch \in DOMAIN C!SaveChannels(c) :
                /\ C!SaveChannels(c)[ch] \in C!Saved
                /\ C!SaveChannels(c)[ch].bans = c[ch].bans
                /\ C!SaveChannels(c)[ch].moderators = c[ch].moderators
                /\ C!SaveChannels(c)[ch].owner = c[ch].owner
<1> DEFINE kept == {ch \in Chan : c[ch].type \in {"public", "pubprivate"}}
<1>1. C!SaveChannels(c) = [ch \in kept |-> C!SaveChannel(c[ch])]
  BY DEF C!SaveChannels
<1>2. ASSUME NEW k \in Channel, k.type \in {"public", "pubprivate"}
      PROVE  /\ C!SaveChannel(k) \in C!Saved /\ C!SaveChannel(k).bans = k.bans
             /\ C!SaveChannel(k).moderators = k.moderators
             /\ C!SaveChannel(k).owner = k.owner
  <2>1. k.bans \in [User -> C!NoBan .. C!Forever]
    <3>1. \A l \in {C!NoBan} \cup 0 .. C!Forever : l \in C!NoBan .. C!Forever
      BY Numbers
    <3> QED BY <3>1 DEF Channel
  <2> QED BY <1>2, <2>1 DEF Channel, C!SaveChannel, C!Saved
<1>3. \A ch \in kept : c[ch] \in Channel /\ c[ch].type \in {"public", "pubprivate"}
  OBVIOUS
<1> HIDE DEF kept
<1>4. \A ch \in kept : C!SaveChannels(c)[ch] = C!SaveChannel(c[ch])
  BY <1>1
<1>5. DOMAIN C!SaveChannels(c) = kept
  BY <1>1
<1> QED BY <1>2, <1>3, <1>4, <1>5 DEF kept

LEMMA UnusedKeeps ==
    ASSUME C!SavedAssumption, SavedInv, C!RemoveUnusedChannels
    PROVE  /\ chan' \in [Chan -> Channel]
           /\ C!ChannelOps(chan') = C!ChannelOps(chan)
<1>1. chan' = [ch \in Chan |-> IF C!IsUnused(chan[ch]) THEN C!NoChannel ELSE chan[ch]]
  BY DEF C!RemoveUnusedChannels
<1>2. ASSUME NEW ch \in Chan PROVE chan'[ch] \in Channel /\ OpsOf(chan'[ch]) = OpsOf(chan[ch])
  <2>1. C!IsUnused(chan[ch]) => OpsOf(chan[ch]) = {}
    BY DEF C!IsUnused, OpsOf
  <2> QED BY <1>1, <2>1, ChannelOf, NoChannelTypes
<1>3. chan' \in [Chan -> Channel]
  BY <1>1, <1>2
<1> QED BY <1>2, <1>3, OpsAreUnion

LEMMA IdleTasksKeep ==
    ASSUME C!SavedAssumption, SavedInv, C!IdleTasks \/ C!IdleTasksFail
    PROVE  SavedInv'
<1>1. /\ C!RemoveUnusedChannels /\ UNCHANGED <<channelOpList, running>>
      /\ channelsFile' \in {C!SaveChannels(chan'), channelsFile, Torn}
  BY DEF C!IdleTasks, C!IdleTasksFail
<1>2. chan' \in [Chan -> Channel] /\ C!ChannelOps(chan') = C!ChannelOps(chan)
  BY <1>1, UnusedKeeps
<1>3. FileOK'
  <2>1. CASE channelsFile' = C!SaveChannels(chan')
    BY <1>2, <2>1, SaveTypes DEF FileOK
  <2>2. CASE channelsFile' \in {channelsFile, Torn}
    BY <2>2 DEF SavedInv, FileOK
  <2> QED BY <1>1, <2>1, <2>2
<1> QED BY <1>1, <1>2, <1>3 DEF SavedInv

LEMMA StopKeeps ==
    ASSUME C!SavedAssumption, SavedInv, C!Halt \/ C!Crash
    PROVE  SavedInv'
<1>1. /\ ~running' /\ running' \in BOOLEAN /\ chan' = [ch \in Chan |-> C!NoChannel]
      /\ channelsFile' \in {C!SaveChannels(chan), channelsFile, Torn}
  BY DEF C!Halt, C!Crash, C!Stopped
<1>2. chan' \in [Chan -> Channel]
  BY <1>1, NoChannelTypes
<1>3. FileOK'
  <2>1. CASE channelsFile' = C!SaveChannels(chan)
    BY <2>1, SaveTypes DEF FileOK, SavedInv
  <2>2. CASE channelsFile' \in {channelsFile, Torn}
    BY <2>2 DEF SavedInv, FileOK
  <2> QED BY <1>1, <2>1, <2>2
<1> QED BY <1>1, <1>2, <1>3 DEF SavedInv

LEMMA LoadTypes ==
    ASSUME C!SavedAssumption, NEW saved \in C!Saved, NEW read
    PROVE  /\ C!LoadChannel(saved, read) \in Channel
           /\ C!LoadChannel(saved, read).type = saved.type
           /\ C!LoadChannel(saved, read).owner = saved.owner
           /\ C!LoadChannel(saved, read).moderators = saved.moderators
           /\ C!LoadChannel(saved, read).top = saved.top
           /\ C!LoadChannel(saved, read).text = saved.text
           /\ \A u \in User : C!LoadChannel(saved, read).bans[u] =
                  IF u \in read /\ saved.bans[u] # C!Over THEN saved.bans[u] ELSE C!NoBan
<1> DEFINE new == C!NewChannel(saved.type, saved.owner, saved.text)
           banned == [u \in User |-> IF u \in read /\ saved.bans[u] # C!Over
                                   THEN saved.bans[u] ELSE C!NoBan]
<1>1. /\ saved.type \in Kinds /\ saved.owner \in User \cup {NoUser} /\ saved.text \in Text
      /\ saved.moderators \in SUBSET User /\ saved.top \in Nat
      /\ saved.bans \in [User -> C!NoBan .. C!Forever]
  BY DEF C!Saved, Kinds
<1>2. new \in Channel /\ new.type = saved.type /\ new.owner = saved.owner
      /\ new.text = saved.text
  BY <1>1, NewChannelTypes DEF C!NewChannel
<1>3. banned \in [User -> {C!NoBan} \cup 0 .. C!Forever]
  <2>1. \A l \in C!NoBan .. C!Forever : l # C!Over => l \in {C!NoBan} \cup 0 .. C!Forever
    BY Numbers
  <2> QED BY <1>1, <2>1
<1>4. 0 \in 0 .. (Day + 1)
  BY Numbers
<1>5. C!LoadChannel(saved, read) =
        [new EXCEPT !.moderators = saved.moderators, !.top = saved.top, !.idle = 0,
                    !.bans = banned]
  BY DEF C!LoadChannel
<1>6. \A u \in User : banned[u] = IF u \in read /\ saved.bans[u] # C!Over
                                THEN saved.bans[u] ELSE C!NoBan
  OBVIOUS
<1> HIDE DEF new, banned
<1>7. /\ C!LoadChannel(saved, read) \in Channel
      /\ C!LoadChannel(saved, read).type = saved.type
      /\ C!LoadChannel(saved, read).owner = saved.owner
      /\ C!LoadChannel(saved, read).moderators = saved.moderators
      /\ C!LoadChannel(saved, read).top = saved.top
      /\ C!LoadChannel(saved, read).text = saved.text
      /\ C!LoadChannel(saved, read).bans = banned
  BY <1>1, <1>2, <1>3, <1>4, <1>5 DEF Channel
<1> QED BY <1>6, <1>7

\* What a start makes of the file.
LEMMA StartMakes ==
    ASSUME C!SavedAssumption, SavedInv, C!Start
    PROVE  /\ chan' \in [Chan -> Channel] /\ channelOpList' = C!ChannelOps(chan')
           /\ ~running /\ running' = TRUE /\ channelsFile' = channelsFile
           /\ \E read \in [Chan -> SUBSET User] : \A ch \in Chan :
                IF channelsFile # Torn /\ ch \in DOMAIN channelsFile
                THEN /\ channelsFile[ch] \in C!Saved
                     /\ read[ch] \in C!BansRead(channelsFile[ch].bans)
                     /\ chan'[ch] = C!LoadChannel(channelsFile[ch], read[ch])
                ELSE chan'[ch].type # "absent" => ch \in SpecialChan
<1>1. PICK read \in [Chan -> SUBSET User] :
        /\ channelsFile # Torn => \A ch \in DOMAIN channelsFile :
                read[ch] \in C!BansRead(channelsFile[ch].bans)
        /\ chan' = C!ChatInit(C!LoadChannels(read))
  BY DEF C!Start
<1>2. /\ channelOpList' = C!ChannelOps(chan')
      /\ ~running /\ running' = TRUE /\ channelsFile' = channelsFile
  BY DEF C!Start
<1> DEFINE loaded == C!LoadChannels(read)
<1>3. C!CreateSpecialPrivateChannel \in Channel
  <2>1. (CHOOSE t \in Text : TRUE) \in Text
    BY Numbers
  <2>2. C!NewChannel("private", NoUser, CHOOSE t \in Text : TRUE) \in Channel
    BY <2>1, NewChannelTypes DEF Kinds
  <2> QED BY <2>2 DEF C!CreateSpecialPrivateChannel, Channel
<1>4. ASSUME NEW ch \in Chan, channelsFile # Torn, ch \in DOMAIN channelsFile
      PROVE  /\ channelsFile[ch] \in C!Saved
             /\ loaded[ch] = C!LoadChannel(channelsFile[ch], read[ch])
             /\ loaded[ch] \in Channel /\ loaded[ch].type # "absent"
  <2>1. channelsFile[ch] \in C!Saved
    BY <1>4 DEF SavedInv, FileOK
  <2>2. loaded[ch] = C!LoadChannel(channelsFile[ch], read[ch])
    BY <1>4 DEF C!LoadChannels
  <2>3. channelsFile[ch].type # "absent"
    BY <2>1 DEF C!Saved
  <2> QED BY <2>1, <2>2, <2>3, LoadTypes
<1>5. ASSUME NEW ch \in Chan, ~(channelsFile # Torn /\ ch \in DOMAIN channelsFile)
      PROVE  loaded[ch] = C!NoChannel
  BY <1>5 DEF C!LoadChannels
<1> HIDE DEF loaded
<1>6. ASSUME NEW ch \in Chan
      PROVE  chan'[ch] = IF ch \in SpecialChan /\ loaded[ch].type = "absent"
                         THEN C!CreateSpecialPrivateChannel ELSE loaded[ch]
  BY <1>1 DEF C!ChatInit, loaded
<1>7. \A ch \in Chan : loaded[ch] \in Channel
  BY <1>4, <1>5, NoChannelTypes
<1>8. chan' \in [Chan -> Channel]
  <2>1. chan' = [ch \in Chan |-> IF ch \in SpecialChan /\ loaded[ch].type = "absent"
                                 THEN C!CreateSpecialPrivateChannel ELSE loaded[ch]]
    BY <1>1 DEF C!ChatInit, loaded
  <2> QED BY <1>3, <1>7, <2>1
<1>9. ASSUME NEW ch \in Chan
      PROVE  IF channelsFile # Torn /\ ch \in DOMAIN channelsFile
             THEN /\ channelsFile[ch] \in C!Saved
                  /\ read[ch] \in C!BansRead(channelsFile[ch].bans)
                  /\ chan'[ch] = C!LoadChannel(channelsFile[ch], read[ch])
             ELSE chan'[ch].type # "absent" => ch \in SpecialChan
  <2>1. CASE channelsFile # Torn /\ ch \in DOMAIN channelsFile
    BY <1>1, <1>4, <1>6, <2>1
  <2>2. CASE ~(channelsFile # Torn /\ ch \in DOMAIN channelsFile)
    BY <1>5, <1>6, <2>2, NoChannelTypes
  <2> QED BY <2>1, <2>2
<1> QED BY <1>2, <1>8, <1>9

LEMMA StartKeepsChannels ==
    ASSUME C!SavedAssumption, SavedInv, C!Start
    PROVE  SavedInv'
BY StartMakes DEF SavedInv, FileOK

LEMMA TickKeepsChannels ==
    ASSUME C!SavedAssumption, SavedInv, C!Tick
    PROVE  SavedInv'
<1>1. UNCHANGED <<channelOpList, running>>
  BY DEF C!Tick
<1>2. ASSUME NEW ch \in Chan PROVE chan'[ch] \in Channel /\ OpsOf(chan'[ch]) = OpsOf(chan[ch])
  <2> DEFINE k == chan[ch]
             banned == C!Elapse(k.bans, C!NoBan)
             idle == IF k.idle > Day THEN k.idle ELSE k.idle + 1
  <2>1. k \in Channel
    BY ChannelOf
  <2>2. banned \in [User -> {C!NoBan} \cup 0 .. C!Forever]
    <3>1. k.bans \in [User -> {C!NoBan} \cup 0 .. C!Forever]
      BY <2>1 DEF Channel
    <3>2. \A l \in 1 .. MaxBan : l - 1 \in 0 .. C!Forever
      BY Numbers
    <3> QED BY <3>1, <3>2 DEF C!Elapse
  <2>3. idle \in 0 .. (Day + 1)
    <3>1. k.idle \in 0 .. (Day + 1) /\ Day \in Nat
      BY <2>1, Numbers DEF Channel
    <3> QED BY <3>1
  <2>4. chan'[ch] = [k EXCEPT !.bans = banned, !.idle = idle]
    BY <2>1 DEF C!Tick, Channel
  <2> HIDE DEF k, banned, idle
  <2>5. chan'[ch] \in Channel /\ OpsOf(chan'[ch]) = OpsOf(k)
    BY <2>1, <2>2, <2>3, <2>4 DEF Channel, OpsOf
  <2> QED BY <2>5 DEF k
<1>3. chan' \in [Chan -> Channel]
  <2>1. chan' = [ch \in Chan |-> chan'[ch]]
    BY DEF C!Tick
  <2> QED BY <1>2, <2>1
<1>4. C!ChannelOps(chan') = C!ChannelOps(chan)
  BY <1>2, OpsAreUnion
<1>5. FileOK'
  <2>1. CASE channelsFile = Torn
    BY <2>1 DEF C!Tick, FileOK
  <2>2. CASE channelsFile # Torn
    <3>1. /\ DOMAIN channelsFile \subseteq Chan
          /\ \A ch \in DOMAIN channelsFile : channelsFile[ch] \in C!Saved
      BY <2>2 DEF SavedInv, FileOK
    <3>2. channelsFile' = [ch \in DOMAIN channelsFile |->
                 [channelsFile[ch] EXCEPT !.bans = C!Elapse(channelsFile[ch].bans, C!Over)]]
      BY <2>2 DEF C!Tick
    <3>3. ASSUME NEW ch \in DOMAIN channelsFile PROVE channelsFile'[ch] \in C!Saved
      <4> DEFINE banned == C!Elapse(channelsFile[ch].bans, C!Over)
      <4>1. channelsFile[ch].bans \in [User -> C!NoBan .. C!Forever]
        BY <3>1 DEF C!Saved
      <4>2. /\ C!Over \in C!NoBan .. C!Forever
            /\ \A l \in 1 .. MaxBan : l - 1 \in C!NoBan .. C!Forever
        BY Numbers
      <4>3. banned \in [User -> C!NoBan .. C!Forever]
        BY <4>1, <4>2 DEF C!Elapse
      <4>4. channelsFile'[ch] = [channelsFile[ch] EXCEPT !.bans = banned]
        BY <3>2
      <4> HIDE DEF banned
      <4> QED BY <3>1, <4>3, <4>4 DEF C!Saved
    <3>4. DOMAIN channelsFile' = DOMAIN channelsFile
      BY <3>2
    <3> QED BY <3>1, <3>3, <3>4 DEF FileOK
  <2> QED BY <2>1, <2>2
<1> QED BY <1>1, <1>3, <1>4, <1>5 DEF SavedInv

-----------------------------------------------------------------------------
(* The theorems about the channels *)

LEMMA SavedInitially == ASSUME C!SavedAssumption, C!Init PROVE SavedInv
<1>1. /\ chan = [ch \in Chan |-> IF ch \in SpecialChan
                                  /\ [x \in Chan |-> C!NoChannel][ch].type = "absent"
                                 THEN C!CreateSpecialPrivateChannel
                                 ELSE [x \in Chan |-> C!NoChannel][ch]]
      /\ channelOpList = {} /\ running = TRUE /\ channelsFile = C!SaveChannels(chan)
  BY DEF C!Init, C!ChatInit
<1>2. C!CreateSpecialPrivateChannel \in Channel /\ OpsOf(C!CreateSpecialPrivateChannel) = {}
  <2>1. (CHOOSE t \in Text : TRUE) \in Text
    BY Numbers
  <2>2. /\ C!NewChannel("private", NoUser, CHOOSE t \in Text : TRUE) \in Channel
        /\ OpsOf(C!NewChannel("private", NoUser, CHOOSE t \in Text : TRUE)) = {}
    BY <2>1, NewChannelTypes DEF Kinds
  <2> QED BY <2>2 DEF C!CreateSpecialPrivateChannel, Channel, OpsOf
<1>3. \A ch \in Chan : chan[ch] \in Channel /\ OpsOf(chan[ch]) = {}
  BY <1>1, <1>2, NoChannelTypes
<1>4. chan \in [Chan -> Channel]
  BY <1>1, <1>3
<1>5. FileOK
  BY <1>1, <1>4, SaveTypes DEF FileOK
<1>6. \A u : u \notin C!ChannelOps(chan)
  BY <1>3 DEF C!ChannelOps, OpsOf
<1>7. C!ChannelOps(chan) = {}
  BY <1>6 DEF C!ChannelOps
<1> QED BY <1>1, <1>4, <1>5, <1>7 DEF SavedInv

LEMMA SavedSteps ==
    ASSUME C!SavedAssumption, SavedInv, [C!Next]_(C!vars)
    PROVE  SavedInv'
<1>1. CASE UNCHANGED C!vars
  BY <1>1 DEF C!vars, SavedInv, FileOK, C!ChannelOps
<1> QED
  BY <1>1, CreationKeeps, MembersKeep, BanKeeps, ModeratorsKeep, SettingsKeep,
     IdleTasksKeep, StopKeeps, StartKeepsChannels, TickKeepsChannels
  DEF C!Next, C!Binding

\* Channels and their file are what they should be, and channelOpList is the
\* moderators of the public ones, through every binding, idle task and restart.
THEOREM ChannelsKept == ASSUME C!SavedAssumption PROVE C!Spec => []C!ChannelsOK
<1>1. C!Init => SavedInv
  BY SavedInitially
<1>2. SavedInv /\ [C!Next]_(C!vars) => SavedInv'
  BY SavedSteps
<1>3. SavedInv => C!ChannelsOK
  BY DEF SavedInv, FileOK, Channel, Kinds, C!ChannelsOK, C!TypeOK, C!OpListAgrees
<1> QED BY <1>1, <1>2, <1>3, PTL DEF C!Spec

LEMMA AllBansRead ==
    ASSUME C!SavedAssumption, NEW banned, NEW read \in C!BansRead(banned),
           C!Cardinality({u \in User : banned[u] # C!NoBan}) <= MaxBans
    PROVE  read = {u \in User : banned[u] # C!NoBan}
<1> DEFINE listed == {u \in User : banned[u] # C!NoBan}
<1>1. IsFiniteSet(listed) /\ Cardinality(listed) \in Nat /\ Cardinality(listed) <= MaxBans
      /\ MaxBans \in Nat
  BY Numbers, FS_Subset, FS_CardinalityType
<1>2. read \subseteq listed /\ Cardinality(read) = Cardinality(listed)
  BY <1>1, Numbers DEF C!BansRead
<1> HIDE DEF listed
<1>3. read = listed
  BY <1>1, <1>2, FS_Subset
<1> QED BY <1>3 DEF listed

LEMMA StartRestores ==
    ASSUME C!SavedAssumption, SavedInv, C!Start
    PROVE  C!Restored
<1>1. PICK read \in [Chan -> SUBSET User] : \A ch \in Chan :
        IF channelsFile # Torn /\ ch \in DOMAIN channelsFile
        THEN /\ channelsFile[ch] \in C!Saved
             /\ read[ch] \in C!BansRead(channelsFile[ch].bans)
             /\ chan'[ch] = C!LoadChannel(channelsFile[ch], read[ch])
        ELSE chan'[ch].type # "absent" => ch \in SpecialChan
  BY StartMakes
<1>2. ASSUME NEW ch \in Chan, channelsFile # Torn, ch \in DOMAIN channelsFile
      PROVE  /\ chan'[ch].type = channelsFile[ch].type
             /\ chan'[ch].owner = channelsFile[ch].owner
             /\ chan'[ch].moderators = channelsFile[ch].moderators
             /\ chan'[ch].top = channelsFile[ch].top
             /\ chan'[ch].text = channelsFile[ch].text
             /\ C!Cardinality({u \in User : channelsFile[ch].bans[u] # C!NoBan}) <= MaxBans =>
                  \A u \in User : C!IsBanned(chan'[ch], u) <=>
                                     channelsFile[ch].bans[u] \in 0 .. C!Forever
  <2> DEFINE saved == channelsFile[ch]
  <2>1. saved \in C!Saved /\ read[ch] \in C!BansRead(saved.bans)
        /\ chan'[ch] = C!LoadChannel(saved, read[ch])
    BY <1>1, <1>2
  <2> HIDE DEF saved
  <2>2. ASSUME C!Cardinality({u \in User : saved.bans[u] # C!NoBan}) <= MaxBans, NEW u \in User
        PROVE  C!IsBanned(chan'[ch], u) <=> saved.bans[u] \in 0 .. C!Forever
    <3>1. read[ch] = {v \in User : saved.bans[v] # C!NoBan}
      BY <2>1, <2>2, AllBansRead
    <3>2. chan'[ch].bans[u] = IF u \in read[ch] /\ saved.bans[u] # C!Over
                              THEN saved.bans[u] ELSE C!NoBan
      BY <2>1, LoadTypes
    <3> QED BY <3>1, <3>2, Numbers DEF C!IsBanned
  <2>3. /\ chan'[ch].type = saved.type /\ chan'[ch].owner = saved.owner
        /\ chan'[ch].moderators = saved.moderators /\ chan'[ch].top = saved.top
        /\ chan'[ch].text = saved.text
    BY <2>1, LoadTypes
  <2> QED BY <2>2, <2>3 DEF saved
<1>3. ASSUME NEW ch \in Chan, ~(channelsFile # Torn /\ ch \in DOMAIN channelsFile), C!Exists(ch)'
      PROVE  ch \in SpecialChan
  BY <1>1, <1>3 DEF C!Exists
<1> QED BY <1>2, <1>3 DEF C!Restored

\* A start restores every channel of the file with its bans, a halt saves each that
\* is not closed (loadChannels, saveChannels).
THEOREM ChannelsAreRead ==
    ASSUME C!SavedAssumption
    PROVE  C!Spec => [][C!Restored /\ C!HaltKeeps]_(C!vars)
<1>1. C!Init => SavedInv
  BY SavedInitially
<1>2. SavedInv /\ [C!Next]_(C!vars) => SavedInv'
  BY SavedSteps
<1>3. ASSUME SavedInv, C!Next PROVE C!Restored
  <2>1. CASE ~running /\ running'
    <3>1. C!Start
      BY <1>3, <2>1
      DEF C!Next, C!Binding, C!CreateChannel, C!DestroyChannel, C!CreatePrivateChannel,
          C!JoinChannel, C!PartChannel, C!ChannelBan, C!Unban, C!BanFor, C!AddMod,
          C!RemoveMod, C!SetOwner, C!ChannelTimeout, C!SetPublic, C!SetDescription,
          C!SetTitle, C!SetMode, C!SetText, C!Update, C!IdleTasks, C!IdleTasksFail,
          C!Halt, C!Crash, C!Tick
    <3> QED BY <1>3, <3>1, StartRestores
  <2> QED BY <2>1 DEF C!Restored
<1>4. ASSUME SavedInv, C!Next PROVE C!HaltKeeps
  <2>1. CASE running /\ ~running' /\ channelsFile' \notin {channelsFile, Torn}
    <3>1. C!Halt
      BY <1>4, <2>1
      DEF C!Next, C!Binding, C!CreateChannel, C!DestroyChannel, C!CreatePrivateChannel,
          C!JoinChannel, C!PartChannel, C!ChannelBan, C!Unban, C!BanFor, C!AddMod,
          C!RemoveMod, C!SetOwner, C!ChannelTimeout, C!SetPublic, C!SetDescription,
          C!SetTitle, C!SetMode, C!SetText, C!Update, C!IdleTasks, C!IdleTasksFail,
          C!Crash, C!Tick, C!Start
    <3>2. channelsFile' = C!SaveChannels(chan) /\ chan \in [Chan -> Channel]
      BY <1>4, <3>1 DEF C!Halt, SavedInv
    <3> QED BY <3>2, SaveTypes DEF C!HaltKeeps
  <2> QED BY <2>1 DEF C!HaltKeeps
<1> QED BY <1>1, <1>2, <1>3, <1>4, PTL DEF C!Spec

-----------------------------------------------------------------------------
(* All that is stored *)

\* The lists and the channels, in memory and in the files, agree at all times
\* (saveOps, saveBans, idleTasksCallback, loadChannels and the bindings).
THEOREM StoredCorrect ==
    ASSUME F!FilesAssumption, C!SavedAssumption
    PROVE  F!Spec /\ C!Spec => []StoredOK
<1>1. [](F!FilesOK) /\ [](C!ChannelsOK) => []StoredOK
  BY PTL DEF StoredOK
<1> QED BY <1>1, FilesCorrect, ChannelsKept, PTL

\* A start, a reload and a halt lose nothing of what the files or memory have.
THEOREM LoadsCorrect ==
    ASSUME F!FilesAssumption, C!SavedAssumption
    PROVE  F!Spec /\ C!Spec => LoadsOK
BY FilesAreRead, ChannelsAreRead DEF LoadsOK
=============================================================================
