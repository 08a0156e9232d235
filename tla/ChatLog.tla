------------------------------- MODULE ChatLog -------------------------------
(***************************************************************************)
(* The chat log (logger_thread.cpp): Lua hands entries to a bounded queue  *)
(* and wakes a thread, which passes each entry to every reader of its      *)
(* socket, over a queue and a write watcher for each reader.  The server's *)
(* thread starts and stops it, and on stopping deletes the readers itself. *)
(*                                                                         *)
(* A step is one access to what the threads share: the queue under its     *)
(* mutex, the flag, the loop and its watcher as they are made and started, *)
(* and the list of readers, which no lock guards: while the server's       *)
(* thread deletes them ("clearing"), a step of the logger's that uses the  *)
(* list may harm the process.  An entry is two halves long, so that it can *)
(* be cut by a partial write.                                              *)
(***************************************************************************)
EXTENDS Integers, Sequences

CONSTANTS
    Reader,      \* programs that connect to the log socket
    MaxEntries,  \* bound on entries
    MaxPending,  \* MAX_PENDING_LOG_ENTRIES (5000)
    MaxStarts    \* bound on how often logging is started

ASSUME BoundAssumption == {MaxEntries, MaxPending, MaxStarts} \subseteq Nat

VARIABLES
    chatLogger,    \* Server: is there a ChatLogThread object
    doRun,         \* its flag, which both threads write
    main,          \* where the server's thread is
    thread,        \* where the logger's thread is
    requestQueue,  \* entries the logger has not taken
    async,         \* has logger_async been sent
    connected,     \* connectionList
    entryQueue,    \* entries a reader has not been sent
    writeOffset,   \* is the first half of the first of them sent
    crashed,       \* has the process died of what the two threads shared
    entries, starts,    \* entries made, and starts, so far
    log,           \* history: entries the logger has taken
    since,         \* history: how many of them before a reader connected
    received,      \* history: halves of entries a reader was sent
    missed,        \* history: was a wake-up dropped since the queue was empty
    disturbed,     \* history: was logging stopped in the middle of something
    stopLost       \* history: was the stop sent before its watcher was started

server == <<chatLogger, doRun, main>>
readers == <<connected, entryQueue, writeOffset, since, received>>
vars == <<server, thread, requestQueue, async, readers, crashed, entries,
          starts, log, missed, disturbed, stopLost>>

\* logger_async is started in logger_loop: a send is noticed.
Ready == thread \in {"loop", "processing"}

-----------------------------------------------------------------------------
(* The server's thread *)

Main(at) == main = at /\ ~crashed

\* Server::loggerStart and startThread: a new object, so an empty queue.
LoggerStart ==
    /\ Main("idle") /\ ~chatLogger /\ starts < MaxStarts
    /\ chatLogger' = TRUE /\ doRun' = TRUE
    /\ thread' = "starting"
    /\ starts' = starts + 1
    /\ requestQueue' = <<>> /\ log' = <<>>
    /\ missed' = FALSE /\ disturbed' = FALSE /\ stopLost' = FALSE
    /\ UNCHANGED <<main, async, readers, crashed, entries>>

\* addLogEntry, with the number of the entry in entries': it is dropped when
\* the logger does not run, the mutex is not had in time, or the queue is
\* full; nobody looks at the result.
AddLogEntry ==
    \/ /\ doRun /\ Len(requestQueue) < MaxPending
       /\ requestQueue' = Append(requestQueue, entries')
    \/ UNCHANGED requestQueue

LogMessage ==
    /\ Main("idle") /\ chatLogger /\ entries < MaxEntries
    /\ entries' = entries + 1
    /\ AddLogEntry
    /\ main' = "added"
    /\ UNCHANGED <<chatLogger, doRun, thread, async, readers, crashed, starts,
                   log, missed, disturbed, stopLost>>

SendWakeup ==
    /\ Main("added")
    /\ main' = "idle"
    /\ async' = (async \/ (doRun /\ Ready))
    /\ missed' = (missed \/ (~Ready /\ requestQueue # <<>>))
    /\ UNCHANGED <<chatLogger, doRun, thread, requestQueue, readers, crashed,
                   entries, starts, log, disturbed, stopLost>>

\* stopThread clears the flag, whatever the logger is at.
StopThread ==
    /\ Main("idle") /\ chatLogger
    /\ doRun' = FALSE
    /\ main' = "clearing"
    /\ disturbed' = (thread # "loop" \/ async \/ \E r \in connected : entryQueue[r] # <<>>)
    /\ UNCHANGED <<chatLogger, thread, requestQueue, async, readers, crashed,
                   entries, starts, log, missed, stopLost>>

\* It copies the list, deletes the readers and clears the list: if one of
\* them has something to write, or the logger is passing an entry on, the
\* process may die of it.  A reader accepted meanwhile is deleted or, if it
\* came after the copy, forgotten with its socket open.
DeleteReaders ==
    /\ Main("clearing")
    /\ main' = "stopping"
    /\ crashed' \in IF \/ thread = "processing"
                       \/ \E r \in connected : entryQueue[r] # <<>>
                    THEN BOOLEAN ELSE {FALSE}
    /\ connected' = {}
    /\ entryQueue' = [r \in Reader |-> <<>>]
    /\ writeOffset' = [r \in Reader |-> 0]
    /\ UNCHANGED <<chatLogger, doRun, thread, requestQueue, async, since, received,
                   entries, starts, log, missed, disturbed, stopLost>>

\* It then wakes the logger.  A loop or watcher that is not there yet, or no
\* more, is a null pointer (or, as the logger ends, one about to be freed);
\* one that is made and not started forgets that it was sent.
SendStop ==
    /\ Main("stopping")
    /\ main' = "joining"
    /\ async' = (async \/ Ready)
    /\ stopLost' = (thread = "preparing")
    /\ crashed' \in CASE thread = "starting" -> {TRUE}
                       [] thread = "exited" -> BOOLEAN
                       [] OTHER -> {FALSE}
    /\ UNCHANGED <<chatLogger, doRun, thread, requestQueue, readers, entries,
                   starts, log, missed, disturbed>>

\* pthread_join returns; loggerStop deletes the object.  A reader accepted
\* since the others were deleted is forgotten with its socket open.
Joined ==
    /\ Main("joining") /\ thread = "exited"
    /\ main' = "idle" /\ chatLogger' = FALSE /\ thread' = "none"
    /\ requestQueue' = <<>> /\ async' = FALSE
    /\ connected' = {}
    /\ entryQueue' = [r \in Reader |-> <<>>]
    /\ writeOffset' = [r \in Reader |-> 0]
    /\ UNCHANGED <<doRun, since, received, crashed, entries, starts, log,
                   missed, disturbed, stopLost>>

-----------------------------------------------------------------------------
(* The logger's thread *)

Logger(at) == thread = at /\ ~crashed

\* A step that uses the list of readers, or one of them, as stopThread may.
UsesReaders ==
    /\ crashed' \in IF main = "clearing" THEN BOOLEAN ELSE {FALSE}
    /\ disturbed' = (disturbed \/ main = "clearing")

\* runner has made its socket, and sets logger_loop and logger_async.
Runner ==
    /\ Logger("starting")
    /\ thread' = "preparing"
    /\ UNCHANGED <<server, requestQueue, async, readers, crashed, entries,
                   starts, log, missed, disturbed, stopLost>>

\* ev_async_start forgets what was sent before it; the loop runs.
StartAsync ==
    /\ Logger("preparing")
    /\ thread' = "loop" /\ async' = FALSE
    /\ UNCHANGED <<server, requestQueue, readers, crashed, entries, starts, log,
                   missed, disturbed, stopLost>>

\* createSocket failed.
RunnerFails ==
    /\ Logger("starting")
    /\ thread' = "exited" /\ doRun' = FALSE
    /\ UNCHANGED <<chatLogger, main, requestQueue, async, readers, crashed,
                   entries, starts, log, missed, disturbed, stopLost>>

Accept(r) ==
    /\ Logger("loop") /\ r \notin connected
    /\ connected' = connected \cup {r}
    /\ since' = [since EXCEPT ![r] = Len(log)]
    /\ received' = [received EXCEPT ![r] = <<>>]
    /\ UsesReaders
    /\ UNCHANGED <<server, thread, requestQueue, async, entryQueue,
                   writeOffset, entries, starts, log, missed, stopLost>>

\* Mutated form of ProcessQueue: a stop is not noticed.
ProcessQueueDeaf ==
    /\ Logger("loop") /\ async
    /\ async' = FALSE
    /\ thread' = "processing"
    /\ UNCHANGED <<server, requestQueue, readers, crashed, entries, starts,
                   log, missed, disturbed, stopLost>>

ProcessQueue ==
    /\ Logger("loop") /\ async
    /\ async' = FALSE
    /\ thread' = IF doRun THEN "processing" ELSE "exited"
    /\ UNCHANGED <<server, requestQueue, readers, crashed, entries, starts,
                   log, missed, disturbed, stopLost>>

\* processEntry hands the entry to each reader.
ProcessEntry(entry) ==
    entryQueue' = [r \in Reader |-> IF r \in connected THEN Append(entryQueue[r], entry)
                                    ELSE entryQueue[r]]

\* getQueueEntry and processEntry, again and again until the queue is empty.
GetQueueEntry ==
    /\ Logger("processing")
    /\ IF requestQueue = <<>>
       THEN /\ thread' = "loop" /\ missed' = FALSE
            /\ UNCHANGED <<requestQueue, entryQueue, log, crashed, disturbed>>
       ELSE /\ requestQueue' = Tail(requestQueue)
            /\ log' = Append(log, Head(requestQueue))
            /\ ProcessEntry(Head(requestQueue))
            /\ UsesReaders
            /\ UNCHANGED <<thread, missed>>
    /\ UNCHANGED <<server, async, connected, writeOffset, since, received,
                   entries, starts, stopLost>>

\* Mutated form of WriteComplete: the offset of a cut entry is kept.
WriteCompleteOffset(r) ==
    /\ Logger("loop") /\ r \in connected /\ entryQueue[r] # <<>>
    /\ received' = [received EXCEPT ![r] =
                      @ \o (IF writeOffset[r] = 0 THEN <<<<Head(entryQueue[r]), 1>>>> ELSE <<>>)
                        \o <<<<Head(entryQueue[r]), 2>>>>]
    /\ entryQueue' = [entryQueue EXCEPT ![r] = Tail(@)]
    /\ UsesReaders
    /\ UNCHANGED <<server, thread, requestQueue, async, connected,
                   writeOffset, since, entries, starts, log, missed,
                   stopLost>>

\* writeCallback sends what is left of the first entry.
WriteComplete(r) ==
    /\ Logger("loop") /\ r \in connected /\ entryQueue[r] # <<>>
    /\ received' = [received EXCEPT ![r] =
                      @ \o (IF writeOffset[r] = 0 THEN <<<<Head(entryQueue[r]), 1>>>> ELSE <<>>)
                        \o <<<<Head(entryQueue[r]), 2>>>>]
    /\ entryQueue' = [entryQueue EXCEPT ![r] = Tail(@)]
    /\ writeOffset' = [writeOffset EXCEPT ![r] = 0]
    /\ UsesReaders
    /\ UNCHANGED <<server, thread, requestQueue, async, connected, since,
                   entries, starts, log, missed, stopLost>>

\* It sends a part of it and waits for the socket to take more.
WritePart(r) ==
    /\ Logger("loop") /\ r \in connected /\ entryQueue[r] # <<>>
    /\ writeOffset[r] = 0
    /\ received' = [received EXCEPT ![r] = Append(@, <<Head(entryQueue[r]), 1>>)]
    /\ writeOffset' = [writeOffset EXCEPT ![r] = 1]
    /\ UsesReaders
    /\ UNCHANGED <<server, thread, requestQueue, async, connected, entryQueue,
                   since, entries, starts, log, missed, stopLost>>

\* A failed write deletes the reader.
WriteFails(r) ==
    /\ Logger("loop") /\ r \in connected /\ entryQueue[r] # <<>>
    /\ connected' = connected \ {r}
    /\ entryQueue' = [entryQueue EXCEPT ![r] = <<>>]
    /\ writeOffset' = [writeOffset EXCEPT ![r] = 0]
    /\ UsesReaders
    /\ UNCHANGED <<server, thread, requestQueue, async, since, received,
                   entries, starts, log, missed, stopLost>>

-----------------------------------------------------------------------------
(* The specification *)

Init ==
    /\ chatLogger = FALSE /\ doRun = FALSE /\ main = "idle"
    /\ thread = "none"
    /\ requestQueue = <<>> /\ async = FALSE
    /\ connected = {}
    /\ entryQueue = [r \in Reader |-> <<>>]
    /\ writeOffset = [r \in Reader |-> 0]
    /\ crashed = FALSE /\ entries = 0 /\ starts = 0
    /\ log = <<>>
    /\ since = [r \in Reader |-> 0]
    /\ received = [r \in Reader |-> <<>>]
    /\ missed = FALSE /\ disturbed = FALSE /\ stopLost = FALSE

MainStep ==
    \/ LoggerStart \/ LogMessage \/ SendWakeup
    \/ StopThread \/ DeleteReaders \/ SendStop \/ Joined

LoggerStep ==
    \/ Runner \/ StartAsync \/ RunnerFails \/ ProcessQueue \/ GetQueueEntry
    \/ \E r \in Reader :
         Accept(r) \/ WriteComplete(r) \/ WritePart(r) \/ WriteFails(r)

Next == MainStep \/ LoggerStep

Spec == Init /\ [][Next]_vars

\* Both threads are scheduled; the readers take what they are sent.
Fairness ==
    /\ WF_vars(SendWakeup) /\ WF_vars(DeleteReaders) /\ WF_vars(SendStop)
    /\ WF_vars(Joined)
    /\ WF_vars(Runner \/ RunnerFails) /\ WF_vars(StartAsync)
    /\ SF_vars(ProcessQueue) /\ WF_vars(GetQueueEntry)
    /\ SF_vars(\E r \in Reader : WriteComplete(r))

-----------------------------------------------------------------------------
(* Properties *)

TypeOK ==
    /\ {chatLogger, doRun, async, crashed, missed, disturbed, stopLost} \subseteq BOOLEAN
    /\ main \in {"idle", "added", "clearing", "stopping", "joining"}
    /\ thread \in {"none", "starting", "preparing", "loop", "processing", "exited"}
    /\ Len(requestQueue) <= MaxPending
    /\ connected \subseteq Reader
    /\ \A r \in Reader : writeOffset[r] = 1 => entryQueue[r] # <<>>

Halves(s) == [k \in 1 .. 2 * Len(s) |-> <<s[(k + 1) \div 2], 2 - (k % 2)>>]

\* What a reader was sent and what waits for it are together exactly the
\* entries logged since it connected, in order and without a half missing or
\* sent twice, wherever writes were cut.
InOrder ==
    \A r \in connected :
        received[r] \o SubSeq(Halves(entryQueue[r]), writeOffset[r] + 1,
                              2 * Len(entryQueue[r]))
            = Halves(SubSeq(log, since[r] + 1, Len(log)))

\* An entry does not lie in the queue without the logger being at it, awake
\* or about to be woken, unless the wake-up came before the logger had a
\* loop: such an entry waits for the next one.
NoLostWakeup ==
    requestQueue # <<>> /\ doRun /\ thread = "loop" /\ ~missed
        => async \/ main = "added"

\* Logging that is stopped while the logger rests in its loop, and goes on
\* resting while its readers are deleted, never harms the process.  (Stopped
\* before the loop is there, with a wake-up or entries under way, or as a
\* reader is accepted, it may: DeleteReaders, SendStop, UsesReaders.)
QuietStopIsSafe == crashed => disturbed

\* The server's thread waits for a logger that will end: it has ended, or its
\* flag is down and the wake-up to see it is still to be taken, whatever
\* entries, readers and wake-ups it was at.  The exception: a stop that was
\* sent after the watcher was made and before it was started is not seen,
\* and the server's thread waits for ever.
StopIsSeen ==
    main = "joining" /\ ~crashed /\ ~stopLost =>
        thread = "exited" \/ (Ready /\ async /\ ~doRun)

\* What the two threads keep of the log, and of the process.
LogOK == TypeOK /\ InOrder /\ NoLostWakeup /\ QuietStopIsSafe /\ StopIsSeen

\* Whoever stops logging gets out of it: the logger notices and ends, or the
\* process is dead already; or the stop came before the watcher was started
\* (StopIsSeen), and pthread_join does not return.
StopEnds ==
    (main \in {"clearing", "stopping", "joining"}) ~> (main = "idle" \/ crashed \/ stopLost)

\* What was queued with a wake-up reaches the readers there are.
EntriesGo ==
    \A r \in Reader :
        (r \in connected /\ (entryQueue[r] # <<>> \/ (requestQueue # <<>> /\ ~missed /\ doRun)))
            ~> (\/ entryQueue[r] = <<>> /\ requestQueue = <<>>
                \/ r \notin connected \/ ~doRun)

\* The log serves those who write to it, stop it and read it.
LogServes == StopEnds /\ EntriesGo
=============================================================================
