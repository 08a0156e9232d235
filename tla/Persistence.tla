----------------------------- MODULE Persistence -----------------------------
(***************************************************************************)
(* The lists that ServerState keeps in files: operators (ops.json), super  *)
(* moderators (scops.json) and the bans and time-outs of accounts          *)
(* (bans.json).  A handler that changes a list rewrites its file before it *)
(* returns; the idle tasks and a halt rewrite them all.  A file is         *)
(* truncated and written in place, so a crash or a full disk leaves one    *)
(* that cannot be parsed, which the next start takes for an empty list.    *)
(*                                                                         *)
(* The server runs one handler at a time: while "saving" is not empty it   *)
(* is inside of one, and nothing but the file system or a crash acts.      *)
(* channels.json, which is written with them, is in SavedChannels.         *)
(***************************************************************************)
EXTENDS Integers, Sequences, FiniteSets

CONSTANTS
    Name,       \* names of characters
    Account,    \* account ids
    MaxTime,    \* bound of the clock
    MaxLength,  \* longest time-out that is given
    MaxFaults,  \* bound on crashes, failed writes and edits
    Torn        \* what cannot be parsed: an empty file, or one cut off

File == {"ops", "scops", "bans"}

VARIABLES
    ops, scops,      \* opList, superCopList
    bans, timeouts,  \* banList: accounts; timeoutList: account -> end
    disk,            \* what the files hold
    saving,          \* files the handler under way has still to write
    writing,         \* is the first of them open, and truncated
    reloading,       \* does it read the files after that
    up,              \* is the server running
    now, faults,     \* the clock; crashes, failures and edits so far
    failed, edited   \* files whose last write failed; was bans.json edited

vars == <<ops, scops, bans, timeouts, disk, saving, writing, reloading, up,
          now, faults, failed, edited>>
lists == <<ops, scops, bans, timeouts>>
environment == <<up, now, faults, failed, edited>>

-----------------------------------------------------------------------------
(* What is in a file *)

NoTimeout == -1
TimeoutMap == [Account -> {NoTimeout} \cup 0..(MaxTime + MaxLength)]

BanList(b, t) == [bans |-> b, timeouts |-> t]

\* What cannot be parsed is neither of what can.
FilesAssumption ==
    /\ {MaxTime, MaxLength, MaxFaults} \subseteq Nat
    /\ \A names \in SUBSET Name : Torn # names
    /\ \A b \in SUBSET Account, t \in TimeoutMap : Torn # BanList(b, t)

Content(f) ==
    CASE f = "ops" -> ops
      [] f = "scops" -> scops
      [] f = "bans" -> BanList(bans, timeouts)

\* loadStringList clears the list once the file is known to be an array.
LoadStringList(list, f) == IF disk[f] = Torn THEN list ELSE disk[f]

LoadOps ==
    /\ ops' = LoadStringList(ops, "ops")
    /\ scops' = LoadStringList(scops, "scops")

\* loadBans adds what the file has to what there is.
LoadBans ==
    IF disk["bans"] = Torn THEN UNCHANGED <<bans, timeouts>>
    ELSE /\ bans' = bans \cup disk["bans"].bans
         /\ timeouts' = [a \in Account |->
                           IF disk["bans"].timeouts[a] = NoTimeout
                           THEN timeouts[a] ELSE disk["bans"].timeouts[a]]

-----------------------------------------------------------------------------
(* Handlers that change a list *)

Idle == up /\ saving = <<>> /\ ~reloading

Save(files) ==
    /\ saving' = files
    /\ UNCHANGED <<disk, writing, environment>>

OpsFile(o) == [file |-> "ops", content |-> o]
SCopsFile(sc) == [file |-> "scops", content |-> sc]
BansFile(b, t) == [file |-> "bans", content |-> BanList(b, t)]

\* Mutated form of SaveOps: the super moderators are left to the idle tasks.
SaveOpsAlone(o, sc) == <<OpsFile(o)>>

\* saveOps, which ends with saveSCops.
SaveOps(o, sc) == <<OpsFile(o), SCopsFile(sc)>>

\* saveBans drops the time-outs that are over before it writes.
Unexpired(t) ==
    [a \in Account |-> IF t[a] # NoTimeout /\ t[a] < now THEN NoTimeout ELSE t[a]]

\* s.addOp and s.removeOp, of AOP and DOP.
AOP(n) ==
    /\ Idle /\ n \notin ops
    /\ ops' = ops \cup {n}
    /\ Save(SaveOps(ops', scops))
    /\ UNCHANGED <<scops, bans, timeouts, reloading>>

DOP(n) ==
    /\ Idle /\ n \in ops
    /\ ops' = ops \ {n}
    /\ Save(SaveOps(ops', scops))
    /\ UNCHANGED <<scops, bans, timeouts, reloading>>

\* s.addSCop and s.removeSCop.
SCP(n, action) ==
    /\ Idle
    /\ scops' = IF action = "add" THEN scops \cup {n} ELSE scops \ {n}
    /\ Save(SaveOps(ops, scops'))
    /\ UNCHANGED <<ops, bans, timeouts, reloading>>

\* s.addTimeout.
TMO(a, length) ==
    /\ Idle
    /\ timeouts' = Unexpired([timeouts EXCEPT ![a] = now + length])
    /\ Save(<<BansFile(bans, timeouts')>>)
    /\ UNCHANGED <<ops, scops, bans, reloading>>

RemoveTimeout(a) == Unexpired([timeouts EXCEPT ![a] = NoTimeout])
RemoveBan(a) == bans \ {a}

\* s.removeTimeout and then s.removeBan, which save the file each.
UNB(a) ==
    /\ Idle
    /\ timeouts' = RemoveTimeout(a)
    /\ bans' = RemoveBan(a)
    /\ Save(<<BansFile(bans, timeouts'), BansFile(bans', timeouts')>>)
    /\ UNCHANGED <<ops, scops, reloading>>

AllFiles == <<BansFile(bans, Unexpired(timeouts))>> \o SaveOps(ops, scops)

\* idleTasksCallback, every saveinterval seconds; Server::run saves the same
\* lists when it ends.
IdleTasks ==
    /\ Idle
    /\ timeouts' = Unexpired(timeouts)
    /\ Save(AllFiles)
    /\ UNCHANGED <<ops, scops, bans, reloading>>

\* s.reload, of RLD: it may save everything before it reads the files.
RLD(savefirst) ==
    /\ Idle
    /\ reloading' = TRUE
    /\ timeouts' = IF savefirst THEN Unexpired(timeouts) ELSE timeouts
    /\ Save(IF savefirst THEN AllFiles ELSE <<>>)
    /\ UNCHANGED <<ops, scops, bans>>

Reload ==
    /\ up /\ reloading /\ saving = <<>>
    /\ reloading' = FALSE
    /\ LoadBans /\ LoadOps
    /\ UNCHANGED <<disk, saving, writing, environment>>

-----------------------------------------------------------------------------
(* fsaveFile *)

Open ==
    /\ up /\ saving # <<>> /\ ~writing
    /\ writing' = TRUE
    /\ disk' = [disk EXCEPT ![Head(saving).file] = Torn]
    /\ UNCHANGED <<lists, saving, reloading, up, now, faults, failed, edited>>

\* Nobody looks at what fsaveFile returns: the handler goes on.
OpenFails ==
    /\ up /\ saving # <<>> /\ ~writing /\ faults < MaxFaults
    /\ saving' = Tail(saving)
    /\ failed' = failed \cup {Head(saving).file}
    /\ faults' = faults + 1
    /\ UNCHANGED <<lists, disk, writing, reloading, up, now, edited>>

Close ==
    /\ up /\ writing
    /\ disk' = [disk EXCEPT ![Head(saving).file] = Head(saving).content]
    /\ failed' = failed \ {Head(saving).file}
    /\ edited' = (edited /\ Head(saving).file # "bans")
    /\ saving' = Tail(saving) /\ writing' = FALSE
    /\ UNCHANGED <<lists, reloading, up, now, faults>>

\* The stream's errors are not looked at either.
WriteFails ==
    /\ up /\ writing /\ faults < MaxFaults
    /\ failed' = failed \cup {Head(saving).file}
    /\ saving' = Tail(saving) /\ writing' = FALSE
    /\ faults' = faults + 1
    /\ UNCHANGED <<lists, disk, reloading, up, now, edited>>

-----------------------------------------------------------------------------
(* The process and its surroundings *)

\* The process ends at any instant; what it had in memory is gone.
Crash ==
    /\ up /\ faults < MaxFaults
    /\ up' = FALSE
    /\ saving' = <<>> /\ writing' = FALSE /\ reloading' = FALSE
    /\ ops' = {} /\ scops' = {} /\ bans' = {}
    /\ timeouts' = [a \in Account |-> NoTimeout]
    /\ faults' = faults + 1
    /\ UNCHANGED <<disk, now, failed, edited>>

\* Server::run loads the lists.
Start ==
    /\ ~up
    /\ up' = TRUE
    /\ LoadBans /\ LoadOps
    /\ UNCHANGED <<disk, saving, writing, reloading, now, faults, failed, edited>>

\* Somebody takes a ban out of bans.json with an editor.
Edit(a) ==
    /\ Idle /\ faults < MaxFaults
    /\ disk["bans"] # Torn /\ a \in disk["bans"].bans
    /\ disk' = [disk EXCEPT !["bans"].bans = @ \ {a}]
    /\ faults' = faults + 1 /\ edited' = TRUE
    /\ UNCHANGED <<lists, saving, writing, reloading, up, now, failed>>

Tick ==
    /\ now < MaxTime
    /\ now' = now + 1
    /\ UNCHANGED <<lists, disk, saving, writing, reloading, up, faults, failed, edited>>

\* The files an earlier run left, just loaded.
Init ==
    /\ ops \in SUBSET Name /\ scops = {}
    /\ bans \in SUBSET Account
    /\ timeouts = [a \in Account |-> NoTimeout]
    /\ disk = [f \in File |-> Content(f)]
    /\ saving = <<>> /\ writing = FALSE /\ reloading = FALSE /\ up = TRUE
    /\ now = 0 /\ faults = 0 /\ failed = {} /\ edited = FALSE

Command ==
    \/ \E n \in Name : AOP(n) \/ DOP(n) \/ \E action \in {"add", "remove"} : SCP(n, action)
    \/ \E a \in Account : UNB(a) \/ \E length \in 1..MaxLength : TMO(a, length)
    \/ \E savefirst \in BOOLEAN : RLD(savefirst)

Next ==
    \/ Command \/ IdleTasks \/ Reload
    \/ Open \/ OpenFails \/ Close \/ WriteFails
    \/ Crash \/ Start \/ Tick
    \/ \E a \in Account : Edit(a)

Spec == Init /\ [][Next]_vars

\* A handler runs to its end, a crashed server is started again, and the
\* timer of the idle tasks fires: strong fairness, as other handlers keep
\* the loop busy at times.
Fairness ==
    /\ WF_vars(Open) /\ WF_vars(Close) /\ WF_vars(Reload) /\ WF_vars(Start)
    /\ SF_vars(IdleTasks)

-----------------------------------------------------------------------------
(* Properties *)

TypeOK ==
    /\ ops \subseteq Name /\ scops \subseteq Name /\ bans \subseteq Account
    /\ timeouts \in TimeoutMap
    /\ \A f \in {"ops", "scops"} : disk[f] = Torn \/ disk[f] \subseteq Name
    /\ disk["bans"] = Torn \/ disk["bans"] \in [bans : SUBSET Account, timeouts : TimeoutMap]
    /\ \A i \in 1..Len(saving) : saving[i].file \in File
    /\ writing \in BOOLEAN /\ reloading \in BOOLEAN /\ up \in BOOLEAN
    /\ writing => saving # <<>>
    /\ failed \subseteq File /\ edited \in BOOLEAN

\* Between two handlers every file has exactly what memory has, whatever
\* commands, reloads and restarts came before: nobody's operator status, ban
\* or time-out waits for the idle tasks to be safe.  Only a file whose last
\* write failed, one that did not parse at the last start, or one that was
\* edited differs.
SavedAtOnce ==
    Idle => \A f \in File :
        \/ disk[f] \in {Torn, Content(f)}
        \/ f \in failed
        \/ f = "bans" /\ edited

\* However often the server crashes or the disk is full, each such event
\* spoils one file at most: the lists are saved one after the other.
OneFileEach ==
    Cardinality({f \in File : disk[f] = Torn}
                    \ (IF writing THEN {Head(saving).file} ELSE {}))
        <= faults

\* What is in memory and in the files, whatever fails.
FilesOK == TypeOK /\ SavedAtOnce /\ OneFileEach

\* A start brings back every list whose file is whole, and an account that
\* was banned or timed out on disk is so again.
Restored ==
    [][~up /\ up' =>
        \A f \in File : disk[f] # Torn => Content(f)' = disk[f]]_vars

\* A reload never empties a list because its file does not parse, and takes
\* no ban away.
ReloadKeeps ==
    [][reloading /\ up' /\ ~reloading' =>
        /\ disk["ops"] = Torn => ops' = ops
        /\ disk["scops"] = Torn => scops' = scops
        /\ bans \subseteq bans'
        /\ \A a \in Account : timeouts[a] # NoTimeout => timeouts'[a] # NoTimeout]_vars

\* The files that do not have what memory has, nor are still to be written by
\* the handler under way; with no memory, those that a start cannot read.
Wrong ==
    {f \in File :
        IF up THEN disk[f] # Content(f) /\ \A i \in 1..Len(saving) : saving[i].file # f
        ELSE disk[f] = Torn}

\* Without another fault no file gets wrong, through commands, reloads and
\* restarts; and the idle tasks set out to write every file that is.  What they
\* repair thus stays repaired.
RepairLasts ==
    [][/\ faults' = faults => Wrong' \subseteq Wrong
       /\ IdleTasks => Wrong' = {}]_vars

\* What is read is what the files have, and loses nothing that memory has; what
\* is written makes the files whole.
FilesLoad == Restored /\ ReloadKeeps /\ RepairLasts

\* After the last fault the files are whole, and hold what memory has, again
\* and again: the idle tasks repair a file that a crash, a full disk or an
\* edit left behind.
Repaired ==
    []<>(\A f \in File : disk[f] = Content(f))
=============================================================================
