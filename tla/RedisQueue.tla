----------------------------- MODULE RedisQueue -----------------------------
(***************************************************************************)
(* What other programs see of who is online: the set users.online that the *)
(* Redis thread keeps (redis.cpp).  The server's thread queues a request   *)
(* for each login and disconnect, and the whole list with the idle tasks;  *)
(* every five seconds the Redis thread carries out what is queued.  A      *)
(* request is lost when the mutex is not had in time, and when the         *)
(* connection to Redis fails under it, then perhaps half carried out.      *)
(*                                                                         *)
(* Requests for other keys (ignore lists, the admin log, the check-in that *)
(* each round begins with) go the same way and are left out.               *)
(***************************************************************************)
EXTENDS Integers, Sequences, SequencesExt

CONSTANTS
    Name,        \* names of characters
    NoRequest,   \* the Redis thread has none in hand
    MaxChanges,  \* bound on logins
    MaxQueue,    \* bound on the queue, which the code does not limit
    MaxFaults    \* bound on lost requests and failed connections

VARIABLES
    connectionMap,  \* names with a connection, closed ones included
    online,         \* those whose connection is not closed
    listing,        \* is the server between the two requests of the list
    requestQueue,   \* requests the Redis thread has not taken
    doRun,          \* cleared by stopThread
    thread,         \* "resting" for the timer, "round", or "exited"
    request,        \* the request in hand: what is left of it
    context,        \* is there a connection to Redis
    stored,         \* Redis: users.online
    changes, faults,  \* logins, and faults, so far
    spoilt,         \* history: was anything lost since the last list
    stale           \* history: closed connections the last list had

vars == <<connectionMap, online, listing, requestQueue, doRun, thread, request,
          context, stored, changes, faults, spoilt, stale>>
redis == <<thread, request, context, stored>>

Request == [method : {"DEL", "SADD", "SREM"}, values : SUBSET Name]

-----------------------------------------------------------------------------
(* The server's thread *)

\* addRequest: a request r is queued or lost.
AddRequest(r) ==
    \/ /\ requestQueue' = Append(requestQueue, r)
       /\ UNCHANGED <<faults, spoilt>>
    \/ /\ faults < MaxFaults
       /\ faults' = faults + 1 /\ spoilt' = TRUE
       /\ UNCHANGED requestQueue

Running == doRun /\ ~listing /\ Len(requestQueue) < MaxQueue

\* setIdent.
SetIdent(n) ==
    /\ Running /\ n \notin connectionMap /\ changes < MaxChanges
    /\ connectionMap' = connectionMap \cup {n}
    /\ online' = online \cup {n}
    /\ stale' = stale \ {n}
    /\ changes' = changes + 1
    /\ AddRequest([method |-> "SADD", values |-> {n}])
    /\ UNCHANGED <<listing, doRun, redis>>

\* prepareShutdownConnection: the connection stays in the map for a while.
PrepareShutdown(n) ==
    /\ Running /\ n \in online
    /\ online' = online \ {n}
    /\ AddRequest([method |-> "SREM", values |-> {n}])
    /\ UNCHANGED <<connectionMap, listing, doRun, redis, changes, stale>>

RemoveConnection(n) ==
    /\ Running /\ n \in connectionMap \ online
    /\ connectionMap' = connectionMap \ {n}
    /\ UNCHANGED <<online, listing, requestQueue, doRun, redis, changes, faults,
                   spoilt, stale>>

\* sendUserListToRedis: without the first request there is no second.
SendUserList ==
    /\ Running
    /\ \/ /\ requestQueue' = Append(requestQueue, [method |-> "DEL", values |-> {}])
          /\ listing' = TRUE
          /\ spoilt' = FALSE
          /\ UNCHANGED faults
       \/ /\ faults < MaxFaults
          /\ faults' = faults + 1
          /\ UNCHANGED <<requestQueue, listing, spoilt>>
    /\ UNCHANGED <<connectionMap, online, doRun, redis, changes, stale>>

\* Mutated form of SendUserListRest: the second request is for the last name
\* only.
SendUserListRestOne ==
    /\ listing /\ listing' = FALSE
    /\ \E n \in Name :
         requestQueue' = Append(requestQueue,
                                [method |-> "SADD", values |-> connectionMap \cap {n}])
    /\ stale' = connectionMap \ online
    /\ UNCHANGED <<connectionMap, online, doRun, redis, changes, faults, spoilt>>

SendUserListRest ==
    /\ listing /\ listing' = FALSE
    /\ \/ /\ requestQueue' = Append(requestQueue,
                                    [method |-> "SADD", values |-> connectionMap])
          /\ UNCHANGED <<faults, spoilt>>
       \/ /\ faults < MaxFaults
          /\ faults' = faults + 1 /\ spoilt' = TRUE
          /\ UNCHANGED requestQueue
    /\ stale' = connectionMap \ online
    /\ UNCHANGED <<connectionMap, online, doRun, redis, changes>>

StopThread ==
    /\ doRun /\ ~listing
    /\ doRun' = FALSE
    /\ UNCHANGED <<connectionMap, online, listing, requestQueue, redis, changes,
                   faults, spoilt, stale>>

-----------------------------------------------------------------------------
(* The Redis thread *)

server == <<connectionMap, online, listing, doRun, changes, stale>>

\* timeoutCallback begins a round, or ends the thread.
Timeout ==
    /\ thread = "resting"
    /\ thread' = IF doRun THEN "round" ELSE "exited"
    /\ UNCHANGED <<server, requestQueue, request, context, stored, faults, spoilt>>

\* Mutated form of GetRequest: the newest request is taken.
GetRequestLast ==
    /\ thread = "round" /\ request = NoRequest
    /\ IF requestQueue = <<>> THEN UNCHANGED <<requestQueue, request>> /\ thread' = "resting"
       ELSE /\ requestQueue' = Front(requestQueue)
            /\ request' = Last(requestQueue)
            /\ UNCHANGED thread
    /\ UNCHANGED <<server, context, stored, faults, spoilt>>

\* The round ends with the queue; when the server stops, with the request
\* that was just taken, too.
GetRequest ==
    /\ thread = "round" /\ request = NoRequest
    /\ requestQueue' = IF requestQueue = <<>> THEN <<>> ELSE Tail(requestQueue)
    /\ IF requestQueue = <<>> \/ ~doRun
       THEN thread' = "resting" /\ UNCHANGED request
       ELSE request' = Head(requestQueue) /\ UNCHANGED thread
    /\ UNCHANGED <<server, context, stored, faults, spoilt>>

\* connectToRedis, tried every REDIS_FAILURE_WAIT until it works.
ConnectToRedis ==
    /\ request # NoRequest /\ ~context /\ doRun
    /\ context' = TRUE
    /\ UNCHANGED <<server, requestQueue, thread, request, stored, faults, spoilt>>

\* Once the server stops, the request is dropped.
GiveUp ==
    /\ request # NoRequest /\ ~doRun
    /\ request' = NoRequest
    /\ UNCHANGED <<server, requestQueue, thread, context, stored, faults, spoilt>>

\* What carrying out r in full makes of the set.
Applied(set, r) ==
    CASE r.method = "DEL" -> {}
      [] r.method = "SADD" -> set \cup r.values
      [] r.method = "SREM" -> set \ r.values

\* processRequest sends a command for each value and reads the replies.
ProcessRequest ==
    /\ request # NoRequest /\ context
    /\ stored' = Applied(stored, request)
    /\ request' = NoRequest
    /\ UNCHANGED <<server, requestQueue, thread, context, faults, spoilt>>

\* The connection fails: Redis has carried out some of the commands, and the
\* request is dropped.
ProcessRequestFails ==
    /\ request # NoRequest /\ context /\ faults < MaxFaults
    /\ \E done \in SUBSET request.values :
         stored' \in {Applied(stored, [request EXCEPT !.values = done]), stored}
    /\ request' = NoRequest /\ context' = FALSE
    /\ faults' = faults + 1 /\ spoilt' = TRUE
    /\ UNCHANGED <<server, requestQueue, thread>>

-----------------------------------------------------------------------------
(* The specification *)

\* The server starts with an empty list; Redis has what an earlier run left.
Init ==
    /\ connectionMap = {} /\ online = {} /\ listing = FALSE
    /\ requestQueue = <<>> /\ doRun = TRUE
    /\ thread = "resting" /\ request = NoRequest /\ context = FALSE
    /\ stored \in SUBSET Name
    /\ changes = 0 /\ faults = 0
    /\ spoilt = TRUE /\ stale = {}

ServerStep ==
    \/ \E n \in Name : SetIdent(n) \/ PrepareShutdown(n) \/ RemoveConnection(n)
    \/ SendUserList \/ SendUserListRest \/ StopThread

RedisStep ==
    \/ Timeout \/ GetRequest \/ ConnectToRedis \/ GiveUp
    \/ ProcessRequest \/ ProcessRequestFails

Next == ServerStep \/ RedisStep

Spec == Init /\ [][Next]_vars

\* The Redis thread runs and Redis answers in the end; closed connections
\* are cleaned up and the idle tasks come again.
Fairness ==
    /\ WF_vars(Timeout) /\ WF_vars(GetRequest) /\ WF_vars(ConnectToRedis)
    /\ WF_vars(GiveUp) /\ WF_vars(ProcessRequest)
    /\ WF_vars(SendUserListRest) /\ SF_vars(SendUserList)
    /\ SF_vars(\E n \in Name : RemoveConnection(n))

-----------------------------------------------------------------------------
(* Properties *)

RequestAssumption == NoRequest \notin Request

TypeOK ==
    /\ online \subseteq connectionMap /\ connectionMap \subseteq Name
    /\ requestQueue \in Seq(Request)
    /\ request \in Request \cup {NoRequest}
    /\ thread \in {"resting", "round", "exited"}
    /\ request # NoRequest => thread = "round"
    /\ {listing, doRun, context, spoilt} \subseteq BOOLEAN
    /\ stored \subseteq Name /\ stale \subseteq Name

\* What is set once the request in hand is carried out.
Soon == IF request = NoRequest THEN stored ELSE Applied(stored, request)

\* Whether n is set once a queue is carried out, too: unless the queue takes
\* it away, or when nothing takes it away after the queue has added it.
Adds(r, n) == r.method = "SADD" /\ n \in r.values
Removes(r, n) == r.method = "DEL" \/ (r.method = "SREM" /\ n \in r.values)
RemovedAfter(queue, n, i) == \E j \in 1..Len(queue) : j > i /\ Removes(queue[j], n)
WillHave(set, queue, n) ==
    \/ n \in set /\ ~RemovedAfter(queue, n, 0)
    \/ \E i \in 1..Len(queue) : Adds(queue[i], n) /\ ~RemovedAfter(queue, n, i)

\* Since the last whole list, and as long as nothing was lost, Redis has or
\* is going to have exactly who is online, and those whose connections were
\* closed but not cleaned up when the list was made.  It is a matter of the
\* order of requests, which no other program sees.
InRedisOrQueued ==
    ~spoilt /\ doRun /\ ~listing =>
        \A n \in Name : WillHave(Soon, requestQueue, n) <=> n \in online \cup stale

\* What the queue and Redis add up to.
RedisOK == TypeOK /\ InRedisOrQueued

\* However many requests were lost, Redis has the users who are online again
\* and again, once logins and faults are over: the list repairs it.
RedisCatchesUp == []<>(stored = online \/ ~doRun)

\* A stop ends the thread, with Redis out of reach and requests queued, too.
ThreadEnds == ~doRun ~> thread = "exited"

\* The thread serves the list, and whoever stops it.
RedisServes == RedisCatchesUp /\ ThreadEnds
=============================================================================
