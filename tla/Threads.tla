------------------------------ MODULE Threads --------------------------------
(***************************************************************************)
(* The threads that keep the chat log (ChatLog) and the list of users in   *)
(* Redis (RedisQueue).  Neither has to do with the other.                  *)
(***************************************************************************)
EXTENDS ChatLog

CONSTANTS Name, NoRequest, MaxChanges, MaxQueue, MaxFaults

VARIABLES
    connectionMap, online, listing, redisRequests, redisRun, redisThread,
    request, context, stored, changes, faults, spoilt, stale

R == INSTANCE RedisQueue
        WITH requestQueue <- redisRequests, doRun <- redisRun,
             thread <- redisThread

\* Redis has or is going to have who is online (RedisQueue).
RedisOK == R!RedisOK
=============================================================================
