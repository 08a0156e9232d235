----------------------------- MODULE MCThreads -----------------------------
(***************************************************************************)
(* Threads for TLC.  Neither thread has to do with the other, so each is   *)
(* checked while the other rests: "part" is the one that moves.            *)
(***************************************************************************)
EXTENDS Threads

VARIABLE part

ASSUME RequestAssumption == R!RequestAssumption

redis ==
    <<connectionMap, online, listing, redisRequests, redisRun, redisThread,
      request, context, stored, changes, faults, spoilt, stale>>

MCInit ==
    /\ part \in {"log", "redis"}
    /\ Init /\ R!Init
    /\ part # "redis" => stored = {}

MCNext ==
    \/ part = "log" /\ Next /\ UNCHANGED <<part, redis>>
    \/ part = "redis" /\ R!Next /\ UNCHANGED <<part, vars>>

\* The fairness of a part is asked of it when it is the one that moves.
MCSpec ==
    /\ MCInit /\ [][MCNext]_<<part, vars, redis>>
    /\ []<>(part # "log") \/ Fairness
    /\ []<>(part # "redis") \/ R!Fairness

-----------------------------------------------------------------------------
(* A property of RedisQueue *)

\* Redis catches up after what was lost, and the thread ends (RedisQueue).
RedisServes == part = "redis" => R!RedisServes
=============================================================================
