\* Two readers of the log of three entries; two users online.
CONSTANTS
    Reader = {r1, r2}
    MaxEntries = 3
    MaxPending = 2
    MaxStarts = 2
    Name = {n1, n2}
    NoRequest = NoRequest
    MaxChanges = 3
    MaxQueue = 2
    MaxFaults = 1
SPECIFICATION MCSpec
INVARIANTS
    LogOK RedisOK
PROPERTIES
    LogServes RedisServes
\* Logging and the threads are stopped in the end.
CHECK_DEADLOCK FALSE
