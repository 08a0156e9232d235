SPECIFICATION Spec
CONSTANTS
    Con = {k1, k2}
    State = {s1, s2, s3, s4}
    NoState = NoState
    luaTimeout = 3
    luaRepeatTimeout = 1
    MaxRun = 5
INVARIANT HandlersTimeOut
