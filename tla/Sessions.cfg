CONSTANTS
    Con = {k1, k2}
    State = {s1, s2, s3, s4}
    NoState = NoState
    luaTimeout = 3
    luaRepeatTimeout = 1
    MaxRun = 5
    PERIOD = 12
    IDENT = 3
    PING = 3
    LoginTime = 3
    AnswerTime = 1
    MaxLag = 1
    Garbage = {0}
    MaxTime = 28
    alice = alice
    bob = bob
    kink1 = kink1
    kink2 = kink2
    tag = tag
    Char = {alice, bob}
    Admin = {alice}
    Kink = {kink1, kink2}
    Tag = {tag}
    KinksOf <- MCKinksOf
    TagOf <- MCTagOf
    Settable = {"online", "looking"}
    MaxTerms = 1
    MaxResults = 1
SPECIFICATION MCSpec
INVARIANTS
    HandlersOK TimersOK PresenceOK
PROPERTIES
    NobodyIsCutShort DepartedDisappear
\* A connection is closed for good.
CHECK_DEADLOCK FALSE
