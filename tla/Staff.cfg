CONSTANTS
    Person = {chief, user}
    Staff = {chief}
    Moderator = {chief}
    SFC_FLOOD = 1
    MaxTime = 1
    MaxCalls = 3
    boss = boss
    c1 = c1
    c2 = c2
    a1 = a1
    a2 = a2
    Char <- MCChar
    Account = {a1, a2}
    AccountOf <- MCAccountOf
    AdminAccount = {a2}
    StaffBits = {c2}
    SuperBit = {c2}
    Length = {1}
    LastTime = 2
    NoChar = NoChar
SPECIFICATION MCSpec
INVARIANTS
    CallsOK StaffOK
