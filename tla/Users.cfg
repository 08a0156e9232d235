CONSTANTS
    c1 = c1
    c2 = c2
    x = x
    y = y
    z = z
    X = X
    Con = {c1, c2}
    Lower = {x, y, z}
    Upper = {X}
    LowerOf <- MCLowerOf
    MAX_IGNORES = 2
    alice = alice
    bob = bob
    account = account
    User = {alice, bob}
    Account = {account}
    AccountOf <- MCAccountOf
    MSG_FLOOD = 1
    LRP_FLOOD = 2
    LastTime = 2
    Reader = {reader}
    Room = {r1}
    CACHE = 2
    FLOOD = 1
    ListTime = 4
SPECIFICATION MCSpec
INVARIANTS
    IgnoresOK MessagesOK ListsOK
SYMMETRY Symmetry
