CONSTANTS
    Character = {n1}
    Account = {a1}
    MaxTime = 2
    MaxLength = 1
    MaxFileFaults = 2
    Torn = Torn
    alice = alice
    bob = bob
    room = room
    hall = hall
    desk = desk
    User = {alice, bob}
    NoUser = NoUser
    Chan = {room, hall, desk}
    PublicChan = {hall}
    SpecialChan = {desk}
    Text = {t1}
    MaxBans = 1
    MaxBan = 1
    Day = 1
    TopUsers = 1
SPECIFICATION MCSpec
INVARIANTS
    StoredOK
PROPERTIES
    LoadsOK TidiedUp
