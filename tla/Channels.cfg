\* The room: one of the owner, moderators and members is banned at a time.
CONSTANTS
    alice = alice
    bob = bob
    carol = carol
    amy = amy
    root = root
    sam = sam
    room = room
    hall = hall
    lobby = lobby
    den = den
    User = {alice, bob, carol, amy, root, sam}
    NoUser = NoUser
    Chan = {room, hall, lobby, den, staffroom}
    PublicChan = {lobby, den}
    StaffRoom = staffroom
    Admin = {root}
    Global = {}
    SuperCop = {}
    SiteStaff = {sam}
    LowerCase = {amy}
    NoChannelLimit = {}
    MaxJoined = 2
    MaxBans = 1
    TopUsers = 2
SPECIFICATION MCSpec
SYMMETRY Symmetry
CONSTRAINT Bounds
INVARIANTS
    ChannelsOK
PROPERTIES
    AbandonedIsDestroyed BanTakesEffect EntryByRight OperatorsStaySafe
