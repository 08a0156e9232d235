\* Two connection objects and two characters; an address and a load
\* balancer's; a user per address; handlers may be aborted.
CONSTANTS
    Conn = {c1, c2}
    NoConn = NoConn
    Name = {alice, bob}
    NoName = NoName
    Ip = {lb, home}
    LoadBalancers = {lb}
    IpMax = 1
    MaxUsers = 2
    MaxLoginSlots = 1
    MaxRepeat = 1
    Faults = {"lua_timeout", "staffroom_rst"}
SPECIFICATION FairSpec
INVARIANTS
    MemoryOK MapAgrees CountsOK RedisKnows
PROPERTIES
    NameIsKept ImplementsRegistry Cleanup
