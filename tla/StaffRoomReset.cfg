\* Two connections of one character; the staff room may be made public.
CONSTANTS
    c1 = c1
    c2 = c2
    Conn = {c1, c2}
    NoConn = NoConn
    alice = alice
    Name = {alice}
    NoName = NoName
    home = home
    Ip = {home}
    LoadBalancers = {}
    IpMax = 2
    MaxUsers = 2
    MaxLoginSlots = 1
    MaxRepeat = 1
    Faults = {"staffroom_rst"}
SPECIFICATION Spec
PROPERTIES
    ToldIsDisconnected
