CONSTANTS
    Stacks = {v4}
    Conns = {c1}
    Devices = {p1}
    MaxActive = 1
    Ports = {7001, 7002}
    DefaultPort = 7001
    Urls = {u0, u1, u2}
    NoUrl = u0
    Relays = {u1}
    Clients = {1, 2}
    None = none
SPECIFICATION Spec
INVARIANTS NoStrayClient ServicesFollowSettings ConnectionsCounted
PROPERTIES CommandReturns RevokedSocketCloses
CHECK_DEADLOCK FALSE
