SPECIFICATION Spec
CONSTANTS
    p1 = p1
    p2 = p2
    u1 = u1
    u2 = u2
    x1 = x1
    x2 = x2
    Nobody = nobody
    NoName = noname
    nobody = nobody
    noname = noname
    Servers = {p1, p2}
    Users = {u1, u2}
    Names = {x1, x2}
    OneLogin = TRUE
    MaxSlots = 2
    MaxTries = 0
    MaxFiles = 1
CONSTRAINT Casts
INVARIANTS
    WithinSlots
    Kept
    NoneLeft
CHECK_DEADLOCK FALSE
PROPERTY SilentEnds
