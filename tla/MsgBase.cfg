\* Two nodes, a posting tool and the maintenance tools, two of these at a time.
CONSTANTS
    n1 = n1
    n2 = n2
    t1 = t1
    m1 = m1
    sysop = sysop
    guest = guest
    All = All
    NumBases = 2
    Nodes = {n1, n2}
    Tools = {t1}
    Maintainers = {m1}
    Users = {sysop, guest}
    Name <- NodeName
    Sysops = {sysop}
    Drafts <- DraftsOne
    MsgLimit = 1
    WindowSize = 2
    MaxNum = 3
SPECIFICATION CastSpec
INVARIANTS NumbersAscend HighCoversHeaders TextMatchesHeader NoLostMessage
CHECK_DEADLOCK FALSE
CONSTRAINT Casts
