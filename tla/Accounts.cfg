SPECIFICATION Spec
CONSTANTS
    n1 = n1
    n2 = n2
    ann = ann
    bob = bob
    b1 = b1
    b2 = b2
    nobody = nobody
    nobase = nobase
    Nodes = {n1, n2}
    Sysops = {"sysop"}
    Persons = {ann, bob}
    Nobody = nobody
    First = ann
    Confs <- MCConfs
    Bases = {b1, b2}
    NoBase = nobase
    Mailed <- MCMailed
    MaxSlots = 2
    MaxWork = 6
SYMMETRY Alike
INVARIANTS
    Decided
    NothingOverlooked
    PointersKept
CHECK_DEADLOCK FALSE
