CONSTANTS
    Procs = {p1, p2}
    v1 = v1
    v2 = v2
    Vals = {v1, v2}
    Deleted = {v2}
    First <- NoRecord
    Parts = 3
    Retries = 2
    Failures = {"full", "kill"}
    MaxSlots = 1
SPECIFICATION Spec
PROPERTIES Atomic LockWaitEnds
