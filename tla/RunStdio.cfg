\* runstdio returns in the end, so the system stops.
CONSTANTS
    Modes = {1, 2, 3}
    TermAfter = 0
    KillAfter = 1
    Room = 1
    MaxTyped = 2
    MaxOut = 1
SPECIFICATION RunSpec
INVARIANTS NoChildLeft GraceKept
PROPERTIES CarrierLossEnds StopEnds
CHECK_DEADLOCK FALSE
