SPECIFICATION Spec
CONSTANTS
    Opts = {"BINARY", "TTYPE", "NAWS", "ECHO", "SGA"}
    Terms <- MCTerms
    Clients <- MCClients
    Volunteers = {"BINARY", "ECHO", "SGA"}
    MaxAsks = 2
    MaxData = 1
INVARIANTS
    Agree
    Clean
PROPERTIES
    Settles
CHECK_DEADLOCK FALSE
