SPECIFICATION Spec
CONSTANTS
    c1 = c1
    c2 = c2
    c3 = c3
    m1 = m1
    f1 = f1
    u1 = u1
    u2 = u2
    Callers = {c1, c2, c3}
    Modems = {m1}
    Uploaders = {f1}
    Users = {u1}
    LineNode <- Lines
    Multinode <- Board
    Telnet1st = 1
    TelnetMax = 2
    Nobody = Nobody
    Nil = Nil
    Allow2 = FALSE
    Crash = TRUE
    Room = 1
    MaxFiles = 2
SYMMETRY Alike
CONSTRAINT Casts
INVARIANTS Presence OneSessionUnlessPrompts CreditExact
