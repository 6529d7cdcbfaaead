SPECIFICATION Spec
CONSTANTS
    p1 = p1
    p2 = p2
    c1 = c1
    c2 = c2
    a1 = a1
    a2 = a2
    NoToken = NoToken
    Free = Free
    First = a1
    Procs = {p1, p2}
    Callbacks = {c1, c2}
    Apps = {a1, a2}
    MaxExpiries = 1
    MaxChanges = 2
    MaxTroubles = 1
SYMMETRY Symmetry
INVARIANTS
    NeverSpentTwice
    StoredTokenWorks
    StateSpentOnce
PROPERTIES
    NoFalseNotConnected
CHECK_DEADLOCK FALSE
