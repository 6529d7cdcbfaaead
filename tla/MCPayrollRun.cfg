SPECIFICATION Spec
CONSTANTS
    r1 = r1
    r2 = r2
    w1 = w1
    w2 = w2
    p1 = p1
    p2 = p2
    NoRun = NoRun
    NoSheet = NoSheet
    Runs = {r1, r2}
    Workers = {w1, w2}
    Staff = {p1, p2}
    Salaried = {p2}
    MaxEdits = 1
    MaxTroubles = 2
SYMMETRY Symmetry
INVARIANTS
    OneRunPosts
    OneSheetEach
    ReportedIsPaid
    RunningHasARunner
PROPERTIES
    LiveRunKeepsItsDocument
CHECK_DEADLOCK FALSE
