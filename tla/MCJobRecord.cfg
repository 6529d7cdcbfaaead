CONSTANTS
    Tabs = {u1}
    Writers = {w1}
    Texts = {a, b}
    Statuses = {"approved", "recently_completed"}
    MaxVersion = 4
SPECIFICATION Spec
SYMMETRY Symmetry
CHECK_DEADLOCK FALSE
INVARIANTS
    HistoryExplainsTheJob
    CompletedWhileFinished
    OwnFieldsOnly
    AppliedAsSeen
    UndoPutsBack
