SPECIFICATION FairSpec
CONSTANTS
    a = a
    x = x
    Orders = {a, x}
    Ours = {a}
    Limit = 1
    MaxChanges = 3
    MaxFaults = 2
    MaxManual = 1
    MaxCrashes = 1
INVARIANTS
    NothingOwedMeansAgreed
PROPERTIES
    AcknowledgesWhatStands
    OwedIsSent
\* The bounds run out, and nobody need change an order.
CHECK_DEADLOCK FALSE
