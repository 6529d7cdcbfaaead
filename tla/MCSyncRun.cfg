SPECIFICATION FairSpec
CONSTANTS
    r1 = r1
    r2 = r2
    r3 = r3
    w1 = w1
    w2 = w2
    NoRun = NoRun
    Runs = {r1, r2, r3}
    Inline = {r3}
    Workers = {w1, w2}
    MaxEvents = 2
    MaxLapses = 2
    MaxRedeliveries = 1
    MaxCrashes = 1
    MaxDeaths = 1
INVARIANTS
    OneRunAtATime
    LockHasAHolder
    StaleRunStops
PROPERTIES
    LockIsGivenBack
\* Every run has been dispatched once: nothing is left to do.
CHECK_DEADLOCK FALSE
