CONSTANTS
    Requests = {r1, r2, r3}
    People = {1, 2}
    Office = {2, 9}
    Jobs = {1, 2, 3}
    General = 2
    BreakJob = 3
    LeaveJobs = {1}
SPECIFICATION LocksSpec
SYMMETRY Symmetry
INVARIANT NoCircle
