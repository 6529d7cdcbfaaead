----------------------------- MODULE MCDayLocks -----------------------------
EXTENDS DayLocks, TLC
Symmetry == Permutations(Requests)
=============================================================================
