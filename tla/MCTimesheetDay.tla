--------------------------- MODULE MCTimesheetDay ---------------------------
EXTENDS TimesheetDay, TLC
Symmetry == Permutations(Entries)
=============================================================================
