---------------------------- MODULE MCJobRecord ----------------------------
EXTENDS JobRecord, TLC
Symmetry == Permutations(Tabs) \cup Permutations(Writers) \cup Permutations(Texts)
=============================================================================
