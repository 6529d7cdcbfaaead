--------------------------- MODULE MCTokenRefresh ---------------------------
(* TokenRefresh with two rows and few processes.                            *)
EXTENDS TokenRefresh, TLC
Symmetry == Permutations(Procs) \cup Permutations(Callbacks)
=============================================================================
