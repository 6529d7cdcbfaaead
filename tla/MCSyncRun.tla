----------------------------- MODULE MCSyncRun -----------------------------
(* SyncRun with three runs, the last one the command's, and two workers; the *)
(* second configuration has only redelivery go wrong.                        *)
EXTENDS SyncRun, TLC
Symmetry == Permutations(Workers)
=============================================================================
