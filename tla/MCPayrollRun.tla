---------------------------- MODULE MCPayrollRun ----------------------------
(* PayrollRun with few runs, workers and staff.                             *)
EXTENDS PayrollRun, TLC
Symmetry == Permutations(Runs) \cup Permutations(Workers)
=============================================================================
