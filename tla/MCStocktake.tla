---------------------------- MODULE MCStocktake ----------------------------
(* Stocktake on two stock rows, with a count and its recount.               *)
EXTENDS Stocktake, TLC

Symmetry == Permutations(Stocks) \cup Permutations(Counts)
=============================================================================
