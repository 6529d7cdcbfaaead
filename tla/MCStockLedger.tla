--------------------------- MODULE MCStockLedger ---------------------------
(* StockLedger on a small workshop.                                         *)
EXTENDS StockLedger, TLC

Symmetry == Permutations(Stocks)
=============================================================================
