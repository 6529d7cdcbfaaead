------------------------- MODULE MCAccountingMirror -------------------------
(* AccountingMirror with an order of ours, one of Xero's, and a slice that   *)
(* one order which cannot be sent fills.                                     *)
EXTENDS AccountingMirror, TLC
=============================================================================
