-------------------------- MODULE MCPurchaseOrder --------------------------
(* PurchaseOrder with two lines and two people.                             *)
EXTENDS PurchaseOrder, TLC
Symmetry == Permutations(Lines) \cup Permutations(Clients)
\* Ten thousandths in two pieces, four that are sent as five, and ten that are sent as
\* twenty, which do not reconcile.
MCParcels ==
    {[total |-> 10, split |-> <<5, 5>>], [total |-> 5, split |-> <<4>>], [total |-> 20, split |-> <<10>>]}
=============================================================================
