----------------------------- MODULE MCPurchase -----------------------------
(* PurchaseOverlap on small instances: what TLC needs besides it.          *)
EXTENDS PurchaseOverlap, TLC

\* Requests differ in nothing but their names.
RequestSymmetry == Permutations(Requests)
=============================================================================
