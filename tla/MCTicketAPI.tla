---------------------------- MODULE MCTicketAPI ----------------------------
(* TicketAPI on small instances: what TLC needs besides it.                *)
EXTENDS TicketAPI, TLC

\* Requests differ in nothing but their names.
RequestSymmetry == Permutations(Requests)
=============================================================================
