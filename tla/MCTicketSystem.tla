--------------------------- MODULE MCTicketSystem ---------------------------
(* TicketSystem on small instances: what TLC needs besides it.             *)
EXTENDS TicketSystem, TLC

\* Codes, scans and cancel requests differ in nothing but their names.
Symmetry ==
    Permutations(Codes) \cup Permutations(Scanners) \cup Permutations(Cancellers)
=============================================================================
