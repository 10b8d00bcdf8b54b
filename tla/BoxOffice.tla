----------------------------- MODULE BoxOffice -----------------------------
(***************************************************************************)
(* The box office of an event: it opens once with a fixed capacity, sells  *)
(* whole orders from what is left, and delivers what it has sold.  It has  *)
(* one weakness, as the code has: a clerk may write an old count over the  *)
(* book, and of an event whose book was overwritten the office promises no *)
(* more than a count within the capacity.  PurchaseOverlap implements it,  *)
(* and says when a clerk does that.                                        *)
(***************************************************************************)
EXTENDS Naturals

CONSTANT Events

VARIABLES capacity,    \* events.capacity, 0 while the event does not exist
          sold,        \* events.sold_count
          delivered,   \* [Events -> Nat]: tickets told to their buyers
          overwritten  \* events with a count that forgot a sale

boxVars == <<capacity, sold, delivered, overwritten>>

BoxInit ==
    /\ capacity = [e \in Events |-> 0]
    /\ sold = [e \in Events |-> 0]
    /\ delivered = [e \in Events |-> 0]
    /\ overwritten = {}

\* POST /events
OpenSale(e) ==
    /\ capacity[e] = 0
    /\ capacity'[e] \in Nat \ {0}
    /\ capacity' = [capacity EXCEPT ![e] = capacity'[e]]
    /\ UNCHANGED <<sold, delivered, overwritten>>

\* one order that fits is written into the book
Sell(e) ==
    /\ \E q \in 1 .. (capacity[e] - sold[e]) : sold' = [sold EXCEPT ![e] = @ + q]
    /\ UNCHANGED <<capacity, delivered, overwritten>>

\* the book is set to a count that does not follow from the one it shows
Overwrite(e) ==
    /\ \E n \in 0 .. capacity[e] : sold' = [sold EXCEPT ![e] = n]
    /\ overwritten' = overwritten \cup {e}
    /\ UNCHANGED <<capacity, delivered>>

\* the tickets of one order, out of what was sold
Deliver(e) ==
    /\ \E q \in 1 .. capacity[e] :
          /\ delivered' = [delivered EXCEPT ![e] = @ + q]
          /\ e \notin overwritten => delivered[e] + q <= sold[e]
    /\ UNCHANGED <<capacity, sold, overwritten>>

BoxNext == \E e \in Events : OpenSale(e) \/ Sell(e) \/ Overwrite(e) \/ Deliver(e)

BoxSpec == BoxInit /\ [][BoxNext]_boxVars
=============================================================================
