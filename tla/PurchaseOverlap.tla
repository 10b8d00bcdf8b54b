-------------------------- MODULE PurchaseOverlap --------------------------
(***************************************************************************)
(* What overlapping purchases do to each other.  TicketService.Purchase    *)
(* reads the event before its first write and writes the whole of it back  *)
(* after its last ticket; the UPDATE has no condition, so a sale recorded  *)
(* in between is overwritten (internal/ticket/service.go:89-138,           *)
(* internal/ticket/storage/event_repository.go:87-97).                     *)
(*                                                                         *)
(* PurchaseService with a history variable that notes the events this has  *)
(* happened to.  No step reads it: what PurchaseService may do is the same.*)
(***************************************************************************)
EXTENDS PurchaseService

VARIABLE overwritten  \* events whose count was written from a stale copy

overlapVars == <<vars, overwritten>>

\* the row no longer shows the count the request has read
Stale(r) == sold[event[r]] # reserved[r] - quantity[r]

\* the stale copy goes over the row, though the answer may be lost
Overwrites(r) ==
    /\ Stale(r)
    /\ \/ UpdateEvent(r)
       \/ UpdateEventFails(r) /\ sold' # sold

OverlapTypeOK == TypeOK /\ overwritten \subseteq Events

OverlapInit == Init /\ overwritten = {}

OverlapNext ==
    /\ Next
    /\ overwritten' = overwritten \cup {event[r] : r \in {p \in Requests : Overwrites(p)}}

OverlapSpec == OverlapInit /\ [][OverlapNext]_overlapVars

FairOverlapSpec == OverlapSpec /\ Fairness

-----------------------------------------------------------------------------
(* Properties                                                              *)

\* The lost update is the only way to oversell: as long as no purchase has written
\* a stale count over an event, the tickets delivered for it stay within its
\* capacity, with any number of purchases under way and whatever fails between
\* their calls (service.go:89-155).
OversoldOnlyByOverwriting ==
    \A e \in Events \ overwritten : Cardinality(CompletedTicketsOf(e)) <= capacity[e]

\* Overlapping purchases sell like the box office: the count moves by whole sales
\* that fit, and only what it covers is delivered, except for events with a stale
\* write (service.go:89-155, event.go:159-181).
Box == INSTANCE BoxOffice WITH
    delivered <- [e \in Events |-> Cardinality(CompletedTicketsOf(e))]
ImplementsBoxOffice == Box!BoxSpec
=============================================================================
