----------------------- MODULE PurchaseOverlapProofs -----------------------
(***************************************************************************)
(* Theorems about PurchaseOverlap for any events, requests, bounds, faults *)
(* and any number of requests in flight: an event is oversold only if a    *)
(* purchase has written a stale count over it, and apart from that the     *)
(* purchases sell like the box office.                                     *)
(*                                                                         *)
(* The argument: the tickets of a purchase are at most its quantity.  A    *)
(* write that is not stale adds that quantity to the stored count, so that *)
(* the count goes on covering the tickets of all purchases that came as    *)
(* far as to write it, those of completed ones among them.  A stale write  *)
(* may break this for its event, which is then in overwritten for good.    *)
(***************************************************************************)
EXTENDS PurchaseOverlap, PurchaseCountProofs

\* An order is for something, and is part of the count the request will write.
ReservedIncludesOrder ==
    \A r \in Requests :
        pc[r] \in Working => quantity[r] > 0 /\ quantity[r] <= reserved[r]

\* tickets of the purchases that have written their count, and were not cut off
\* between that and purchase.completed
Counted(e) == {t \in TicketsOf(e) : t[1] \in completed \/ pc[t[1]] = "publishCompleted"}

SoldCoversCounted == \A e \in Events \ overwritten : Cardinality(Counted(e)) <= sold[e]

OverlapInv == overwritten \subseteq Events /\ ReservedIncludesOrder /\ SoldCoversCounted

AllInv == CapacityInv /\ IssueInv /\ WholeInv /\ CountInv

-----------------------------------------------------------------------------
(* The history variable restrains nothing                                  *)

LEMMA OverlapIsPurchase == OverlapSpec => Spec
  <1>1. OverlapInit => Init
    BY DEF OverlapInit
  <1>2. [OverlapNext]_overlapVars => [Next]_vars
    BY DEF OverlapNext, overlapVars
  <1> QED BY <1>1, <1>2, PTL DEF OverlapSpec, Spec

LEMMA AllInvariance == OverlapSpec => []AllInv
  BY OverlapIsPurchase, CapacityInvariance, IssueInvariance, WholeInvariance,
     CountInvariance, PTL DEF AllInv

-----------------------------------------------------------------------------
(* The tickets that count                                                  *)

LEMMA InitOverlapInv == OverlapInit => OverlapInv
  <1> SUFFICES ASSUME OverlapInit PROVE OverlapInv
    OBVIOUS
  <1>1. \A e \in Events : Counted(e) = {}
    BY DEF OverlapInit, Init, ServiceInit, Counted, TicketsOf
  <1>2. ReservedIncludesOrder
    BY DEF OverlapInit, Init, ServiceInit, ReservedIncludesOrder, Working
  <1>3. SoldCoversCounted
    BY <1>1, FS_EmptySet DEF OverlapInit, Init, ServiceInit, SoldCoversCounted
  <1> QED BY <1>2, <1>3 DEF OverlapInit, OverlapInv

LEMMA CountedFinite ==
  ASSUME AllInv, NEW e
  PROVE  IsFiniteSet(Counted(e)) /\ Cardinality(Counted(e)) \in Nat
  <1>1. IsFiniteSet(TicketsOf(e))
    BY RowSetsFinite DEF AllInv, CountInv
  <1>2. Counted(e) \in SUBSET TicketsOf(e)
    BY DEF Counted
  <1> QED BY <1>1, <1>2, FS_Subset, FS_CardinalityType

\* Fewer tickets that count are fewer to cover.
LEMMA CountedShrinks ==
  ASSUME AllInv, NEW e, Counted(e)' \subseteq Counted(e)
  PROVE  Cardinality(Counted(e)') \in Nat /\ Cardinality(Counted(e)') <= Cardinality(Counted(e))
  <1>1. Counted(e)' \in SUBSET Counted(e)
    OBVIOUS
  <1>2. IsFiniteSet(Counted(e)')
    BY <1>1, CountedFinite, FS_Subset
  <1> QED BY <1>1, <1>2, CountedFinite, FS_Subset, FS_CardinalityType

\* A request has no more tickets than it asked for once it leaves the ticket loop.
LEMMA OwnAtMostQuantity ==
  ASSUME AllInv, NEW r \in Requests, issued[r] = quantity[r],
         pc[r] \notin {"publishCreated", "error500", "lost"}
  PROVE  /\ Cardinality(OwnTickets(r)) \in Nat
         /\ Cardinality(OwnTickets(r)) <= quantity[r]
  <1> DEFINE place == [t \in OwnTickets(r) |-> t[2]]
  <1>1. quantity[r] \in Nat
    BY DEF AllInv, CapacityInv, TypeOK
  <1>2. ASSUME NEW t \in OwnTickets(r)
        PROVE  t = <<r, t[2]>> /\ t[2] \in 1 .. quantity[r]
    <2>1. PICK i \in 1 .. MaxQuantity : t = <<r, i>>
      BY <1>2 DEF OwnTickets, AllInv, CapacityInv, TypeOK, TicketIds
    <2>2. <<r, i>> \in tickets
      BY <1>2, <2>1 DEF OwnTickets
    <2>3. i <= issued[r]
      BY <1>1, <2>2, PurchaseAssumption DEF AllInv, IssueInv
    <2> QED BY <1>1, <2>1, <2>3, PurchaseAssumption
  <1>3. place \in Injection(OwnTickets(r), 1 .. quantity[r])
    BY <1>2 DEF Injection, IsInjective
  <1>4. IsFiniteSet(1 .. quantity[r]) /\ Cardinality(1 .. quantity[r]) = quantity[r]
    BY <1>1, FS_Interval
  <1> HIDE DEF place
  <1>5. Cardinality(OwnTickets(r)) <= Cardinality(1 .. quantity[r])
    BY <1>3, <1>4, FS_Injection
  <1>6. Cardinality(OwnTickets(r)) \in Nat
    BY RowSetsFinite DEF AllInv, CountInv
  <1> QED BY <1>4, <1>5, <1>6

\* A request that has not reached its write has nothing counted.
LEMMA NothingCountedBefore ==
  ASSUME AllInv, NEW r \in Requests,
         pc[r] \notin {"publishCompleted", "respond", "created201", "lost"}
  PROVE  \A e : \A t \in Counted(e) : t[1] # r
  BY DEF AllInv, IssueInv, Counted

-----------------------------------------------------------------------------
(* The steps of a request                                                  *)

\* what every step of request r does
LEMMA StepShape ==
  ASSUME AllInv, NEW r \in Requests, PurchaseStep(r)
  PROVE  /\ UNCHANGED <<capacity, event, quantity, reserved>>
         /\ pc[r] \in Working
         /\ pc' \in [Requests -> PCs]
         /\ \A p \in Requests \ {r} : pc'[p] = pc[p]
         /\ completed' \subseteq completed \cup {r}
         /\ \A t \in tickets' : t \in tickets \/ t = NextTicket(r)
         /\ tickets \subseteq tickets'
  <1> USE DEF AllInv, CapacityInv, TypeOK, Goto, PCs, Working, Replies, database, broker
  <1>1. CASE AddPurchase(r) \/ AddPurchaseFails(r)
    BY <1>1 DEF AddPurchase, AddPurchaseFails
  <1>2. CASE AddTicket(r) \/ AddTicketFails(r)
    BY <1>2 DEF AddTicket, AddTicketFails
  <1>3. CASE PublishCreated(r)
    BY <1>3 DEF PublishCreated
  <1>4. CASE UpdateEvent(r) \/ UpdateEventFails(r)
    BY <1>4 DEF UpdateEvent, UpdateEventFails
  <1>5. CASE PublishCompleted(r) \/ PublishFails(r) \/ RespondCreated(r)
    BY <1>5 DEF PublishCompleted, PublishFails, RespondCreated
  <1> QED BY <1>1, <1>2, <1>3, <1>4, <1>5 DEF PurchaseStep

\* The steps but the write: they leave the count alone, and no more tickets count.
LEMMA OtherStepShape ==
  ASSUME AllInv, NEW r \in Requests, PurchaseStep(r), pc[r] # "updateEvent"
  PROVE  /\ sold' = sold
         /\ pc'[r] = "publishCompleted" => pc[r] = "publishCompleted"
         /\ pc[r] \in {"publishCompleted", "respond"} => tickets' = tickets
         /\ r \in completed' \ completed => pc[r] = "publishCompleted"
  <1> USE DEF AllInv, CapacityInv, TypeOK, Goto, PCs, Working, Replies, database, broker
  <1>1. CASE AddPurchase(r) \/ AddPurchaseFails(r)
    BY <1>1 DEF AddPurchase, AddPurchaseFails
  <1>2. CASE AddTicket(r) \/ AddTicketFails(r)
    BY <1>2 DEF AddTicket, AddTicketFails
  <1>3. CASE PublishCreated(r)
    BY <1>3 DEF PublishCreated
  <1>4. CASE PublishCompleted(r) \/ PublishFails(r) \/ RespondCreated(r)
    BY <1>4 DEF PublishCompleted, PublishFails, RespondCreated
  <1> QED BY <1>1, <1>2, <1>3, <1>4 DEF PurchaseStep, UpdateEvent, UpdateEventFails

LEMMA OtherStepsCountNoMore ==
  ASSUME AllInv, AllInv', NEW r \in Requests, PurchaseStep(r), pc[r] # "updateEvent",
         NEW e \in Events
  PROVE  Counted(e)' \subseteq Counted(e)
  <1> SUFFICES ASSUME NEW t \in Counted(e)' PROVE t \in Counted(e)
    OBVIOUS
  <1>1. t \in tickets' /\ t[1] \in Requests /\ event[t[1]] = e
    BY StepShape DEF Counted, TicketsOf, AllInv, CapacityInv, TypeOK, TicketIds
  <1>2. CASE t[1] # r
    <2>1. t # NextTicket(r)
      BY <1>2 DEF NextTicket
    <2> QED BY <1>1, <1>2, <2>1, StepShape DEF Counted, TicketsOf
  <1>3. CASE t[1] = r
    <2>1. r \in completed' \/ pc'[r] = "publishCompleted"
      BY <1>3 DEF Counted
    <2>2. r \in completed \/ pc[r] = "publishCompleted"
      BY <2>1, OtherStepShape
    <2>3. tickets' = tickets
      <3>1. pc[r] \in {"publishCompleted", "respond"}
        BY <2>2, StepShape DEF AllInv, IssueInv, Working
      <3> QED BY <3>1, OtherStepShape
    <2> QED BY <1>1, <1>3, <2>2, <2>3 DEF Counted, TicketsOf
  <1> QED BY <1>2, <1>3

\* The write: with or without effect, and noted if it goes over a newer count.
LEMMA WriteShape ==
  ASSUME AllInv, OverlapInv, NEW r \in Requests, PurchaseStep(r), pc[r] = "updateEvent"
  PROVE  /\ UNCHANGED <<tickets, completed>>
         /\ pc'[r] \in {"publishCompleted", "error500"}
         /\ quantity[r] \in Nat /\ quantity[r] > 0 /\ issued[r] = quantity[r]
         /\ \/ sold' = sold /\ pc'[r] = "error500"
            \/ sold' = [sold EXCEPT ![event[r]] = reserved[r]]
  <1>1. UpdateEvent(r) \/ UpdateEventFails(r)
    BY DEF PurchaseStep, AddPurchase, AddPurchaseFails, AddTicket, AddTicketFails,
           PublishCreated, PublishCompleted, PublishFails, RespondCreated, Goto
  <1>2. quantity[r] \in Nat /\ quantity[r] > 0 /\ issued[r] = quantity[r]
    BY PurchaseAssumption DEF OverlapInv, ReservedIncludesOrder, Working, AllInv,
       CapacityInv, TypeOK, CountInv, LoopDone
  <1> QED BY <1>1, <1>2 DEF UpdateEvent, UpdateEventFails, Goto, broker, AllInv,
                           CapacityInv, TypeOK

LEMMA WriteCounts ==
  ASSUME AllInv, OverlapInv, AllInv', NEW r \in Requests, PurchaseStep(r),
         pc[r] = "updateEvent", NEW e \in Events
  PROVE  /\ e # event[r] \/ pc'[r] = "error500" => Counted(e)' \subseteq Counted(e)
         /\ Counted(e)' \subseteq Counted(e) \cup OwnTickets(r)
  <1> SUFFICES ASSUME NEW t \in Counted(e)'
               PROVE  \/ t \in Counted(e)
                      \/ t \in OwnTickets(r) /\ e = event[r] /\ pc'[r] # "error500"
    OBVIOUS
  <1>1. t \in tickets /\ t[1] \in Requests /\ event[t[1]] = e
    BY StepShape, WriteShape DEF Counted, TicketsOf, AllInv, CapacityInv, TypeOK, TicketIds
  <1>2. CASE t[1] # r
    BY <1>1, <1>2, StepShape, WriteShape DEF Counted, TicketsOf
  <1>3. CASE t[1] = r
    BY <1>1, <1>3, WriteShape DEF Counted, OwnTickets, TicketsOf
  <1> QED BY <1>2, <1>3

LEMMA StepSoldCoversCounted ==
  ASSUME AllInv, OverlapInv, AllInv', OverlapNext, NEW r \in Requests, PurchaseStep(r)
  PROVE  SoldCoversCounted'
  <1> SUFFICES ASSUME NEW e \in Events, e \notin overwritten'
               PROVE  Cardinality(Counted(e)') <= sold'[e]
    BY DEF SoldCoversCounted
  <1>1. /\ IsFiniteSet(Counted(e)) /\ Cardinality(Counted(e)) \in Nat
        /\ Cardinality(Counted(e)) <= sold[e]
        /\ sold[e] \in Nat /\ sold \in [Events -> Nat]
        /\ event[r] \in Events /\ reserved[r] \in Nat
    <2>1. e \notin overwritten
      BY DEF OverlapNext
    <2> QED BY <2>1, CountedFinite DEF AllInv, CapacityInv, TypeOK, OverlapInv,
            SoldCoversCounted
  <1>2. CASE Counted(e)' \subseteq Counted(e) /\ sold'[e] = sold[e]
    BY <1>1, <1>2, CountedShrinks
  <1>3. CASE pc[r] # "updateEvent"
    BY <1>2, <1>3, OtherStepShape, OtherStepsCountNoMore
  <1>4. CASE pc[r] = "updateEvent" /\ (e # event[r] \/ (pc'[r] = "error500" /\ sold' = sold))
    BY <1>1, <1>2, <1>4, WriteShape, WriteCounts
  <1>5. CASE pc[r] = "updateEvent" /\ e = event[r] /\ ~(pc'[r] = "error500" /\ sold' = sold)
    <2>1. /\ sold'[e] = reserved[r] /\ quantity[r] \in Nat /\ quantity[r] > 0
          /\ issued[r] = quantity[r]
      BY <1>1, <1>5, WriteShape
    <2>2. ~Stale(r)
      <3>1. UpdateEvent(r) \/ (UpdateEventFails(r) /\ sold' # sold)
        BY <1>5 DEF PurchaseStep, AddPurchase, AddPurchaseFails, AddTicket, AddTicketFails,
           PublishCreated, UpdateEventFails, PublishCompleted, PublishFails,
           RespondCreated, Goto, AllInv, CapacityInv, TypeOK
      <3>2. Stale(r) => event[r] \in overwritten'
        BY <3>1 DEF OverlapNext, Overwrites
      <3> QED BY <1>5, <3>2
    <2>3. sold'[e] = sold[e] + quantity[r]
      BY <1>1, <1>5, <2>1, <2>2 DEF Stale
    <2>4. /\ Cardinality(OwnTickets(r)) \in Nat /\ Cardinality(OwnTickets(r)) <= quantity[r]
          /\ IsFiniteSet(OwnTickets(r))
      BY <1>5, <2>1, OwnAtMostQuantity, RowSetsFinite DEF AllInv, CountInv
    <2>5. /\ IsFiniteSet(Counted(e) \cup OwnTickets(r))
          /\ Cardinality(Counted(e) \cup OwnTickets(r))
               = Cardinality(Counted(e)) + Cardinality(OwnTickets(r))
                 - Cardinality(Counted(e) \cap OwnTickets(r))
      BY <1>1, <2>4, FS_Union
    <2>6. Cardinality(Counted(e) \cap OwnTickets(r)) \in Nat
      BY <1>1, FS_Intersection, FS_CardinalityType
    <2>7. Counted(e)' \in SUBSET (Counted(e) \cup OwnTickets(r))
      BY <1>5, WriteCounts
    <2>8. /\ Cardinality(Counted(e)') <= Cardinality(Counted(e) \cup OwnTickets(r))
          /\ Cardinality(Counted(e)') \in Nat
      BY <2>5, <2>7, FS_Subset, FS_CardinalityType
    <2> HIDE DEF Counted, OwnTickets
    <2> QED BY <1>1, <2>1, <2>3, <2>4, <2>5, <2>6, <2>8
  <1> QED BY <1>3, <1>4, <1>5

-----------------------------------------------------------------------------
(* OverlapInv is inductive                                                 *)

\* A request that arrives has no tickets.
LEMMA ArrivesWithoutTickets ==
  ASSUME AllInv, NEW r \in Requests, pc[r] = "idle", NEW t \in tickets
  PROVE  t[1] \in Requests \ {r}
  <1>1. PICK p \in Requests, i \in 1 .. MaxQuantity : t = <<p, i>>
    BY DEF AllInv, CapacityInv, TypeOK, TicketIds
  <1>2. p # r
    BY <1>1, PurchaseAssumption DEF AllInv, CapacityInv, TypeOK, Progress, IssueInv
  <1> QED BY <1>1, <1>2

LEMMA BeginShape ==
  ASSUME AllInv, NEW r \in Requests, NEW e \in Events, NEW q \in 0 .. MaxQuantity,
         BeginPurchase(r, e, q)
  PROVE  /\ pc[r] = "idle" /\ pc'[r] # "publishCompleted" /\ quantity'[r] = q
         /\ pc'[r] \in Working => q > 0 /\ reserved'[r] = sold[e] + q
         /\ \A p \in Requests \ {r} :
                /\ pc'[p] = pc[p] /\ event'[p] = event[p]
                /\ quantity'[p] = quantity[p] /\ reserved'[p] = reserved[p]
         /\ UNCHANGED <<capacity, sold, tickets, completed>>
         /\ \A f : Counted(f)' = Counted(f) /\ CompletedTicketsOf(f)' = CompletedTicketsOf(f)
  <1> USE DEF Arrive, database, broker, AllInv, CapacityInv, TypeOK
  <1>1. CASE PurchaseReserved(r, e, q)
    BY <1>1, ArrivesWithoutTickets
       DEF PurchaseReserved, CanReserve, Working, Counted, CompletedTicketsOf, TicketsOf
  <1>2. CASE GetEventFails(r, e, q) \/ PurchaseNotFound(r, e, q) \/ PurchaseRefused(r, e, q)
             \/ PurchaseWithoutEmail(r, e, q)
    BY <1>2, ArrivesWithoutTickets
       DEF GetEventFails, PurchaseNotFound, PurchaseRefused, PurchaseWithoutEmail, Working,
           Counted, CompletedTicketsOf, TicketsOf
  <1> QED BY <1>1, <1>2 DEF BeginPurchase

\* A new event has sold nothing.
LEMMA NewEventUnsold ==
  ASSUME AllInv, NEW e \in Events, CreateEvent(e)
  PROVE  sold' = sold
  <1>1. sold[e] = 0 /\ sold \in [Events -> Nat]
    BY PurchaseAssumption DEF CreateEvent, AllInv, CapacityInv, TypeOK, SoldWithinCapacity
  <1> QED BY <1>1 DEF CreateEvent

\* Nothing is written outside the steps of requests.
LEMMA FaultShape ==
  ASSUME AllInv, Disconnect \/ Restart \/ UNCHANGED vars \/ (\E e \in Events : CreateEvent(e))
  PROVE  /\ UNCHANGED <<sold, tickets, completed, event, quantity, reserved>>
         /\ \A p \in Requests : pc'[p] = pc[p] \/ pc'[p] = "lost"
         /\ \A f : Counted(f)' \subseteq Counted(f) /\ CompletedTicketsOf(f)' = CompletedTicketsOf(f)
  <1>1. /\ UNCHANGED <<sold, tickets, completed, event, quantity, reserved>>
        /\ \A p \in Requests : pc'[p] = pc[p] \/ pc'[p] = "lost"
    BY NewEventUnsold DEF Disconnect, Restart, vars, CreateEvent, database, broker, request,
       AllInv, CapacityInv, TypeOK
  <1>2. \A t \in tickets : t[1] \in Requests
    BY DEF AllInv, CapacityInv, TypeOK, TicketIds
  <1> QED BY <1>1, <1>2 DEF Counted, CompletedTicketsOf, TicketsOf

LEMMA NextOverlapInv ==
  AllInv /\ AllInv' /\ OverlapInv /\ [OverlapNext]_overlapVars => OverlapInv'
  <1> SUFFICES ASSUME AllInv, AllInv', OverlapInv, [OverlapNext]_overlapVars PROVE OverlapInv'
    OBVIOUS
  <1>1. CASE UNCHANGED overlapVars
    BY <1>1 DEF overlapVars, vars, database, broker, request, OverlapInv,
       ReservedIncludesOrder, SoldCoversCounted, Counted, TicketsOf
  <1> SUFFICES ASSUME OverlapNext PROVE OverlapInv'
    BY <1>1
  <1>2. overwritten \subseteq overwritten' /\ overwritten' \subseteq Events
    <2>1. \A r \in Requests : event[r] \in Events
      BY DEF AllInv, CapacityInv, TypeOK
    <2> QED BY <2>1 DEF OverlapNext, OverlapInv
  <1>3. ASSUME \A e \in Events : Counted(e)' \subseteq Counted(e), sold' = sold
        PROVE  SoldCoversCounted'
    <2> SUFFICES ASSUME NEW e \in Events \ overwritten'
                 PROVE  Cardinality(Counted(e)') <= sold[e]
      BY <1>3 DEF SoldCoversCounted
    <2>1. Cardinality(Counted(e)) <= sold[e] /\ sold[e] \in Nat
      BY <1>2 DEF OverlapInv, SoldCoversCounted, AllInv, CapacityInv, TypeOK
    <2> QED BY <1>3, <2>1, CountedShrinks, CountedFinite
  <1>4. ASSUME NEW r \in Requests, NEW e \in Events, NEW q \in 0 .. MaxQuantity,
               BeginPurchase(r, e, q)
        PROVE  ReservedIncludesOrder' /\ SoldCoversCounted'
    <2>1. q \in Nat /\ sold[e] \in Nat
      BY PurchaseAssumption DEF AllInv, CapacityInv, TypeOK
    <2>2. ReservedIncludesOrder'
      BY <1>4, <2>1, BeginShape DEF OverlapInv, ReservedIncludesOrder, Working
    <2> QED BY <1>3, <1>4, <2>2, BeginShape
  <1>5. ASSUME NEW r \in Requests, PurchaseStep(r)
        PROVE  ReservedIncludesOrder' /\ SoldCoversCounted'
    <2>1. ReservedIncludesOrder'
      BY <1>5, StepShape DEF OverlapInv, ReservedIncludesOrder, Working
    <2> QED BY <1>5, <2>1, StepSoldCoversCounted
  <1>6. CASE Disconnect \/ Restart \/ (\E e \in Events : CreateEvent(e))
    <2>1. ReservedIncludesOrder'
      BY <1>6, FaultShape DEF OverlapInv, ReservedIncludesOrder, Working
    <2> QED BY <1>2, <1>3, <1>6, <2>1, FaultShape DEF OverlapInv
  <1> QED BY <1>2, <1>4, <1>5, <1>6 DEF OverlapNext, Next, OverlapInv

THEOREM OverlapInvariance == OverlapSpec => []OverlapInv
  BY InitOverlapInv, NextOverlapInv, AllInvariance, PTL DEF OverlapSpec

\* The history variable names events, and the rest keeps its types
\* (service.go:89-138).
THEOREM OverlapTypeCorrect == OverlapSpec => []OverlapTypeOK
  <1>1. AllInv /\ OverlapInv => OverlapTypeOK
    BY DEF AllInv, CapacityInv, OverlapInv, OverlapTypeOK
  <1> QED BY <1>1, OverlapInvariance, AllInvariance, PTL

-----------------------------------------------------------------------------
(* The theorems                                                            *)

LEMMA CompletedCounted ==
  ASSUME AllInv, NEW e
  PROVE  /\ CompletedTicketsOf(e) \subseteq Counted(e)
         /\ IsFiniteSet(CompletedTicketsOf(e)) /\ Cardinality(CompletedTicketsOf(e)) \in Nat
         /\ Cardinality(CompletedTicketsOf(e)) <= Cardinality(Counted(e))
  <1>1. CompletedTicketsOf(e) \in SUBSET Counted(e)
    BY DEF CompletedTicketsOf, Counted
  <1> QED BY <1>1, CountedFinite, FS_Subset, FS_CardinalityType

\* No event is oversold unless a purchase wrote a stale count over it: with any
\* number of purchases under way, the lost update of service.go:89-138 is the only
\* way past the capacity (event.go:129).
THEOREM OnlyOverwritingOversells == OverlapSpec => []OversoldOnlyByOverwriting
  <1>1. ASSUME AllInv, OverlapInv PROVE OversoldOnlyByOverwriting
    <2> SUFFICES ASSUME NEW e \in Events \ overwritten
                 PROVE  Cardinality(CompletedTicketsOf(e)) <= capacity[e]
      BY DEF OversoldOnlyByOverwriting
    <2>1. Cardinality(Counted(e)) <= sold[e] /\ sold[e] <= capacity[e]
      BY <1>1 DEF OverlapInv, SoldCoversCounted, AllInv, CapacityInv, SoldWithinCapacity
    <2>2. sold[e] \in Nat /\ capacity[e] \in Nat
      BY <1>1, PurchaseAssumption DEF AllInv, CapacityInv, TypeOK
    <2> QED BY <1>1, <2>1, <2>2, CountedFinite, CompletedCounted
  <1> QED BY <1>1, OverlapInvariance, AllInvariance, PTL

\* Only the publish of purchase.completed delivers tickets: all those of its request.
LEMMA StepDelivers ==
  ASSUME AllInv, AllInv', NEW r \in Requests, PurchaseStep(r), NEW e
  PROVE  \/ CompletedTicketsOf(e)' = CompletedTicketsOf(e)
         \/ /\ PublishCompleted(r) /\ e = event[r]
            /\ CompletedTicketsOf(e)' = CompletedTicketsOf(e) \cup OwnTickets(r)
            /\ CompletedTicketsOf(e) \cap OwnTickets(r) = {}
  <1>1. CASE PublishCompleted(r)
    <2>1. /\ UNCHANGED <<tickets, event>> /\ completed' = completed \cup {r}
          /\ pc[r] = "publishCompleted"
      BY <1>1 DEF PublishCompleted, Goto, database
    <2>2. r \notin completed
      BY <2>1 DEF AllInv, IssueInv
    <2> QED BY <1>1, <2>1, <2>2 DEF CompletedTicketsOf, TicketsOf, OwnTickets
  <1>2. CASE ~PublishCompleted(r)
    <2>1. completed' = completed
      BY <1>2 DEF PurchaseStep, AddPurchase, AddPurchaseFails, AddTicket, AddTicketFails,
         PublishCreated, UpdateEvent, UpdateEventFails, PublishFails, RespondCreated, broker
    <2>2. tickets' # tickets => pc[r] = "addTicket"
      BY <1>2 DEF PurchaseStep, AddPurchase, AddPurchaseFails, AddTicket, AddTicketFails,
         PublishCreated, UpdateEvent, UpdateEventFails, PublishFails, RespondCreated, Goto,
         database
    <2>3. \A t \in tickets' : t[1] \in completed => t \in tickets
      BY <2>2, StepShape DEF AllInv, IssueInv, NextTicket
    <2> QED BY <2>1, <2>3, StepShape DEF CompletedTicketsOf, TicketsOf
  <1> QED BY <1>1, <1>2

\* What PublishCompleted delivers was ordered, and sold if its event has no stale write.
LEMMA DeliveryRefinesBox ==
  ASSUME AllInv, AllInv', OverlapInv, OverlapNext, NEW r \in Requests, PublishCompleted(r)
  PROVE  Box!Deliver(event[r])
  <1> DEFINE e == event[r]
             q == Cardinality(OwnTickets(r))
  <1>1. /\ pc[r] = "publishCompleted" /\ UNCHANGED <<capacity, sold, tickets, event>>
        /\ PurchaseStep(r)
    BY DEF PublishCompleted, Goto, database, PurchaseStep
  <1>2. /\ e \in Events /\ capacity[e] \in Nat /\ sold[e] \in Nat
        /\ quantity[r] \in Nat /\ reserved[r] \in Nat
    BY PurchaseAssumption DEF AllInv, CapacityInv, TypeOK
  <1>3. q \in 1 .. capacity[e]
    <2>1. issued[r] = quantity[r] /\ quantity[r] > 0 /\ quantity[r] <= reserved[r]
      BY <1>1 DEF AllInv, WholeInv, OverlapInv, ReservedIncludesOrder, Working
    <2>2. q \in Nat /\ q <= quantity[r] /\ issued[r] <= q
      BY <1>1, <2>1, OwnAtMostQuantity DEF AllInv, CountInv, OwnCounted
    <2>3. reserved[r] <= capacity[e]
      BY <1>1 DEF AllInv, CapacityInv, ReservedFits, Working
    <2> HIDE DEF q
    <2> QED BY <1>2, <2>1, <2>2, <2>3
  <1>4. ASSUME NEW f \in Events
        PROVE  Cardinality(CompletedTicketsOf(f)') =
                   IF f = e THEN Cardinality(CompletedTicketsOf(f)) + q
                            ELSE Cardinality(CompletedTicketsOf(f))
    <2>1. CASE f # e
      BY <1>1, <2>1, StepDelivers
    <2>2. CASE f = e
      <3>1. r \notin completed
        BY <1>1 DEF AllInv, IssueInv
      <3>2. CompletedTicketsOf(f)' = CompletedTicketsOf(f) \cup OwnTickets(r)
            /\ CompletedTicketsOf(f) \cap OwnTickets(r) = {}
        BY <2>2, <3>1 DEF PublishCompleted, Goto, database, CompletedTicketsOf, TicketsOf,
           OwnTickets
      <3>3. /\ IsFiniteSet(CompletedTicketsOf(f)) /\ IsFiniteSet(OwnTickets(r))
            /\ Cardinality(CompletedTicketsOf(f)) \in Nat /\ q \in Nat
        BY CompletedCounted, RowSetsFinite DEF AllInv, CountInv
      <3>4. Cardinality(CompletedTicketsOf(f) \cap OwnTickets(r)) = 0
        BY <3>2, FS_EmptySet
      <3>5. Cardinality(CompletedTicketsOf(f) \cup OwnTickets(r))
              = Cardinality(CompletedTicketsOf(f)) + Cardinality(OwnTickets(r))
                - Cardinality(CompletedTicketsOf(f) \cap OwnTickets(r))
        BY <3>3, FS_Union
      <3>6. Cardinality(CompletedTicketsOf(f) \cup OwnTickets(r))
              = Cardinality(CompletedTicketsOf(f)) + q
        BY <3>3, <3>4, <3>5
      <3> HIDE DEF q, e
      <3> QED BY <2>2, <3>2, <3>6
    <2> QED BY <2>1, <2>2
  <1>5. e \notin overwritten => Cardinality(CompletedTicketsOf(e)) + q <= sold[e]
    <2> SUFFICES ASSUME NEW f \in Events, f = e, f \notin overwritten
                 PROVE  Cardinality(CompletedTicketsOf(f)) + q <= sold[f]
      BY <1>2
    <2>1. CompletedTicketsOf(f)' \in SUBSET Counted(f)
      BY <1>1 DEF PublishCompleted, Goto, database, CompletedTicketsOf, TicketsOf, Counted
    <2>2. /\ Cardinality(CompletedTicketsOf(f)') <= Cardinality(Counted(f))
          /\ Cardinality(CompletedTicketsOf(f)') \in Nat /\ Cardinality(Counted(f)) \in Nat
      BY <2>1, CountedFinite, FS_Subset, FS_CardinalityType
    <2>3. Cardinality(Counted(f)) <= sold[f] /\ sold[f] \in Nat
      BY <1>2 DEF OverlapInv, SoldCoversCounted
    <2> HIDE DEF e, q
    <2> QED BY <1>4, <2>2, <2>3
  <1>6. overwritten' = overwritten
    <2>1. \A p \in Requests : ~Overwrites(p)
      BY <1>1 DEF Overwrites, UpdateEvent, UpdateEventFails, PublishCompleted, Goto, AllInv,
         CapacityInv, TypeOK, broker
    <2> QED BY <2>1 DEF OverlapNext
  <1>7. [f \in Events |-> Cardinality(CompletedTicketsOf(f)')] =
            [[f \in Events |-> Cardinality(CompletedTicketsOf(f))]
                EXCEPT ![e] = Cardinality(CompletedTicketsOf(e)) + q]
    <2> HIDE DEF q, e
    <2> QED BY <1>4
  <1> HIDE DEF q
  <1> QED BY <1>1, <1>2, <1>3, <1>5, <1>6, <1>7 DEF Box!Deliver

\* Every other step of a request delivers nothing; the write is a sale or an overwrite.
LEMMA StepRefinesBox ==
  ASSUME AllInv, AllInv', OverlapInv, OverlapNext, NEW r \in Requests, PurchaseStep(r)
  PROVE  [Box!BoxNext]_Box!boxVars
  <1>1. /\ event[r] \in Events /\ UNCHANGED capacity
        /\ sold \in [Events -> Nat] /\ reserved[r] \in Nat /\ quantity[r] \in Nat
        /\ capacity[event[r]] \in Nat
    BY StepShape, PurchaseAssumption DEF AllInv, CapacityInv, TypeOK
  <1>2. CASE PublishCompleted(r)
    BY <1>1, <1>2, DeliveryRefinesBox DEF Box!BoxNext
  <1>3. ASSUME ~PublishCompleted(r)
        PROVE  \A f \in Events : CompletedTicketsOf(f)' = CompletedTicketsOf(f)
    BY <1>3, StepDelivers
  <1>4. \A p \in Requests : Overwrites(p) => p = r /\ sold'[event[r]] = reserved[r]
    <2>1. \A p \in Requests : Overwrites(p) => pc[p] = "updateEvent" /\ pc'[p] # pc[p]
      BY DEF Overwrites, UpdateEvent, UpdateEventFails, Goto, AllInv, CapacityInv, TypeOK
    <2>2. ASSUME Overwrites(r) PROVE sold'[event[r]] = reserved[r]
      BY <1>1, <2>2 DEF Overwrites, UpdateEvent, UpdateEventFails
    <2> QED BY <2>1, <2>2, StepShape
  <1>5. CASE pc[r] # "updateEvent" /\ ~PublishCompleted(r)
    <2>1. overwritten' = overwritten
      BY <1>4, <1>5 DEF OverlapNext, Overwrites, UpdateEvent, UpdateEventFails, Goto
    <2>2. sold' = sold
      BY <1>5, OtherStepShape
    <2> QED BY <1>1, <1>3, <1>5, <2>1, <2>2 DEF Box!boxVars
  <1>6. CASE pc[r] = "updateEvent"
    <2>1. /\ ~PublishCompleted(r) /\ quantity[r] > 0
          /\ sold' = sold \/ sold' = [sold EXCEPT ![event[r]] = reserved[r]]
          /\ UpdateEvent(r) \/ UpdateEventFails(r)
      BY <1>6, WriteShape DEF PublishCompleted, Goto, PurchaseStep, AddPurchase,
         AddPurchaseFails, AddTicket, AddTicketFails, PublishCreated, PublishFails,
         RespondCreated
    <2>2. quantity[r] <= reserved[r] /\ reserved[r] <= capacity[event[r]]
      BY <1>6 DEF OverlapInv, ReservedIncludesOrder, AllInv, CapacityInv, ReservedFits, Working
    <2>3. overwritten' = overwritten \cup {event[p] : p \in {x \in Requests : Overwrites(x)}}
      BY DEF OverlapNext
    <2>4. CASE Overwrites(r)
      <3>1. overwritten' = overwritten \cup {event[r]}
        BY <1>4, <2>3, <2>4
      <3>2. sold' = [sold EXCEPT ![event[r]] = reserved[r]]
        BY <1>1, <1>4, <2>1, <2>4
      <3>3. reserved[r] \in 0 .. capacity[event[r]]
        BY <1>1, <2>2
      <3>4. [f \in Events |-> Cardinality(CompletedTicketsOf(f))]'
              = [f \in Events |-> Cardinality(CompletedTicketsOf(f))]
        BY <1>3, <2>1
      <3>5. Box!Overwrite(event[r])
        BY <1>1, <3>1, <3>2, <3>3, <3>4 DEF Box!Overwrite
      <3> QED BY <1>1, <3>5 DEF Box!BoxNext
    <2>5. CASE ~Overwrites(r)
      <3>1. overwritten' = overwritten
        BY <1>4, <2>3, <2>5
      <3>2. CASE sold' = sold
        BY <1>1, <1>3, <2>1, <3>1, <3>2 DEF Box!boxVars
      <3>3. CASE sold' # sold
        <4>1. ~Stale(r)
          BY <2>1, <2>5, <3>3 DEF Overwrites
        <4>2. sold' = [sold EXCEPT ![event[r]] = @ + quantity[r]]
              /\ quantity[r] \in 1 .. (capacity[event[r]] - sold[event[r]])
          BY <1>1, <2>1, <2>2, <3>3, <4>1 DEF Stale
        <4> QED BY <1>1, <1>3, <2>1, <3>1, <4>2 DEF Box!BoxNext, Box!Sell
      <3> QED BY <3>2, <3>3
    <2> QED BY <2>4, <2>5
  <1> QED BY <1>2, <1>5, <1>6

LEMMA NextRefinesBox ==
  AllInv /\ AllInv' /\ OverlapInv /\ [OverlapNext]_overlapVars => [Box!BoxNext]_Box!boxVars
  <1> SUFFICES ASSUME AllInv, AllInv', OverlapInv, [OverlapNext]_overlapVars
               PROVE  [Box!BoxNext]_Box!boxVars
    OBVIOUS
  <1>1. CASE UNCHANGED overlapVars
    BY <1>1 DEF overlapVars, vars, database, broker, request, Box!boxVars,
       CompletedTicketsOf, TicketsOf
  <1>2. ASSUME OverlapNext, ~(\E r \in Requests : PurchaseStep(r))
        PROVE  overwritten' = overwritten
    BY <1>2 DEF OverlapNext, Overwrites, PurchaseStep
  <1>3. ASSUME OverlapNext, UNCHANGED <<capacity, sold>>,
               \A f : CompletedTicketsOf(f)' = CompletedTicketsOf(f),
               ~(\E r \in Requests : PurchaseStep(r))
        PROVE  UNCHANGED Box!boxVars
    BY <1>2, <1>3 DEF Box!boxVars
  <1>4. CASE OverlapNext /\ \E r \in Requests : PurchaseStep(r)
    BY <1>4, StepRefinesBox
  <1>5. CASE OverlapNext /\ ~(\E r \in Requests : PurchaseStep(r))
    <2>1. CASE \E r \in Requests, e \in Events, q \in 0 .. MaxQuantity :
                  BeginPurchase(r, e, q)
      BY <1>3, <1>5, <2>1, BeginShape
    <2>2. CASE Disconnect \/ Restart
      BY <1>3, <1>5, <2>2, FaultShape DEF Disconnect, Restart, database
    <2>3. CASE \E e \in Events : CreateEvent(e)
      <3>1. PICK e \in Events : CreateEvent(e)
        BY <2>3
      <3>2. /\ sold' = sold /\ overwritten' = overwritten
            /\ \A f : CompletedTicketsOf(f)' = CompletedTicketsOf(f)
        BY <1>2, <1>5, <3>1, FaultShape
      <3>3. /\ capacity[e] = 0 /\ capacity'[e] \in Nat \ {0}
            /\ capacity' = [capacity EXCEPT ![e] = capacity'[e]]
        BY <3>1, PurchaseAssumption DEF CreateEvent, AllInv, CapacityInv, TypeOK
      <3> QED BY <3>2, <3>3 DEF Box!BoxNext, Box!OpenSale
    <2> QED BY <1>5, <2>1, <2>2, <2>3 DEF OverlapNext, Next
  <1> QED BY <1>1, <1>4, <1>5

\* Purchases sell like the box office, with any number of them under way: the count
\* moves by whole sales that fit and only covered tickets are delivered, except for
\* the events with a stale write (service.go:89-155, event.go:159-181).
THEOREM OverlapImplementsBoxOffice == OverlapSpec => ImplementsBoxOffice
  <1>1. OverlapInit => Box!BoxInit
    <2> SUFFICES ASSUME OverlapInit PROVE Box!BoxInit
      OBVIOUS
    <2>1. \A e \in Events : CompletedTicketsOf(e) = {}
      BY DEF OverlapInit, Init, ServiceInit, CompletedTicketsOf, TicketsOf
    <2>2. \A e \in Events : Cardinality(CompletedTicketsOf(e)) = 0
      BY <2>1, FS_EmptySet
    <2> QED BY <2>2 DEF OverlapInit, Init, ServiceInit, Box!BoxInit
  <1> QED BY <1>1, NextRefinesBox, OverlapInvariance, AllInvariance, PTL
          DEF OverlapSpec, ImplementsBoxOffice, Box!BoxSpec

\* A sale once recorded is forgotten only by a stale write: the count of an event
\* falls in no other way (service.go:89-138).
THEOREM SoldFallsOnlyByOverwriting ==
  OverlapSpec => [][\A e \in Events : sold'[e] < sold[e] => e \in overwritten']_overlapVars
  <1>1. ASSUME AllInv, [Box!BoxNext]_Box!boxVars, NEW e \in Events, sold'[e] < sold[e]
        PROVE  e \in overwritten'
    <2>1. sold \in [Events -> Nat]
      BY <1>1 DEF AllInv, CapacityInv, TypeOK
    <2>2. sold' # sold
      BY <1>1, <2>1
    <2>3. PICK f \in Events : Box!Sell(f) \/ Box!Overwrite(f)
      BY <1>1, <2>2 DEF Box!BoxNext, Box!boxVars, Box!OpenSale, Box!Deliver
    <2>4. CASE Box!Sell(f)
      <3>1. PICK q \in 1 .. (capacity[f] - sold[f]) : sold' = [sold EXCEPT ![f] = @ + q]
        BY <2>4 DEF Box!Sell
      <3>2. q \in Nat /\ sold[f] \in Nat
        BY <2>1, <3>1
      <3> QED BY <1>1, <2>1, <3>1, <3>2
    <2>5. CASE Box!Overwrite(f)
      BY <1>1, <2>1, <2>5 DEF Box!Overwrite
    <2> QED BY <2>3, <2>4, <2>5
  <1>2. AllInv /\ [Box!BoxNext]_Box!boxVars =>
            \A e \in Events : sold'[e] < sold[e] => e \in overwritten'
    BY <1>1
  <1>3. AllInv /\ AllInv' /\ OverlapInv /\ [OverlapNext]_overlapVars =>
            \A e \in Events : sold'[e] < sold[e] => e \in overwritten'
    BY <1>2, NextRefinesBox
  <1> QED BY <1>3, OverlapInvariance, AllInvariance, PTL DEF OverlapSpec
=============================================================================
