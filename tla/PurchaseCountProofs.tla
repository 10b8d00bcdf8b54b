------------------------ MODULE PurchaseCountProofs ------------------------
(***************************************************************************)
(* The sold count against the ticket rows, for any events, requests, bounds*)
(* and faults: it is never higher, and so no request is refused while the  *)
(* event still has room for it.                                            *)
(*                                                                         *)
(* The argument: the sold count a request will write is the one it read,   *)
(* which was covered by the rows of the others, plus its own quantity,     *)
(* which is covered by its own rows when it writes.  Rows are never        *)
(* deleted, so the cover only grows while the request is under way.        *)
(***************************************************************************)
EXTENDS PurchaseServiceProofs, Integers, FiniteSetTheorems

OwnTickets(r) == {t \in tickets : t[1] = r}
OthersTickets(r) == {t \in tickets : event[t[1]] = event[r] /\ t[1] # r}

\* at the end of the loop all the tickets asked for are issued
LoopDone == \A r \in Requests : pc[r] = "updateEvent" => issued[r] = quantity[r]

\* rows of its own that a request is known to have
OwnCounted ==
    \A r \in Requests :
        /\ issued[r] <= Cardinality(OwnTickets(r))
        /\ pc[r] = "publishCreated" => issued[r] + 1 <= Cardinality(OwnTickets(r))

\* what a request will write, less its quantity, is covered by the others
OthersCounted ==
    \A r \in Requests :
        pc[r] \in Working => reserved[r] <= quantity[r] + Cardinality(OthersTickets(r))

RefusedKnown ==
    \A r \in Requests :
        pc[r] = "conflict409" => capacity[event[r]] > 0

CountInv ==
    /\ IsFiniteSet(tickets)
    /\ LoopDone
    /\ OwnCounted
    /\ OthersCounted
    /\ RefusedKnown
    /\ SoldNeverOverstated
    /\ RefusalIsTruthful

-----------------------------------------------------------------------------
(* Sets of rows                                                            *)

LEMMA RowSetsFinite ==
  ASSUME IsFiniteSet(tickets), NEW r, NEW e
  PROVE  /\ IsFiniteSet(OwnTickets(r)) /\ Cardinality(OwnTickets(r)) \in Nat
         /\ IsFiniteSet(OthersTickets(r)) /\ Cardinality(OthersTickets(r)) \in Nat
         /\ IsFiniteSet(TicketsOf(e)) /\ Cardinality(TicketsOf(e)) \in Nat
  <1>1. /\ OwnTickets(r) \in SUBSET tickets
        /\ OthersTickets(r) \in SUBSET tickets
        /\ TicketsOf(e) \in SUBSET tickets
    BY DEF OwnTickets, OthersTickets, TicketsOf
  <1> QED BY <1>1, FS_Subset, FS_CardinalityType

\* The rows of an event are those of one of its requests and the others'.
LEMMA RowsSplit ==
  ASSUME IsFiniteSet(tickets), NEW r
  PROVE  Cardinality(OwnTickets(r)) + Cardinality(OthersTickets(r))
            = Cardinality(TicketsOf(event[r]))
  <1>1. OwnTickets(r) \cup OthersTickets(r) = TicketsOf(event[r])
    BY DEF OwnTickets, OthersTickets, TicketsOf
  <1>2. OwnTickets(r) \cap OthersTickets(r) = {}
    BY DEF OwnTickets, OthersTickets
  <1>3. Cardinality(OwnTickets(r) \cap OthersTickets(r)) = 0
    BY <1>2, FS_EmptySet
  <1>4. /\ IsFiniteSet(OwnTickets(r)) /\ Cardinality(OwnTickets(r)) \in Nat
        /\ IsFiniteSet(OthersTickets(r)) /\ Cardinality(OthersTickets(r)) \in Nat
    BY RowSetsFinite
  <1>5. Cardinality(OwnTickets(r) \cup OthersTickets(r))
           = Cardinality(OwnTickets(r)) + Cardinality(OthersTickets(r))
             - Cardinality(OwnTickets(r) \cap OthersTickets(r))
    BY <1>4, FS_Union
  <1>6. Cardinality(TicketsOf(event[r]))
           = Cardinality(OwnTickets(r)) + Cardinality(OthersTickets(r)) - 0
    BY <1>1, <1>3, <1>5
  <1> HIDE DEF OwnTickets, OthersTickets, TicketsOf
  <1> QED BY <1>4, <1>6

\* While the requests keep their events, more rows cover more.
LEMMA RowsGrow ==
  ASSUME IsFiniteSet(tickets'), tickets \subseteq tickets', event' = event, NEW r, NEW e
  PROVE  /\ Cardinality(OwnTickets(r)) <= Cardinality(OwnTickets(r)')
         /\ Cardinality(OthersTickets(r)) <= Cardinality(OthersTickets(r)')
         /\ Cardinality(TicketsOf(e)) <= Cardinality(TicketsOf(e)')
  <1>1. /\ OwnTickets(r)' \in SUBSET tickets'
        /\ OthersTickets(r)' \in SUBSET tickets'
        /\ TicketsOf(e)' \in SUBSET tickets'
    BY DEF OwnTickets, OthersTickets, TicketsOf
  <1>2. /\ OwnTickets(r) \in SUBSET OwnTickets(r)'
        /\ OthersTickets(r) \in SUBSET OthersTickets(r)'
        /\ TicketsOf(e) \in SUBSET TicketsOf(e)'
    BY DEF OwnTickets, OthersTickets, TicketsOf
  <1>3. IsFiniteSet(OwnTickets(r)') /\ IsFiniteSet(OthersTickets(r)') /\ IsFiniteSet(TicketsOf(e)')
    BY <1>1, FS_Subset
  <1> QED BY <1>2, <1>3, FS_Subset

-----------------------------------------------------------------------------
(* CountInv is inductive                                                   *)

LEMMA InitCountInv == Init => CountInv
  <1> SUFFICES ASSUME Init PROVE CountInv
    OBVIOUS
  <1>1. tickets = {} /\ IsFiniteSet(tickets)
    BY FS_EmptySet DEF Init, ServiceInit
  <1>2. \A r : OwnTickets(r) = {} /\ OthersTickets(r) = {}
    BY <1>1 DEF OwnTickets, OthersTickets
  <1>3. \A e : TicketsOf(e) = {}
    BY <1>1 DEF TicketsOf
  <1>4. Cardinality({}) = 0
    BY FS_EmptySet
  <1>5. SoldNeverOverstated
    BY <1>3, <1>4 DEF Init, ServiceInit, SoldNeverOverstated
  <1>6. OwnCounted
    BY <1>2, <1>4 DEF Init, ServiceInit, OwnCounted
  <1>7. LoopDone /\ OthersCounted /\ RefusedKnown /\ RefusalIsTruthful
    BY DEF Init, ServiceInit, LoopDone, OthersCounted, RefusedKnown, RefusalIsTruthful, Working
  <1> QED BY <1>1, <1>5, <1>6, <1>7 DEF CountInv

\* Steps that only add rows: everything counted before is still covered.
\* Left to each of them: the request that moves and the event it may write.
LEMMA GrowingStep ==
  ASSUME CapacityInv, CountInv, NEW r \in Requests, event' = event, capacity' = capacity,
         quantity' = quantity, reserved' = reserved,
         pc \in [Requests -> PCs], pc'[r] # "conflict409",
         tickets \subseteq tickets', IsFiniteSet(tickets'),
         pc[r] \in Working,
         \A p \in Requests \ {r} : pc'[p] = pc[p] /\ issued'[p] = issued[p],
         pc'[r] = "updateEvent" => issued'[r] = quantity[r],
         issued'[r] <= Cardinality(OwnTickets(r)'),
         pc'[r] = "publishCreated" => issued'[r] + 1 <= Cardinality(OwnTickets(r)'),
         \A e \in Events : sold'[e] # sold[e] => sold'[e] <= Cardinality(TicketsOf(e)')
  PROVE  CountInv'
  <1>1. /\ \A p \in Requests : quantity[p] \in Nat /\ reserved[p] \in Nat /\ event[p] \in Events
        /\ \A e \in Events : sold[e] \in Nat /\ capacity[e] \in Nat
        /\ \A p \in Requests : issued[p] \in Nat
    BY PurchaseAssumption DEF CapacityInv, TypeOK
  <1>2. IsFiniteSet(tickets)
    BY DEF CountInv
  <1>3. ASSUME NEW p
        PROVE  /\ Cardinality(OwnTickets(p)) <= Cardinality(OwnTickets(p)')
               /\ Cardinality(OthersTickets(p)) <= Cardinality(OthersTickets(p)')
               /\ Cardinality(OwnTickets(p)) \in Nat /\ Cardinality(OwnTickets(p)') \in Nat
               /\ Cardinality(OthersTickets(p)) \in Nat /\ Cardinality(OthersTickets(p)') \in Nat
    <2>1. IsFiniteSet(OwnTickets(p)') /\ IsFiniteSet(OthersTickets(p)')
      <3>1. OwnTickets(p)' \in SUBSET tickets' /\ OthersTickets(p)' \in SUBSET tickets'
        BY DEF OwnTickets, OthersTickets
      <3> QED BY <3>1, FS_Subset
    <2> QED BY <1>2, <2>1, RowSetsFinite, RowsGrow, FS_CardinalityType
  <1>10. ASSUME NEW e
         PROVE  /\ Cardinality(TicketsOf(e)) <= Cardinality(TicketsOf(e)')
                /\ Cardinality(TicketsOf(e)) \in Nat /\ Cardinality(TicketsOf(e)') \in Nat
    <2>1. IsFiniteSet(TicketsOf(e)')
      <3>1. TicketsOf(e)' \in SUBSET tickets'
        BY DEF TicketsOf
      <3> QED BY <3>1, FS_Subset
    <2> QED BY <1>2, <2>1, RowSetsFinite, RowsGrow, FS_CardinalityType
  <1>4. LoopDone'
    BY DEF CountInv, LoopDone
  <1>5. OwnCounted'
    <2> SUFFICES ASSUME NEW p \in Requests
                 PROVE  /\ issued'[p] <= Cardinality(OwnTickets(p)')
                        /\ pc'[p] = "publishCreated" =>
                               issued'[p] + 1 <= Cardinality(OwnTickets(p)')
      BY DEF OwnCounted
    <2>1. CASE p = r
      BY <2>1
    <2>2. CASE p # r
      BY <1>1, <1>3, <2>2 DEF CountInv, OwnCounted
    <2> QED BY <2>1, <2>2
  <1>6. OthersCounted'
    <2> SUFFICES ASSUME NEW p \in Requests, pc'[p] \in Working
                 PROVE  reserved[p] <= quantity[p] + Cardinality(OthersTickets(p)')
      BY DEF OthersCounted, Working
    <2>1. pc[p] \in Working
      BY DEF Working
    <2> QED BY <1>1, <1>3, <2>1 DEF CountInv, OthersCounted
  <1>7. RefusedKnown'
    BY DEF CountInv, RefusedKnown
  <1>8. SoldNeverOverstated'
    <2> SUFFICES ASSUME NEW e \in Events PROVE sold'[e] <= Cardinality(TicketsOf(e)')
      BY DEF SoldNeverOverstated
    <2> QED BY <1>1, <1>10 DEF CountInv, SoldNeverOverstated
  <1>9. RefusalIsTruthful'
    <2> SUFFICES ASSUME NEW p \in Requests, pc'[p] = "conflict409", quantity[p] > 0
                 PROVE  Cardinality(TicketsOf(event[p])') + quantity[p] > capacity[event[p]]
      BY DEF RefusalIsTruthful, TicketsOf
    <2>1. pc[p] = "conflict409"
      OBVIOUS
    <2>2. Cardinality(TicketsOf(event[p])) + quantity[p] > capacity[event[p]]
      BY <2>1 DEF CountInv, RefusalIsTruthful
    <2> QED BY <1>1, <1>10, <2>2
  <1> QED BY <1>4, <1>5, <1>6, <1>7, <1>8, <1>9 DEF CountInv

\* AddTicket puts one new row of r into the table.
LEMMA NewRowCounts ==
  ASSUME CapacityInv, IssueInv, CountInv, NEW r \in Requests, pc[r] = "addTicket",
         tickets' = tickets \cup {NextTicket(r)}
  PROVE  /\ IsFiniteSet(tickets')
         /\ issued[r] + 1 <= Cardinality(OwnTickets(r)')
  <1>1. IsFiniteSet(tickets) /\ issued[r] \in Nat /\ issued[r] + 1 \in 1 .. MaxQuantity
    BY PurchaseAssumption DEF CountInv, CapacityInv, TypeOK, Progress
  <1>2. IsFiniteSet(tickets')
    BY <1>1, FS_AddElement
  <1>3. NextTicket(r) \notin OwnTickets(r)
    BY <1>1 DEF IssueInv, NextTicket, OwnTickets
  <1>4. OwnTickets(r)' = OwnTickets(r) \cup {NextTicket(r)}
    BY DEF OwnTickets, NextTicket
  <1>5. IsFiniteSet(OwnTickets(r)) /\ Cardinality(OwnTickets(r)) \in Nat
    BY <1>1, RowSetsFinite
  <1>6. Cardinality(OwnTickets(r)') = Cardinality(OwnTickets(r)) + 1
    BY <1>3, <1>4, <1>5, FS_AddElement
  <1>7. issued[r] <= Cardinality(OwnTickets(r))
    BY DEF CountInv, OwnCounted
  <1> QED BY <1>1, <1>2, <1>5, <1>6, <1>7

\* The count written by a request is covered: its own rows and the others'.
LEMMA WrittenCountCovered ==
  ASSUME CapacityInv, CountInv, NEW r \in Requests, pc[r] = "updateEvent",
         tickets' = tickets, event' = event,
         sold' \in {sold, [sold EXCEPT ![event[r]] = reserved[r]]}
  PROVE  \A e \in Events : sold'[e] # sold[e] => sold'[e] <= Cardinality(TicketsOf(e)')
  <1>1. /\ reserved[r] <= quantity[r] + Cardinality(OthersTickets(r))
        /\ quantity[r] <= Cardinality(OwnTickets(r))
    BY DEF CountInv, OthersCounted, OwnCounted, LoopDone, Working
  <1>2. Cardinality(OwnTickets(r)) + Cardinality(OthersTickets(r))
            = Cardinality(TicketsOf(event[r]))
    BY RowsSplit DEF CountInv
  <1>3. Cardinality(OwnTickets(r)) \in Nat /\ Cardinality(OthersTickets(r)) \in Nat
    BY RowSetsFinite DEF CountInv
  <1>4. reserved[r] \in Nat /\ quantity[r] \in Nat /\ event[r] \in Events
        /\ sold \in [Events -> Nat]
    BY PurchaseAssumption DEF CapacityInv, TypeOK
  <1>5. reserved[r] <= Cardinality(TicketsOf(event[r]))
    BY <1>1, <1>2, <1>3, <1>4
  <1>6. \A e : TicketsOf(e)' = TicketsOf(e)
    BY DEF TicketsOf
  <1> QED BY <1>4, <1>5, <1>6

\* One step of a request that is being served.
LEMMA StepCountInv ==
  ASSUME CapacityInv, IssueInv, CountInv, NEW r \in Requests, PurchaseStep(r)
  PROVE  CountInv'
  <1>1. /\ pc \in [Requests -> PCs] /\ issued \in [Requests -> Nat]
        /\ quantity \in [Requests -> Nat] /\ IsFiniteSet(tickets)
    BY PurchaseAssumption DEF CapacityInv, TypeOK, CountInv
  <1>2. /\ issued[r] <= Cardinality(OwnTickets(r))
        /\ pc[r] = "publishCreated" => issued[r] + 1 <= Cardinality(OwnTickets(r))
    BY DEF CountInv, OwnCounted
  <1>3. tickets' = tickets =>
            OwnTickets(r)' = OwnTickets(r) /\ IsFiniteSet(tickets')
    BY <1>1 DEF OwnTickets
  <1>4. \A p \in Requests \ {r} : pc'[p] = pc[p] /\ issued'[p] = issued[p]
    BY <1>1 DEF PurchaseStep, AddPurchase, AddPurchaseFails, AddTicket, AddTicketFails,
                PublishCreated, UpdateEvent, UpdateEventFails, PublishCompleted,
                PublishFails, RespondCreated, Goto
  <1>5. CASE AddPurchase(r) \/ AddPurchaseFails(r) \/ PublishCompleted(r) \/ PublishFails(r)
             \/ RespondCreated(r)
    BY <1>1, <1>2, <1>3, <1>4, <1>5, GrowingStep
       DEF AddPurchase, AddPurchaseFails, PublishCompleted, PublishFails, RespondCreated,
           Goto, database, Working
  <1>6. CASE (AddTicket(r) \/ AddTicketFails(r)) /\ tickets' = tickets \cup {NextTicket(r)}
    <2>1. /\ pc[r] = "addTicket" /\ pc'[r] \in {"publishCreated", "error500"}
          /\ issued' = issued /\ sold' = sold /\ capacity' = capacity /\ event' = event
          /\ quantity' = quantity /\ reserved' = reserved
      BY <1>1, <1>6 DEF AddTicket, AddTicketFails, Goto
    <2>2. IsFiniteSet(tickets') /\ issued[r] + 1 <= Cardinality(OwnTickets(r)')
      BY <1>6, <2>1, NewRowCounts
    <2>3. IsFiniteSet(OwnTickets(r)') /\ Cardinality(OwnTickets(r)') \in Nat
      <3>1. OwnTickets(r)' \in SUBSET tickets'
        BY DEF OwnTickets
      <3> QED BY <2>2, <3>1, FS_Subset, FS_CardinalityType
    <2>4. issued'[r] <= Cardinality(OwnTickets(r)')
      BY <1>1, <2>1, <2>2, <2>3
    <2>5. tickets \subseteq tickets'
      BY <1>6
    <2> QED BY <1>1, <1>4, <2>1, <2>2, <2>4, <2>5, GrowingStep DEF Working
  <1>7. CASE AddTicketFails(r) /\ tickets' = tickets
    BY <1>1, <1>2, <1>3, <1>4, <1>7, GrowingStep DEF AddTicketFails, Goto, Working
  <1>8. CASE PublishCreated(r)
    <2>1. /\ pc[r] = "publishCreated" /\ pc'[r] \in {"addTicket", "updateEvent"}
          /\ issued'[r] = issued[r] + 1 /\ tickets' = tickets
          /\ sold' = sold /\ capacity' = capacity /\ event' = event
          /\ quantity' = quantity /\ reserved' = reserved
      BY <1>1, <1>8 DEF PublishCreated, Goto, database
    <2>2. issued[r] < quantity[r]
      BY <2>1 DEF CapacityInv, Progress
    <2>3. pc'[r] = "updateEvent" => issued'[r] = quantity[r]
      <3>1. pc'[r] = "updateEvent" => ~(issued[r] + 1 < quantity[r])
        BY <1>1, <1>8 DEF PublishCreated, Goto
      <3> QED BY <1>1, <2>1, <2>2, <3>1
    <2> QED BY <1>1, <1>2, <1>3, <1>4, <2>1, <2>3, GrowingStep DEF Working
  <1>9. CASE UpdateEvent(r) \/ UpdateEventFails(r)
    <2>1. /\ pc[r] = "updateEvent" /\ pc'[r] \in {"publishCompleted", "error500"}
          /\ issued' = issued /\ tickets' = tickets /\ capacity' = capacity
          /\ event' = event /\ quantity' = quantity /\ reserved' = reserved
          /\ sold' \in {sold, [sold EXCEPT ![event[r]] = reserved[r]]}
      BY <1>1, <1>9 DEF UpdateEvent, UpdateEventFails, Goto
    <2>2. \A e \in Events : sold'[e] # sold[e] => sold'[e] <= Cardinality(TicketsOf(e)')
      BY <2>1, WrittenCountCovered
    <2> QED BY <1>1, <1>2, <1>3, <1>4, <2>1, <2>2, GrowingStep DEF Working
  <1>10. AddTicket(r) => tickets' = tickets \cup {NextTicket(r)}
    BY DEF AddTicket
  <1>11. AddTicketFails(r) => tickets' = tickets \/ tickets' = tickets \cup {NextTicket(r)}
    BY DEF AddTicketFails
  <1> QED BY <1>5, <1>6, <1>7, <1>8, <1>9, <1>10, <1>11 DEF PurchaseStep

\* A new request has no rows, so taking its event on changes no row set; what
\* it reserves, and what makes it refused, is the sold count it has read.
LEMMA BeginCountInv ==
  ASSUME CapacityInv, IssueInv, CountInv, NEW r \in Requests, NEW e \in Events,
         NEW q \in 0 .. MaxQuantity, BeginPurchase(r, e, q)
  PROVE  CountInv'
  <1>1. PICK next \in {"error500", "notFound404", "conflict409", "addPurchase"} :
            Arrive(r, e, q, next)
    BY DEF BeginPurchase, GetEventFails, PurchaseNotFound, PurchaseRefused,
           PurchaseWithoutEmail, PurchaseReserved
  <1>2. /\ pc[r] = "idle" /\ pc' = [pc EXCEPT ![r] = next]
        /\ event' = [event EXCEPT ![r] = e] /\ quantity' = [quantity EXCEPT ![r] = q]
        /\ tickets' = tickets /\ sold' = sold /\ capacity' = capacity /\ issued' = issued
    BY <1>1 DEF Arrive, database
  <1>3. /\ pc \in [Requests -> PCs] /\ event \in [Requests -> Events] /\ q \in Nat
        /\ quantity \in [Requests -> Nat] /\ reserved \in [Requests -> Nat]
        /\ sold \in [Events -> Nat] /\ capacity \in [Events -> Nat]
        /\ tickets \subseteq TicketIds /\ IsFiniteSet(tickets)
    BY PurchaseAssumption DEF CapacityInv, TypeOK, CountInv
  <1>4. /\ pc'[r] = next /\ event'[r] = e /\ quantity'[r] = q
        /\ \A p \in Requests \ {r} :
              pc'[p] = pc[p] /\ event'[p] = event[p] /\ quantity'[p] = quantity[p]
    BY <1>2, <1>3
  <1>5. ASSUME NEW t \in tickets PROVE t[1] \in Requests \ {r}
    <2>1. PICK p \in Requests, i \in 1 .. MaxQuantity : t = <<p, i>>
      BY <1>3 DEF TicketIds
    <2>2. p # r
      BY <1>2, <2>1, PurchaseAssumption DEF CapacityInv, TypeOK, Progress, IssueInv
    <2> QED BY <2>1, <2>2
  <1>6. \A t \in tickets : event'[t[1]] = event[t[1]] /\ t[1] # r
    BY <1>4, <1>5
  <1>7. ASSUME NEW f PROVE TicketsOf(f)' = TicketsOf(f)
    BY <1>2, <1>6 DEF TicketsOf
  <1>8. ASSUME NEW p \in Requests PROVE OwnTickets(p)' = OwnTickets(p)
    BY <1>2 DEF OwnTickets
  <1>9. ASSUME NEW p \in Requests \ {r} PROVE OthersTickets(p)' = OthersTickets(p)
    BY <1>2, <1>4, <1>6 DEF OthersTickets
  <1>10. OthersTickets(r)' = TicketsOf(e)
    BY <1>2, <1>4, <1>6 DEF OthersTickets, TicketsOf
  <1>11. sold[e] <= Cardinality(TicketsOf(e)) /\ Cardinality(TicketsOf(e)) \in Nat
    BY <1>3, RowSetsFinite DEF CountInv, SoldNeverOverstated
  <1>12. LoopDone'
    BY <1>2, <1>4 DEF CountInv, LoopDone
  <1>13. OwnCounted'
    <2> SUFFICES ASSUME NEW p \in Requests
                 PROVE  /\ issued[p] <= Cardinality(OwnTickets(p))
                        /\ pc'[p] = "publishCreated" =>
                               issued[p] + 1 <= Cardinality(OwnTickets(p))
      BY <1>2, <1>8 DEF OwnCounted
    <2> QED BY <1>4 DEF CountInv, OwnCounted
  <1>14. OthersCounted'
    <2> SUFFICES ASSUME NEW p \in Requests, pc'[p] \in Working
                 PROVE  reserved'[p] <= quantity'[p] + Cardinality(OthersTickets(p)')
      BY DEF OthersCounted, Working
    <2>1. CASE p = r
      <3>1. PurchaseReserved(r, e, q)
        BY <1>3, <2>1 DEF BeginPurchase, GetEventFails, PurchaseNotFound, PurchaseRefused,
                    PurchaseWithoutEmail, Arrive, Working
      <3>2. reserved'[r] = sold[e] + q
        BY <1>3, <3>1 DEF PurchaseReserved
      <3>3. Cardinality(OthersTickets(r)') = Cardinality(TicketsOf(e))
        BY <1>10
      <3> QED BY <1>3, <1>4, <1>11, <2>1, <3>2, <3>3
    <2>2. CASE p # r
      <3>1. reserved'[p] = reserved[p]
        BY <1>3, <2>2 DEF BeginPurchase, GetEventFails, PurchaseNotFound, PurchaseRefused,
                    PurchaseWithoutEmail, PurchaseReserved
      <3>2. pc[p] \in Working /\ quantity'[p] = quantity[p]
        BY <1>4, <2>2 DEF Working
      <3> QED BY <1>9, <2>2, <3>1, <3>2 DEF CountInv, OthersCounted
    <2> QED BY <2>1, <2>2
  <1>15. next = "conflict409" => capacity[e] > 0 /\ ~CanReserve(e, q)
    BY <1>2, <1>3, <1>4 DEF BeginPurchase, GetEventFails, PurchaseNotFound, PurchaseRefused,
           PurchaseWithoutEmail, PurchaseReserved, Arrive, Exists
  <1>16. RefusedKnown'
    BY <1>2, <1>4, <1>15 DEF CountInv, RefusedKnown
  <1>17. SoldNeverOverstated'
    BY <1>2, <1>7 DEF CountInv, SoldNeverOverstated
  <1>18. RefusalIsTruthful'
    <2> SUFFICES ASSUME NEW p \in Requests, pc'[p] = "conflict409", quantity'[p] > 0
                 PROVE  Cardinality(TicketsOf(event'[p])) + quantity'[p] > capacity[event'[p]]
      BY <1>2, <1>7 DEF RefusalIsTruthful
    <2>1. CASE p = r
      <3>1. ~(capacity[e] - sold[e] >= q)
        BY <1>4, <1>15, <2>1 DEF CanReserve, HasAvailableTickets, AvailableTickets
      <3> QED BY <1>3, <1>4, <1>11, <2>1, <3>1
    <2>2. CASE p # r
      BY <1>4, <2>2 DEF CountInv, RefusalIsTruthful
    <2> QED BY <2>1, <2>2
  <1>19. IsFiniteSet(tickets')
    BY <1>2, <1>3
  <1> QED BY <1>12, <1>13, <1>14, <1>16, <1>17, <1>18, <1>19 DEF CountInv

LEMMA NextCountInv == CapacityInv /\ IssueInv /\ CountInv /\ [Next]_vars => CountInv'
  <1> SUFFICES ASSUME CapacityInv, IssueInv, CountInv, [Next]_vars PROVE CountInv'
    OBVIOUS
  <1>1. ASSUME NEW e \in Events, CreateEvent(e) PROVE CountInv'
    <2>1. /\ capacity[e] = 0
          /\ \A f \in Events \ {e} : capacity'[f] = capacity[f] /\ sold'[f] = sold[f]
          /\ sold'[e] = 0
      BY <1>1 DEF CreateEvent, CapacityInv, TypeOK
    <2>2. UNCHANGED <<tickets, pc, event, quantity, reserved, issued>>
      BY <1>1 DEF CreateEvent, request
    <2>3. /\ \A p : OwnTickets(p)' = OwnTickets(p) /\ OthersTickets(p)' = OthersTickets(p)
          /\ \A f : TicketsOf(f)' = TicketsOf(f)
      BY <2>2 DEF OwnTickets, OthersTickets, TicketsOf
    <2>4. SoldNeverOverstated'
      <3>1. Cardinality(TicketsOf(e)) \in Nat
        BY RowSetsFinite DEF CountInv
      <3> QED BY <2>1, <2>3, <3>1 DEF CountInv, SoldNeverOverstated
    <2>5. RefusedKnown' /\ RefusalIsTruthful'
      <3>1. ASSUME NEW p \in Requests, pc[p] = "conflict409"
            PROVE  event[p] # e /\ event[p] \in Events
        BY <2>1, <3>1 DEF CountInv, RefusedKnown, CapacityInv, TypeOK
      <3> QED BY <2>1, <2>2, <2>3, <3>1 DEF CountInv, RefusedKnown, RefusalIsTruthful
    <2>6. LoopDone' /\ OwnCounted' /\ OthersCounted' /\ IsFiniteSet(tickets')
      BY <2>2, <2>3 DEF CountInv, LoopDone, OwnCounted, OthersCounted, Working
    <2> QED BY <2>4, <2>5, <2>6 DEF CountInv
  <1>2. ASSUME NEW r \in Requests, NEW e \in Events, NEW q \in 0 .. MaxQuantity,
               BeginPurchase(r, e, q)
        PROVE  CountInv'
    BY <1>2, BeginCountInv
  <1>3. ASSUME NEW r \in Requests, PurchaseStep(r) PROVE CountInv'
    BY <1>3, StepCountInv
  <1>4. CASE Disconnect \/ Restart \/ UNCHANGED vars
    <2>1. UNCHANGED <<capacity, sold, tickets, event, quantity, reserved, issued>>
      BY <1>4 DEF Disconnect, Restart, vars, database, broker, request
    <2>2. \A p \in Requests : pc'[p] = pc[p] \/ pc'[p] = "lost"
      BY <1>4 DEF Disconnect, Restart, vars, CapacityInv, TypeOK
    <2>3. /\ \A p : OwnTickets(p)' = OwnTickets(p) /\ OthersTickets(p)' = OthersTickets(p)
          /\ \A f : TicketsOf(f)' = TicketsOf(f)
      BY <2>1 DEF OwnTickets, OthersTickets, TicketsOf
    <2>4. LoopDone' /\ OwnCounted' /\ OthersCounted' /\ IsFiniteSet(tickets')
      BY <2>1, <2>2, <2>3 DEF CountInv, LoopDone, OwnCounted, OthersCounted, Working
    <2>5. RefusedKnown' /\ SoldNeverOverstated' /\ RefusalIsTruthful'
      BY <2>1, <2>2, <2>3 DEF CountInv, RefusedKnown, SoldNeverOverstated, RefusalIsTruthful
    <2> QED BY <2>4, <2>5 DEF CountInv
  <1> QED BY <1>1, <1>2, <1>3, <1>4 DEF Next

THEOREM CountInvariance == Spec => []CountInv
  BY InitCountInv, NextCountInv, CapacityInvariance, IssueInvariance, PTL DEF Spec

\* The sold count never exceeds the tickets issued (service.go:113-138): lost
\* updates and failed purchases can only make it too small.
THEOREM SoldCovered == Spec => []SoldNeverOverstated
  BY CountInvariance, PTL DEF CountInv

\* A 409 for want of tickets is true of the tickets issued (event.go:173).
THEOREM RefusalsTruthful == Spec => []RefusalIsTruthful
  BY CountInvariance, PTL DEF CountInv
=============================================================================
