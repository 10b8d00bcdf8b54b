----------------------- MODULE PurchaseServiceProofs -----------------------
(***************************************************************************)
(* Theorems about PurchaseService for any events, requests, bounds and     *)
(* faults.                                                                 *)
(***************************************************************************)
EXTENDS PurchaseService, TLAPS

\* What a request has done so far is fixed by its next call.
Progress ==
    \A r \in Requests :
        /\ pc[r] \in {"idle", "addPurchase"} => issued[r] = 0
        /\ pc[r] = "addPurchase" => quantity[r] > 0
        /\ pc[r] \in {"addTicket", "publishCreated"} => issued[r] < quantity[r]

\* The event a request holds in memory has a row, whose capacity it respects.
ReservedFits ==
    \A r \in Requests :
        pc[r] \in Working => /\ capacity[event[r]] > 0
                             /\ reserved[r] <= capacity[event[r]]

CapacityInv == TypeOK /\ Progress /\ ReservedFits /\ SoldWithinCapacity

-----------------------------------------------------------------------------
(* Type correctness and the capacity bound                                 *)

LEMMA InitCapacityInv == Init => CapacityInv
  <1> SUFFICES ASSUME Init PROVE CapacityInv
    OBVIOUS
  <1> USE PurchaseAssumption DEF Init, ServiceInit
  <1>1. TypeOK
    <2>1. (CHOOSE e \in Events : TRUE) \in Events
      OBVIOUS
    <2> QED BY <2>1 DEF TypeOK, PCs
  <1>2. Progress /\ ReservedFits /\ SoldWithinCapacity
    BY DEF Progress, ReservedFits, SoldWithinCapacity, Working
  <1> QED BY <1>1, <1>2 DEF CapacityInv

\* One step of a request that is being served.
LEMMA StepCapacityInv ==
  ASSUME CapacityInv, NEW r \in Requests, PurchaseStep(r)
  PROVE  CapacityInv'
  <1> USE PurchaseAssumption DEF CapacityInv, TypeOK, Progress, ReservedFits,
          SoldWithinCapacity, PCs, Working, Replies, Goto, database, broker
  <1>1. CASE AddPurchase(r)
    BY <1>1 DEF AddPurchase
  <1>2. CASE AddPurchaseFails(r)
    BY <1>2 DEF AddPurchaseFails
  <1>3. CASE AddTicket(r)
    BY <1>3 DEF AddTicket, NextTicket, TicketIds
  <1>4. CASE AddTicketFails(r)
    <2>1. tickets' \subseteq TicketIds
      <3>1. issued[r] + 1 \in 1 .. MaxQuantity
        BY <1>4 DEF AddTicketFails
      <3> QED BY <1>4, <3>1 DEF AddTicketFails, NextTicket, TicketIds
    <2> QED BY <1>4, <2>1 DEF AddTicketFails
  <1>5. CASE PublishCreated(r)
    BY <1>5 DEF PublishCreated, NextTicket, TicketIds
  <1>6. CASE UpdateEvent(r)
    BY <1>6 DEF UpdateEvent
  <1>7. CASE UpdateEventFails(r)
    BY <1>7 DEF UpdateEventFails
  <1>8. CASE PublishCompleted(r)
    BY <1>8 DEF PublishCompleted
  <1>9. CASE PublishFails(r)
    BY <1>9 DEF PublishFails
  <1>10. CASE RespondCreated(r)
    BY <1>10 DEF RespondCreated
  <1> QED BY <1>1, <1>2, <1>3, <1>4, <1>5, <1>6, <1>7, <1>8, <1>9, <1>10 DEF PurchaseStep

LEMMA BeginCapacityInv ==
  ASSUME CapacityInv, NEW r \in Requests, NEW e \in Events,
         NEW q \in 0 .. MaxQuantity, BeginPurchase(r, e, q)
  PROVE  CapacityInv'
  <1> USE PurchaseAssumption DEF CapacityInv, TypeOK, Progress, ReservedFits,
          SoldWithinCapacity, PCs, Working, Replies, Arrive, database, broker
  <1>1. CASE GetEventFails(r, e, q) \/ PurchaseNotFound(r, e, q)
             \/ PurchaseRefused(r, e, q) \/ PurchaseWithoutEmail(r, e, q)
    BY <1>1 DEF GetEventFails, PurchaseNotFound, PurchaseRefused, PurchaseWithoutEmail
  <1>2. CASE PurchaseReserved(r, e, q)
    BY <1>2 DEF PurchaseReserved, Exists, CanReserve, HasAvailableTickets, AvailableTickets
  <1> QED BY <1>1, <1>2 DEF BeginPurchase

LEMMA NextCapacityInv == CapacityInv /\ [Next]_vars => CapacityInv'
  <1> SUFFICES ASSUME CapacityInv, [Next]_vars PROVE CapacityInv'
    OBVIOUS
  <1> USE PurchaseAssumption
  <1>1. ASSUME NEW e \in Events, CreateEvent(e) PROVE CapacityInv'
    BY <1>1 DEF CreateEvent, CapacityInv, TypeOK, Progress, ReservedFits,
                SoldWithinCapacity, broker, request
  <1>2. ASSUME NEW r \in Requests, NEW e \in Events, NEW q \in 0 .. MaxQuantity,
               BeginPurchase(r, e, q)
        PROVE  CapacityInv'
    BY <1>2, BeginCapacityInv
  <1>3. ASSUME NEW r \in Requests, PurchaseStep(r) PROVE CapacityInv'
    BY <1>3, StepCapacityInv
  <1>4. CASE Disconnect
    BY <1>4 DEF Disconnect, CapacityInv, TypeOK, Progress, ReservedFits,
                SoldWithinCapacity, database, broker, request
  <1>5. CASE Restart
    BY <1>5 DEF Restart, CapacityInv, TypeOK, Progress, ReservedFits, SoldWithinCapacity,
                database, broker, request, PCs, Working, InFlight
  <1>6. CASE UNCHANGED vars
    BY <1>6 DEF vars, CapacityInv, TypeOK, Progress, ReservedFits, SoldWithinCapacity,
                database, broker, request
  <1> QED BY <1>1, <1>2, <1>3, <1>4, <1>5, <1>6 DEF Next

THEOREM CapacityInvariance == Spec => []CapacityInv
  BY InitCapacityInv, NextCapacityInv, PTL DEF Spec

\* The variables of Purchase keep their types: in particular the ticket loop
\* never issues more than the quantity asked for.
THEOREM PurchaseTypeCorrect == Spec => []TypeOK
  BY CapacityInvariance, PTL DEF CapacityInv

\* events.sold_count never passes events.capacity (service.go:89-136), for any
\* number of overlapping purchases and any failures among them.
THEOREM CapacityRespected == Spec => []SoldWithinCapacity
  BY CapacityInvariance, PTL DEF CapacityInv

-----------------------------------------------------------------------------
(* Purchase implements TicketIssue                                         *)

\* The announced tickets of a request are its first issued[r] ones; they have
\* rows; one more row may exist, whose announcement is next or was given up;
\* purchase.completed comes last.
IssueInv ==
    \A r \in Requests :
        /\ \A i \in 1 .. MaxQuantity :
            /\ <<r, i>> \in announced <=> i <= issued[r]
            /\ i <= issued[r] => <<r, i>> \in tickets
            /\ <<r, i>> \in tickets /\ i > issued[r] =>
                   /\ i = issued[r] + 1
                   /\ pc[r] \in {"publishCreated", "error500", "lost"}
                   /\ r \notin completed
        /\ pc[r] = "publishCreated" => NextTicket(r) \in tickets
        /\ r \in completed => pc[r] \in {"respond", "created201", "lost"}

LEMMA InitIssueInv == Init => IssueInv
  BY PurchaseAssumption DEF Init, ServiceInit, IssueInv

\* A new row is the next ticket of its request, not announced yet.
LEMMA AddTicketIssueInv ==
  ASSUME CapacityInv, IssueInv, NEW r \in Requests, AddTicket(r) \/ AddTicketFails(r)
  PROVE  IssueInv'
  <1>1. /\ tickets' = tickets \/ tickets' = tickets \cup {<<r, issued[r] + 1>>}
        /\ announced' = announced /\ completed' = completed /\ issued' = issued
        /\ pc[r] = "addTicket"
        /\ pc'[r] \in {"publishCreated", "error500"}
        /\ \A p \in Requests \ {r} : pc'[p] = pc[p]
        /\ pc'[r] = "publishCreated" => <<r, issued[r] + 1>> \in tickets'
    BY DEF AddTicket, AddTicketFails, Goto, broker, NextTicket, CapacityInv, TypeOK
  <1>2. issued \in [Requests -> Nat]
    BY DEF CapacityInv, TypeOK
  <1>3. ASSUME NEW i \in 1 .. MaxQuantity
        PROVE  /\ <<r, i>> \in announced' <=> i <= issued'[r]
               /\ i <= issued'[r] => <<r, i>> \in tickets'
               /\ <<r, i>> \in tickets' /\ i > issued'[r] =>
                      /\ i = issued'[r] + 1
                      /\ pc'[r] \in {"publishCreated", "error500", "lost"}
    <2>1. <<r, i>> \in tickets' => <<r, i>> \in tickets \/ i = issued[r] + 1
      BY <1>1
    <2> QED BY <1>1, <2>1 DEF IssueInv
  <1>4. ASSUME NEW p \in Requests \ {r}
        PROVE  /\ \A i \in 1 .. MaxQuantity : <<p, i>> \in tickets' <=> <<p, i>> \in tickets
               /\ NextTicket(p)' = NextTicket(p)
               /\ NextTicket(p) \in tickets => NextTicket(p) \in tickets'
    BY <1>1 DEF NextTicket
  <1>5. NextTicket(r)' = <<r, issued[r] + 1>>
    BY <1>1 DEF NextTicket
  <1>6. r \notin completed
    BY <1>1 DEF IssueInv
  <1>7. ASSUME NEW p \in Requests
        PROVE  /\ \A i \in 1 .. MaxQuantity :
                    /\ <<p, i>> \in announced' <=> i <= issued'[p]
                    /\ i <= issued'[p] => <<p, i>> \in tickets'
                    /\ <<p, i>> \in tickets' /\ i > issued'[p] =>
                           /\ i = issued'[p] + 1
                           /\ pc'[p] \in {"publishCreated", "error500", "lost"}
                           /\ p \notin completed'
               /\ pc'[p] = "publishCreated" => NextTicket(p)' \in tickets'
               /\ p \in completed' => pc'[p] \in {"respond", "created201", "lost"}
    <2>1. CASE p = r
      BY <1>1, <1>3, <1>5, <1>6, <2>1
    <2>2. CASE p # r
      BY <1>1, <1>4, <2>2 DEF IssueInv
    <2> QED BY <2>1, <2>2
  <1> QED BY <1>7 DEF IssueInv

\* The announced ticket is the row just added.
LEMMA PublishCreatedIssueInv ==
  ASSUME CapacityInv, IssueInv, NEW r \in Requests, PublishCreated(r)
  PROVE  IssueInv'
  <1>1. /\ tickets' = tickets /\ completed' = completed
        /\ announced' = announced \cup {<<r, issued[r] + 1>>}
        /\ issued'[r] = issued[r] + 1
        /\ pc[r] = "publishCreated" /\ pc'[r] \in {"addTicket", "updateEvent"}
        /\ \A p \in Requests \ {r} : pc'[p] = pc[p] /\ issued'[p] = issued[p]
    BY DEF PublishCreated, Goto, database, NextTicket, CapacityInv, TypeOK
  <1>2. issued \in [Requests -> Nat]
    BY DEF CapacityInv, TypeOK
  <1>3. ASSUME NEW i \in 1 .. MaxQuantity
        PROVE  /\ <<r, i>> \in announced' <=> i <= issued[r] + 1
               /\ i <= issued[r] + 1 => <<r, i>> \in tickets
               /\ <<r, i>> \in tickets => i <= issued[r] + 1
    <2>1. <<r, i>> \in announced' <=> <<r, i>> \in announced \/ i = issued[r] + 1
      BY <1>1
    <2>2. i = issued[r] + 1 => <<r, i>> \in tickets
      BY <1>1 DEF IssueInv, NextTicket
    <2> QED BY <1>1, <1>2, <2>1, <2>2 DEF IssueInv
  <1>4. ASSUME NEW p \in Requests \ {r}
        PROVE  /\ \A i \in 1 .. MaxQuantity : <<p, i>> \in announced' <=> <<p, i>> \in announced
               /\ NextTicket(p)' = NextTicket(p)
    BY <1>1 DEF NextTicket
  <1>5. r \notin completed
    BY <1>1 DEF IssueInv
  <1>6. ASSUME NEW p \in Requests
        PROVE  /\ \A i \in 1 .. MaxQuantity :
                    /\ <<p, i>> \in announced' <=> i <= issued'[p]
                    /\ i <= issued'[p] => <<p, i>> \in tickets'
                    /\ <<p, i>> \in tickets' /\ i > issued'[p] =>
                           /\ i = issued'[p] + 1
                           /\ pc'[p] \in {"publishCreated", "error500", "lost"}
                           /\ p \notin completed'
               /\ pc'[p] = "publishCreated" => NextTicket(p)' \in tickets'
               /\ p \in completed' => pc'[p] \in {"respond", "created201", "lost"}
    <2>1. CASE p = r
      BY <1>1, <1>2, <1>3, <1>5, <2>1
    <2>2. CASE p # r
      BY <1>1, <1>4, <2>2 DEF IssueInv
    <2> QED BY <2>1, <2>2
  <1> QED BY <1>6 DEF IssueInv

LEMMA StepIssueInv ==
  ASSUME CapacityInv, IssueInv, NEW r \in Requests, PurchaseStep(r)
  PROVE  IssueInv'
  <1> USE PurchaseAssumption DEF CapacityInv, TypeOK, Progress, IssueInv, PCs, Working,
          Replies, Goto, database, broker, NextTicket
  <1>1. CASE AddPurchase(r)
    BY <1>1 DEF AddPurchase
  <1>2. CASE AddPurchaseFails(r)
    BY <1>2 DEF AddPurchaseFails
  <1>3. CASE AddTicket(r) \/ AddTicketFails(r)
    BY <1>3, AddTicketIssueInv
  <1>5. CASE PublishCreated(r)
    BY <1>5, PublishCreatedIssueInv
  <1>6. CASE UpdateEvent(r)
    BY <1>6 DEF UpdateEvent
  <1>7. CASE UpdateEventFails(r)
    BY <1>7 DEF UpdateEventFails
  <1>8. CASE PublishCompleted(r)
    BY <1>8 DEF PublishCompleted
  <1>9. CASE PublishFails(r)
    BY <1>9 DEF PublishFails
  <1>10. CASE RespondCreated(r)
    BY <1>10 DEF RespondCreated
  <1> QED BY <1>1, <1>2, <1>3, <1>5, <1>6, <1>7, <1>8, <1>9, <1>10 DEF PurchaseStep

\* An arriving request has issued nothing and writes nothing.
LEMMA BeginIssueInv ==
  ASSUME CapacityInv, IssueInv, NEW r \in Requests, NEW e \in Events,
         NEW q \in 0 .. MaxQuantity, BeginPurchase(r, e, q)
  PROVE  IssueInv'
  <1>1. PICK next \in {"error500", "notFound404", "conflict409", "addPurchase"} :
            Arrive(r, e, q, next)
    BY DEF BeginPurchase, GetEventFails, PurchaseNotFound, PurchaseRefused,
           PurchaseWithoutEmail, PurchaseReserved
  <1> QED BY <1>1 DEF Arrive, CapacityInv, TypeOK, Progress, IssueInv, NextTicket,
                      database, broker

LEMMA NextIssueInv == CapacityInv /\ IssueInv /\ [Next]_vars => IssueInv'
  <1> SUFFICES ASSUME CapacityInv, IssueInv, [Next]_vars PROVE IssueInv'
    OBVIOUS
  <1>1. ASSUME NEW r \in Requests, NEW e \in Events, NEW q \in 0 .. MaxQuantity,
               BeginPurchase(r, e, q)
        PROVE  IssueInv'
    BY <1>1, BeginIssueInv
  <1>2. ASSUME NEW r \in Requests, PurchaseStep(r) PROVE IssueInv'
    BY <1>2, StepIssueInv
  <1>3. CASE Restart
    BY <1>3 DEF Restart, IssueInv, CapacityInv, TypeOK, NextTicket, InFlight, Working,
                database, broker, request
  <1>4. CASE (\E e \in Events : CreateEvent(e)) \/ Disconnect \/ UNCHANGED vars
    BY <1>4 DEF CreateEvent, Disconnect, vars, database, broker, request, IssueInv,
                NextTicket
  <1> QED BY <1>1, <1>2, <1>3, <1>4 DEF Next

THEOREM IssueInvariance == Spec => []IssueInv
  BY InitIssueInv, NextIssueInv, CapacityInvariance, PTL DEF Spec

\* A step of the service is one step of TicketIssue, or none of its business.
LEMMA StepRefinesIssue ==
  CapacityInv /\ IssueInv /\ [Next]_vars => [Issue!IssueNext]_Issue!issueVars
  <1> SUFFICES ASSUME CapacityInv, IssueInv, [Next]_vars
               PROVE  [Issue!IssueNext]_Issue!issueVars
    OBVIOUS
  <1> USE PurchaseAssumption
  <1>1. CASE UNCHANGED <<tickets, announced, completed>>
    BY <1>1 DEF Issue!issueVars
  <1>2. ASSUME NEW r \in Requests, AddTicket(r) \/ AddTicketFails(r),
               tickets' = tickets \cup {NextTicket(r)}
        PROVE  Issue!Persist(NextTicket(r))
    <2>1. NextTicket(r) \in TicketIds \ tickets
      BY <1>2 DEF AddTicket, AddTicketFails, Goto, CapacityInv, TypeOK, Progress,
                  IssueInv, NextTicket, TicketIds
    <2>2. r \notin completed
      BY <1>2 DEF AddTicket, AddTicketFails, Goto, IssueInv
    <2>3. announced' = announced /\ completed' = completed
      BY <1>2 DEF AddTicket, AddTicketFails, broker
    <2>4. NextTicket(r)[1] = r
      BY DEF NextTicket
    <2> QED BY <1>2, <2>1, <2>2, <2>3, <2>4 DEF Issue!Persist
  <1>3. ASSUME NEW r \in Requests, PublishCreated(r)
        PROVE  Issue!Announce(NextTicket(r))
    <2>1. NextTicket(r) \in tickets \ announced
      BY <1>3 DEF PublishCreated, Goto, CapacityInv, TypeOK, Progress, IssueInv, NextTicket
    <2> QED BY <1>3, <2>1 DEF PublishCreated, database, Issue!Announce
  <1>4. ASSUME NEW r \in Requests, PublishCompleted(r)
        PROVE  \E S \in SUBSET TicketIds : Issue!Complete(S)
    <2> DEFINE own == {t \in tickets : t[1] = r}
               done == {t \in tickets : t[1] \in completed}
    <2>1. own \subseteq announced
      <3> SUFFICES ASSUME NEW t \in tickets, t[1] = r PROVE t \in announced
        OBVIOUS
      <3>1. PICK i \in 1 .. MaxQuantity : t = <<r, i>>
        BY DEF CapacityInv, TypeOK, TicketIds
      <3> QED BY <1>4, <3>1 DEF PublishCompleted, Goto, IssueInv, CapacityInv, TypeOK
    <2>2. own \in SUBSET TicketIds
      BY DEF CapacityInv, TypeOK
    <2>3. done' = done \cup own
      BY <1>4 DEF PublishCompleted, database
    <2>4. tickets' = tickets /\ announced' = announced
      BY <1>4 DEF PublishCompleted, database
    <2> HIDE DEF own
    <2> QED BY <2>1, <2>2, <2>3, <2>4 DEF Issue!Complete
  <1>6. ASSUME NEW r \in Requests, PurchaseStep(r)
        PROVE  [Issue!IssueNext]_Issue!issueVars
    <2>1. CASE AddTicket(r) \/ (AddTicketFails(r) /\ tickets' # tickets)
      <3>1. Issue!Persist(NextTicket(r))
        BY <2>1, <1>2 DEF AddTicket, AddTicketFails
      <3> QED BY <3>1 DEF Issue!IssueNext, Issue!Persist
    <2>2. CASE PublishCreated(r)
      <3>1. Issue!Announce(NextTicket(r)) /\ NextTicket(r) \in TicketIds
        BY <2>2, <1>3 DEF Issue!Announce, CapacityInv, TypeOK
      <3> QED BY <3>1 DEF Issue!IssueNext
    <2>3. CASE PublishCompleted(r)
      BY <2>3, <1>4 DEF Issue!IssueNext
    <2>4. CASE AddPurchase(r) \/ AddPurchaseFails(r) \/ UpdateEvent(r) \/ UpdateEventFails(r)
               \/ PublishFails(r) \/ RespondCreated(r)
               \/ (AddTicketFails(r) /\ tickets' = tickets)
      BY <2>4, <1>1 DEF AddPurchase, AddPurchaseFails, UpdateEvent, UpdateEventFails,
                        PublishFails, RespondCreated, AddTicketFails, database, broker
    <2> QED BY <1>6, <2>1, <2>2, <2>3, <2>4 DEF PurchaseStep
  <1>7. CASE UNCHANGED vars \/ Disconnect \/ Restart \/ (\E e \in Events : CreateEvent(e))
             \/ (\E r \in Requests, e \in Events, q \in 0 .. MaxQuantity : BeginPurchase(r, e, q))
    BY <1>7, <1>1 DEF vars, Disconnect, Restart, CreateEvent, BeginPurchase, GetEventFails,
                      PurchaseNotFound, PurchaseRefused, PurchaseWithoutEmail,
                      PurchaseReserved, Arrive, database, broker
  <1> QED BY <1>6, <1>7 DEF Next

\* Every run of the service is a run of TicketIssue: rows before ticket.created
\* (service.go:119, 127), all of them before purchase.completed (140).
THEOREM PurchaseImplementsTicketIssue == Spec => ImplementsTicketIssue
  <1>1. Init => Issue!IssueInit
    BY DEF Init, ServiceInit, Issue!IssueInit
  <1> QED BY <1>1, StepRefinesIssue, CapacityInvariance, IssueInvariance, PTL
          DEF Spec, ImplementsTicketIssue, Issue!IssueSpec

\* What TicketIssue means for whoever hears of a ticket: the buyer is told of none
\* that the validator was not told of, nor anybody of one without a row, and nothing
\* is taken back (service.go:113-155).
THEOREM IssueKeepsOrder ==
  Issue!IssueSpec =>
      /\ []({t \in tickets : t[1] \in completed} \subseteq announced /\ announced \subseteq tickets)
      /\ [][tickets \subseteq tickets' /\ announced \subseteq announced']_Issue!issueVars
  <1> DEFINE done == {t \in tickets : t[1] \in completed}
             Ordered == done \subseteq announced /\ announced \subseteq tickets
             Grows == tickets \subseteq tickets' /\ announced \subseteq announced'
  <1>1. Issue!IssueInit => Ordered
    BY DEF Issue!IssueInit
  <1>2. [Issue!IssueNext]_Issue!issueVars => [Grows]_Issue!issueVars
    BY DEF Issue!IssueNext, Issue!Persist, Issue!Announce, Issue!Complete, Issue!issueVars
  <1>3. Ordered /\ [Issue!IssueNext]_Issue!issueVars => Ordered'
    <2> SUFFICES ASSUME Ordered, [Issue!IssueNext]_Issue!issueVars PROVE Ordered'
      OBVIOUS
    <2>1. ASSUME NEW t, Issue!Persist(t) PROVE Ordered'
      BY <2>1 DEF Issue!Persist
    <2>2. ASSUME NEW t, Issue!Announce(t) PROVE Ordered'
      BY <2>2 DEF Issue!Announce
    <2>3. ASSUME NEW S, Issue!Complete(S) PROVE Ordered'
      BY <2>3 DEF Issue!Complete
    <2>4. CASE UNCHANGED Issue!issueVars
      BY <2>4 DEF Issue!issueVars
    <2> QED BY <2>1, <2>2, <2>3, <2>4 DEF Issue!IssueNext
  <1> QED BY <1>1, <1>2, <1>3, PTL DEF Issue!IssueSpec

-----------------------------------------------------------------------------
(* Calls run out                                                           *)

\* A request being served has a call left, and never fewer than none.
LEMMA CallsLeftType ==
  ASSUME CapacityInv, NEW r \in Requests
  PROVE  /\ CallsLeft(r) \in Nat
         /\ pc[r] \in Working => CallsLeft(r) > 0
  <1>1. quantity[r] \in Nat /\ issued[r] \in Nat
    BY PurchaseAssumption DEF CapacityInv, TypeOK
  <1>2. pc[r] \in {"addTicket", "publishCreated"} => issued[r] < quantity[r]
    BY DEF CapacityInv, Progress
  <1> QED BY <1>1, <1>2 DEF CallsLeft, Working

\* A step of a request takes one of its calls away, and leaves other requests alone.
LEMMA StepTakesCalls ==
  ASSUME CapacityInv, CapacityInv', NEW r \in Requests, PurchaseStep(r)
  PROVE  /\ pc[r] \in Working
         /\ CallsLeft(r)' < CallsLeft(r)
         /\ \A p \in Requests \ {r} :
                UNCHANGED <<pc[p], event[p], quantity[p], reserved[p], issued[p]>>
  <1> USE DEF Goto, Working
  <1>1. /\ quantity[r] \in Nat /\ issued[r] \in Nat
        /\ pc \in [Requests -> PCs] /\ issued \in [Requests -> 0 .. MaxQuantity]
    BY PurchaseAssumption DEF CapacityInv, TypeOK
  <1>2. pc[r] \in {"addTicket", "publishCreated"} => issued[r] < quantity[r]
    BY DEF CapacityInv, Progress
  <1>3. pc[r] = "addPurchase" => issued[r] = 0
    BY DEF CapacityInv, Progress
  <1>4. CASE PublishCreated(r)
    <2>1. /\ pc[r] = "publishCreated" /\ issued'[r] = issued[r] + 1
          /\ quantity'[r] = quantity[r]
          /\ pc'[r] = IF issued[r] + 1 < quantity[r] THEN "addTicket" ELSE "updateEvent"
          /\ \A p \in Requests \ {r} :
                 UNCHANGED <<pc[p], event[p], quantity[p], reserved[p], issued[p]>>
      BY <1>1, <1>4 DEF PublishCreated
    <2> QED BY <1>1, <1>2, <2>1 DEF CallsLeft
  <1>5. CASE ~PublishCreated(r)
    <2>1. PICK to \in PCs :
             /\ pc' = [pc EXCEPT ![r] = to]
             /\ UNCHANGED <<event, quantity, reserved, issued>>
             /\ \/ pc[r] \in Working /\ to = "error500"
                \/ pc[r] = "addPurchase" /\ to = "addTicket"
                \/ pc[r] = "addTicket" /\ to = "publishCreated"
                \/ pc[r] = "updateEvent" /\ to = "publishCompleted"
                \/ pc[r] = "publishCompleted" /\ to = "respond"
                \/ pc[r] = "respond" /\ to = "created201"
      BY <1>5 DEF PurchaseStep, AddPurchase, AddPurchaseFails, AddTicket, AddTicketFails,
         UpdateEvent, UpdateEventFails, PublishCompleted, PublishFails, RespondCreated,
         PCs, Replies
    <2>2. pc'[r] = to /\ \A p \in Requests \ {r} : pc'[p] = pc[p]
      BY <1>1, <2>1
    <2>3. CallsLeft(r)' < CallsLeft(r)
      <3>1. quantity'[r] = quantity[r] /\ issued'[r] = issued[r]
        BY <2>1
      <3> QED BY <1>1, <1>2, <1>3, <2>1, <2>2, <3>1 DEF CallsLeft
    <2> QED BY <2>1, <2>2, <2>3
  <1> QED BY <1>4, <1>5

LEMMA NextTakesCalls ==
  ASSUME CapacityInv, CapacityInv', [Next]_vars, NEW r \in Requests
  PROVE  \/ UNCHANGED <<pc[r], event[r], quantity[r], reserved[r], issued[r]>>
         \/ pc[r] \in Working /\ CallsLeft(r)' \in 0 .. CallsLeft(r) - 1
         \/ pc[r] = "idle"
  <1>1. CallsLeft(r) \in Nat /\ CallsLeft(r)' \in Nat /\ (pc[r] \in Working => CallsLeft(r) > 0)
    <2>1. quantity'[r] \in Nat /\ issued'[r] \in Nat
      BY PurchaseAssumption DEF CapacityInv, TypeOK
    <2>2. pc'[r] \in {"addTicket", "publishCreated"} => issued'[r] < quantity'[r]
      BY DEF CapacityInv, Progress
    <2>3. CallsLeft(r)' \in Nat
      BY <2>1, <2>2 DEF CallsLeft
    <2> QED BY <2>3, CallsLeftType
  <1>2. ASSUME NEW p \in Requests, PurchaseStep(p)
        PROVE  \/ UNCHANGED <<pc[r], event[r], quantity[r], reserved[r], issued[r]>>
               \/ pc[r] \in Working /\ CallsLeft(r)' \in 0 .. CallsLeft(r) - 1
    BY <1>1, <1>2, StepTakesCalls
  <1>3. ASSUME NEW p \in Requests, NEW e \in Events, NEW q \in 0 .. MaxQuantity,
               BeginPurchase(p, e, q)
        PROVE  \/ UNCHANGED <<pc[r], event[r], quantity[r], reserved[r], issued[r]>>
               \/ pc[r] = "idle"
    BY <1>3 DEF BeginPurchase, GetEventFails, PurchaseNotFound, PurchaseRefused,
       PurchaseWithoutEmail, PurchaseReserved, Arrive, CapacityInv, TypeOK
  <1>4. CASE Restart
    <2>1. pc'[r] = IF pc[r] \in Working THEN "lost" ELSE pc[r]
      BY <1>4 DEF Restart, InFlight
    <2>2. pc[r] \in Working => CallsLeft(r)' = 0
      BY <2>1 DEF CallsLeft
    <2> QED BY <1>1, <1>4, <2>1, <2>2 DEF Restart, request
  <1>5. CASE (\E e \in Events : CreateEvent(e)) \/ Disconnect \/ UNCHANGED vars
    BY <1>5 DEF CreateEvent, Disconnect, vars, request
  <1> QED BY <1>2, <1>3, <1>4, <1>5 DEF Next

\* No purchase of n tickets makes more than 2n + 3 calls before its reply
\* (service.go:89-155): a request in flight only comes closer to it.
THEOREM CallsRunOut == Spec => EveryCallCounts
  <1>1. CapacityInv /\ CapacityInv' /\ [Next]_vars =>
          [\A r \in Requests :
             \/ UNCHANGED <<pc[r], event[r], quantity[r], reserved[r], issued[r]>>
             \/ pc[r] \in Working /\ CallsLeft(r)' \in 0 .. CallsLeft(r) - 1
             \/ pc[r] = "idle"]_vars
    BY NextTakesCalls
  <1> QED BY <1>1, CapacityInvariance, PTL DEF Spec, EveryCallCounts

-----------------------------------------------------------------------------
(* A purchase that is completed is whole                                   *)

\* A request has its purchase row from addPurchase on, and all its tickets once it
\* leaves the ticket loop, also if it is lost after purchase.completed; the reply
\* comes after that message.
WholeInv ==
    \A r \in Requests :
        /\ pc[r] \in {"addTicket", "publishCreated", "updateEvent", "publishCompleted"} =>
               r \in purchases
        /\ pc[r] \in {"updateEvent", "publishCompleted"} => issued[r] = quantity[r]
        /\ pc[r] \in {"respond", "created201"} => r \in completed
        /\ r \in completed => r \in purchases /\ issued[r] = quantity[r]

LEMMA InitWholeInv == Init => WholeInv
  BY DEF Init, ServiceInit, WholeInv

LEMMA NextWholeInv == CapacityInv /\ IssueInv /\ WholeInv /\ [Next]_vars => WholeInv'
  <1> SUFFICES ASSUME CapacityInv, IssueInv, WholeInv, [Next]_vars PROVE WholeInv'
    OBVIOUS
  <1>1. ASSUME NEW r \in Requests, PurchaseStep(r) PROVE WholeInv'
    <2> USE PurchaseAssumption DEF CapacityInv, TypeOK, Progress, WholeInv, Goto, database,
            broker
    <2>1. CASE AddPurchase(r) \/ AddPurchaseFails(r)
      BY <2>1 DEF AddPurchase, AddPurchaseFails
    <2>2. CASE AddTicket(r) \/ AddTicketFails(r)
      BY <2>2 DEF AddTicket, AddTicketFails
    <2>3. CASE PublishCreated(r)
      BY <2>3 DEF PublishCreated
    <2>4. CASE UpdateEvent(r) \/ UpdateEventFails(r)
      BY <2>4 DEF UpdateEvent, UpdateEventFails
    <2>5. CASE PublishCompleted(r)
      BY <2>5 DEF PublishCompleted
    <2>6. CASE PublishFails(r) \/ RespondCreated(r)
      BY <2>6 DEF PublishFails, RespondCreated
    <2> QED BY <1>1, <2>1, <2>2, <2>3, <2>4, <2>5, <2>6 DEF PurchaseStep
  <1>2. ASSUME NEW r \in Requests, NEW e \in Events, NEW q \in 0 .. MaxQuantity,
               BeginPurchase(r, e, q)
        PROVE  WholeInv'
    <2>1. PICK next \in {"error500", "notFound404", "conflict409", "addPurchase"} :
              Arrive(r, e, q, next)
      BY <1>2 DEF BeginPurchase, GetEventFails, PurchaseNotFound, PurchaseRefused,
         PurchaseWithoutEmail, PurchaseReserved
    <2> QED BY <2>1 DEF Arrive, CapacityInv, TypeOK, IssueInv, WholeInv, database, broker
  <1>3. CASE Restart
    BY <1>3 DEF Restart, CapacityInv, TypeOK, WholeInv, database, broker, request
  <1>4. CASE (\E e \in Events : CreateEvent(e)) \/ Disconnect \/ UNCHANGED vars
    BY <1>4 DEF CreateEvent, Disconnect, vars, WholeInv, database, broker, request
  <1> QED BY <1>1, <1>2, <1>3, <1>4 DEF Next

THEOREM WholeInvariance == Spec => []WholeInv
  BY InitWholeInv, NextWholeInv, CapacityInvariance, IssueInvariance, PTL DEF Spec

\* A buyer who is told of a purchase, by a mail or by a 201, has what was asked for,
\* and a 201 means that the mail is on its way (service.go:113-155,
\* ticket_handler.go:227-251).
THEOREM CreatedPurchasesWhole == Spec => []CreatedIsWhole
  <1>1. ASSUME CapacityInv, IssueInv, WholeInv PROVE CreatedIsWhole
    <2> SUFFICES ASSUME NEW r \in Requests
                 PROVE  /\ pc[r] = "created201" => r \in completed
                        /\ r \in completed =>
                             /\ pc[r] \in {"respond", "created201", "lost"}
                             /\ r \in purchases
                             /\ {t \in tickets : t[1] = r} = {r} \X (1 .. quantity[r])
                             /\ {r} \X (1 .. quantity[r]) \subseteq announced
      BY DEF CreatedIsWhole
    <2>1. /\ pc[r] = "created201" => r \in completed
          /\ r \in completed => pc[r] \in {"respond", "created201", "lost"}
      BY <1>1 DEF IssueInv, WholeInv
    <2> SUFFICES ASSUME r \in completed
                 PROVE  /\ r \in purchases
                        /\ {t \in tickets : t[1] = r} = {r} \X (1 .. quantity[r])
                        /\ {r} \X (1 .. quantity[r]) \subseteq announced
      BY <2>1
    <2>2. /\ r \in purchases
          /\ issued[r] = quantity[r] /\ quantity[r] \in 0 .. MaxQuantity
      BY <1>1 DEF WholeInv, CapacityInv, TypeOK
    <2>3. \A i \in 1 .. MaxQuantity :
              /\ <<r, i>> \in announced <=> i <= quantity[r]
              /\ <<r, i>> \in tickets <=> i <= quantity[r]
      BY <1>1, <2>2 DEF IssueInv
    <2>4. {t \in tickets : t[1] = r} \subseteq {r} \X (1 .. quantity[r])
      <3> SUFFICES ASSUME NEW t \in tickets, t[1] = r
                   PROVE  t \in {r} \X (1 .. quantity[r])
        OBVIOUS
      <3>1. PICK i \in 1 .. MaxQuantity : t = <<r, i>>
        BY <1>1 DEF CapacityInv, TypeOK, TicketIds
      <3>2. i <= quantity[r]
        BY <2>3, <3>1
      <3> QED BY <2>2, <3>1, <3>2, PurchaseAssumption
    <2>5. ASSUME NEW i \in 1 .. quantity[r]
          PROVE  <<r, i>> \in tickets /\ <<r, i>> \in announced
      BY <2>2, <2>3, PurchaseAssumption
    <2> QED BY <2>2, <2>4, <2>5
  <1> QED BY <1>1, WholeInvariance, CapacityInvariance, IssueInvariance, PTL

\* No message is sent twice: ticket.created goes out once for each ticket, after its
\* row, and purchase.completed once for each purchase, after all of them
\* (service.go:113-155).  TicketSystem and QRWorker start from this.
THEOREM PublishedOnce ==
  Spec => [][\A r \in Requests :
               /\ PublishCreated(r) => NextTicket(r) \in tickets \ announced
               /\ PublishCompleted(r) => r \notin completed]_vars
  <1>1. ASSUME CapacityInv, IssueInv, NEW r \in Requests
        PROVE  /\ PublishCreated(r) => NextTicket(r) \in tickets \ announced
               /\ PublishCompleted(r) => r \notin completed
    <2>1. ASSUME PublishCreated(r) PROVE NextTicket(r) \in tickets \ announced
      BY <1>1, <2>1, PurchaseAssumption
         DEF PublishCreated, Goto, CapacityInv, TypeOK, Progress, IssueInv, NextTicket
    <2> QED BY <1>1, <2>1 DEF PublishCompleted, Goto, IssueInv
  <1>2. CapacityInv /\ IssueInv =>
          [\A r \in Requests :
             /\ PublishCreated(r) => NextTicket(r) \in tickets \ announced
             /\ PublishCompleted(r) => r \notin completed]_vars
    BY <1>1
  <1> QED BY <1>2, CapacityInvariance, IssueInvariance, PTL
=============================================================================
