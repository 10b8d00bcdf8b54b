-------------------------- MODULE PurchaseService --------------------------
(***************************************************************************)
(* TicketService.Purchase (internal/ticket/service.go), the POST /events   *)
(* handler and the event, purchase and ticket tables they write.           *)
(*                                                                         *)
(* Every HTTP request runs in its own goroutine.  Purchase makes one       *)
(* database call or one publish at a time, with no transaction around      *)
(* them, so requests interleave between any two calls; each call is one    *)
(* action here.  The event read at the start (its sold count already       *)
(* raised by the reservation) is kept in memory and written back whole     *)
(* after the last ticket.                                                  *)
(*                                                                         *)
(* Faults: a database call may fail or have its context cancelled, with or *)
(* without having taken effect ("db"); the AMQP connection may be lost, and*)
(* nothing reopens it before a restart ("disconnect"); the process may stop*)
(* in the middle of its requests, by a crash or because main returns while *)
(* Shutdown is still draining them ("crash"), and also between the publish *)
(* of purchase.completed and the 201 that follows it.                      *)
(***************************************************************************)
EXTENDS Naturals, FiniteSets

CONSTANTS
    Events,       \* event identifiers
    Requests,     \* the POST /purchases requests ever made
    MaxCapacity,  \* bound on events.capacity
    MaxQuantity,  \* bound on the quantity of one purchase
    MaxInFlight,  \* bound on the number of requests being served at once
    Faults        \* the kinds of failure that may occur

FaultKinds == {"db", "disconnect", "crash"}

ASSUME PurchaseAssumption ==
    /\ Events # {}
    /\ MaxCapacity \in Nat \ {0}
    /\ MaxQuantity \in Nat \ {0}
    /\ MaxInFlight \in Nat \ {0}
    /\ Faults \subseteq FaultKinds

VARIABLES
    capacity,   \* [Events -> Nat]: events.capacity, 0 while there is no row
    sold,       \* [Events -> Nat]: events.sold_count
    purchases,  \* requests whose purchase row exists
    tickets,    \* ticket rows: <<r, i>> is the i-th ticket of request r
    announced,  \* tickets whose ticket.created was published
    completed,  \* requests whose purchase.completed was published
    pc,         \* per request: the next call, or the reply
    event,      \* per request: PurchaseInput.EventID
    quantity,   \* per request: PurchaseInput.Quantity
    reserved,   \* per request: the sold count of its in-memory Event
    issued,     \* per request: len(purchase.Tickets())
    channelUp   \* the AMQP channel of the process is open

database == <<capacity, sold, purchases, tickets>>
broker == <<announced, completed>>
request == <<event, quantity, reserved, issued>>
vars == <<database, broker, pc, request, channelUp>>

Working == {"addPurchase", "addTicket", "publishCreated", "updateEvent",
            "publishCompleted", "respond"}
Replies == {"created201", "notFound404", "conflict409", "error500"}

\* a request cut off by the end of the process gets no reply: "lost"
PCs == {"idle", "lost"} \cup Working \cup Replies

TicketIds == Requests \X (1 .. MaxQuantity)

TypeOK ==
    /\ capacity \in [Events -> 0 .. MaxCapacity]
    /\ sold \in [Events -> Nat]
    /\ purchases \subseteq Requests
    /\ tickets \subseteq TicketIds
    /\ announced \subseteq TicketIds
    /\ completed \subseteq Requests
    /\ pc \in [Requests -> PCs]
    /\ event \in [Requests -> Events]
    /\ quantity \in [Requests -> 0 .. MaxQuantity]
    /\ reserved \in [Requests -> Nat]
    /\ issued \in [Requests -> 0 .. MaxQuantity]
    /\ channelUp \in BOOLEAN

InFlight == {r \in Requests : pc[r] \in Working}

ServiceInit ==
    /\ capacity = [e \in Events |-> 0]
    /\ sold = [e \in Events |-> 0]
    /\ purchases = {}
    /\ tickets = {}
    /\ announced = {}
    /\ completed = {}
    /\ pc = [r \in Requests |-> "idle"]
    /\ event = [r \in Requests |-> CHOOSE e \in Events : TRUE]
    /\ quantity = [r \in Requests |-> 0]
    /\ reserved = [r \in Requests |-> 0]
    /\ issued = [r \in Requests |-> 0]

Init == ServiceInit /\ channelUp = TRUE

-----------------------------------------------------------------------------
(* POST /events: NewEvent rejects a capacity that is not positive and      *)
(* starts the sold count at 0; nothing ever changes the capacity again.    *)

CreateEvent(e) ==
    /\ capacity[e] = 0
    /\ \E c \in 1 .. MaxCapacity : capacity' = [capacity EXCEPT ![e] = c]
    /\ sold' = [sold EXCEPT ![e] = 0]
    /\ UNCHANGED <<purchases, tickets, broker, pc, request, channelUp>>

-----------------------------------------------------------------------------
(* POST /purchases up to the first write: eventRepo.Get, ReserveTickets on *)
(* the copy and NewPurchase.  A quantity of 0 stands for any that is not   *)
(* positive.                                                               *)

AvailableTickets(e) == capacity[e] - sold[e]

\* mutants of HasAvailableTickets: a test that lets one ticket too many go,
\* one that keeps the last ticket back, and one that ignores what was sold
HasOneTooMany(e, q) == AvailableTickets(e) + 1 >= q
HasOneTooFew(e, q) == AvailableTickets(e) > q
HasCapacity(e, q) == capacity[e] >= q

\* Event.HasAvailableTickets, on the copy just read
HasAvailableTickets(e, q) == AvailableTickets(e) >= q

\* Event.ReserveTickets succeeds
CanReserve(e, q) == q > 0 /\ HasAvailableTickets(e, q)

Exists(e) == capacity[e] > 0

\* a request arrives: what it asks for, and where its handling ends up
Arrive(r, e, q, next) ==
    /\ pc[r] = "idle"
    /\ Cardinality(InFlight) < MaxInFlight
    /\ pc' = [pc EXCEPT ![r] = next]
    /\ event' = [event EXCEPT ![r] = e]
    /\ quantity' = [quantity EXCEPT ![r] = q]
    /\ UNCHANGED <<database, broker, issued, channelUp>>

GetEventFails(r, e, q) ==
    /\ "db" \in Faults
    /\ Arrive(r, e, q, "error500")
    /\ UNCHANGED reserved

PurchaseNotFound(r, e, q) ==
    /\ ~Exists(e)
    /\ Arrive(r, e, q, "notFound404")
    /\ UNCHANGED reserved

PurchaseRefused(r, e, q) ==
    /\ Exists(e)
    /\ ~CanReserve(e, q)
    /\ Arrive(r, e, q, "conflict409")
    /\ UNCHANGED reserved

\* NewPurchase rejects an empty buyer_email after the reservation
PurchaseWithoutEmail(r, e, q) ==
    /\ Exists(e)
    /\ CanReserve(e, q)
    /\ Arrive(r, e, q, "error500")
    /\ UNCHANGED reserved

PurchaseReserved(r, e, q) ==
    /\ Exists(e)
    /\ CanReserve(e, q)
    /\ Arrive(r, e, q, "addPurchase")
    /\ reserved' = [reserved EXCEPT ![r] = sold[e] + q]

BeginPurchase(r, e, q) ==
    \/ GetEventFails(r, e, q)
    \/ PurchaseNotFound(r, e, q)
    \/ PurchaseRefused(r, e, q)
    \/ PurchaseWithoutEmail(r, e, q)
    \/ PurchaseReserved(r, e, q)

-----------------------------------------------------------------------------
(* The writes and publishes.  Each step has a twin in which the call       *)
(* returns an error and the handler answers 500, leaving what was done.    *)

Goto(r, from, to) ==
    /\ pc[r] = from
    /\ pc' = [pc EXCEPT ![r] = to]
    /\ UNCHANGED <<event, quantity, reserved, channelUp>>

NextTicket(r) == <<r, issued[r] + 1>>

\* mutant of AddPurchase: the sold count is written before the tickets are
AddPurchaseAndCount(r) ==
    /\ Goto(r, "addPurchase", "addTicket")
    /\ purchases' = purchases \cup {r}
    /\ sold' = [sold EXCEPT ![event[r]] = reserved[r]]
    /\ UNCHANGED <<capacity, tickets, broker, issued>>

AddPurchase(r) ==
    /\ Goto(r, "addPurchase", "addTicket")
    /\ purchases' = purchases \cup {r}
    /\ UNCHANGED <<capacity, sold, tickets, broker, issued>>

AddPurchaseFails(r) ==
    /\ "db" \in Faults
    /\ Goto(r, "addPurchase", "error500")
    /\ purchases' \in {purchases, purchases \cup {r}}
    /\ UNCHANGED <<capacity, sold, tickets, broker, issued>>

AddTicket(r) ==
    /\ Goto(r, "addTicket", "publishCreated")
    /\ tickets' = tickets \cup {NextTicket(r)}
    /\ UNCHANGED <<capacity, sold, purchases, broker, issued>>

\* mutant of AddTicketFails: the error is logged and the ticket announced
AddTicketFailureLogged(r) ==
    /\ "db" \in Faults
    /\ Goto(r, "addTicket", "publishCreated")
    /\ tickets' \in {tickets, tickets \cup {NextTicket(r)}}
    /\ UNCHANGED <<capacity, sold, purchases, broker, issued>>

AddTicketFails(r) ==
    /\ "db" \in Faults
    /\ Goto(r, "addTicket", "error500")
    /\ tickets' \in {tickets, tickets \cup {NextTicket(r)}}
    /\ UNCHANGED <<capacity, sold, purchases, broker, issued>>

\* mutants of PublishCreated: a loop that runs once too often, and one that
\* does not count
PublishCreatedOnceMore(r) ==
    /\ channelUp
    /\ Goto(r, "publishCreated",
            IF issued[r] < quantity[r] THEN "addTicket" ELSE "updateEvent")
    /\ announced' = announced \cup {NextTicket(r)}
    /\ issued' = [issued EXCEPT ![r] = @ + 1]
    /\ UNCHANGED <<database, completed>>
PublishCreatedUncounted(r) ==
    /\ channelUp
    /\ Goto(r, "publishCreated",
            IF issued[r] + 1 < quantity[r] THEN "addTicket" ELSE "updateEvent")
    /\ announced' = announced \cup {NextTicket(r)}
    /\ UNCHANGED <<database, completed, issued>>

\* PublishTicketCreated, then the loop test
PublishCreated(r) ==
    /\ channelUp
    /\ Goto(r, "publishCreated",
            IF issued[r] + 1 < quantity[r] THEN "addTicket" ELSE "updateEvent")
    /\ announced' = announced \cup {NextTicket(r)}
    /\ issued' = [issued EXCEPT ![r] = @ + 1]
    /\ UNCHANGED <<database, completed>>

\* mutant of UpdateEvent: the changed event is never saved
UpdateEventForgotten(r) ==
    /\ Goto(r, "updateEvent", "publishCompleted")
    /\ UNCHANGED <<database, broker, issued>>

\* eventRepo.Update writes the whole in-memory event over the row
UpdateEvent(r) ==
    /\ Goto(r, "updateEvent", "publishCompleted")
    /\ sold' = [sold EXCEPT ![event[r]] = reserved[r]]
    /\ UNCHANGED <<capacity, purchases, tickets, broker, issued>>

UpdateEventFails(r) ==
    /\ "db" \in Faults
    /\ Goto(r, "updateEvent", "error500")
    /\ sold' \in {sold, [sold EXCEPT ![event[r]] = reserved[r]]}
    /\ UNCHANGED <<capacity, purchases, tickets, broker, issued>>

PublishCompleted(r) ==
    /\ channelUp
    /\ Goto(r, "publishCompleted", "respond")
    /\ completed' = completed \cup {r}
    /\ UNCHANGED <<database, announced, issued>>

\* Purchase returns its result, and the handler answers 201
RespondCreated(r) ==
    /\ Goto(r, "respond", "created201")
    /\ UNCHANGED <<database, broker, issued>>

\* mutant of PublishFails: the error of the last publish is only logged
PublishFailureLogged(r) ==
    /\ ~channelUp
    /\ \/ Goto(r, "publishCreated", "error500")
       \/ Goto(r, "publishCompleted", "respond")
    /\ UNCHANGED <<database, broker, issued>>

\* a publish on a closed channel returns an error
PublishFails(r) ==
    /\ ~channelUp
    /\ Goto(r, pc[r], "error500")
    /\ pc[r] \in {"publishCreated", "publishCompleted"}
    /\ UNCHANGED <<database, broker, issued>>

PurchaseStep(r) ==
    \/ AddPurchase(r) \/ AddPurchaseFails(r)
    \/ AddTicket(r) \/ AddTicketFails(r)
    \/ PublishCreated(r)
    \/ UpdateEvent(r) \/ UpdateEventFails(r)
    \/ PublishCompleted(r)
    \/ PublishFails(r)
    \/ RespondCreated(r)

-----------------------------------------------------------------------------
\* The connection drops.  Requests go on; their publishes fail.
Disconnect ==
    /\ "disconnect" \in Faults
    /\ channelUp
    /\ channelUp' = FALSE
    /\ UNCHANGED <<database, broker, pc, request>>

\* The process ends, its requests with it, and is started again.
Restart ==
    /\ "crash" \in Faults
    /\ pc' = [r \in Requests |-> IF r \in InFlight THEN "lost" ELSE pc[r]]
    /\ channelUp' = TRUE
    /\ UNCHANGED <<database, broker, request>>

Next ==
    \/ \E e \in Events : CreateEvent(e)
    \/ \E r \in Requests, e \in Events, q \in 0 .. MaxQuantity : BeginPurchase(r, e, q)
    \/ \E r \in Requests : PurchaseStep(r)
    \/ Disconnect
    \/ Restart

Spec == Init /\ [][Next]_vars

\* A handler goroutine that can make its next call eventually makes it; no
\* fairness for arrivals and failures.
Fairness == \A r \in Requests : WF_vars(PurchaseStep(r))

-----------------------------------------------------------------------------
(* Properties                                                              *)

TicketsOf(e) == {t \in tickets : event[t[1]] = e}
CompletedTicketsOf(e) == {t \in TicketsOf(e) : t[1] \in completed}

\* events.sold_count never passes events.capacity, whatever the interleaving
\* of purchases that each write back the event they read earlier
\* (service.go:89-136).
SoldWithinCapacity == \A e \in Events : sold[e] <= capacity[e]

\* The sold count never claims a ticket that was not issued: each write of it
\* is covered by ticket rows, because a purchase inserts all its tickets before
\* it writes the count (service.go:113-138) and a stale count is a smaller one.
SoldNeverOverstated == \A e \in Events : sold[e] <= Cardinality(TicketsOf(e))

\* Nobody is turned away from an event that still has room: a request with a
\* valid quantity is answered 409 only if the tickets issued by then leave
\* fewer than it asked for (event.go:173), although issued tickets and the
\* sold count disagree after overlapping and failed purchases.
RefusalIsTruthful ==
    \A r \in Requests :
        pc[r] = "conflict409" /\ quantity[r] > 0 =>
            Cardinality(TicketsOf(event[r])) + quantity[r] > capacity[event[r]]

\* A buyer is answered 201 only after purchase.completed, which nothing but the end
\* of the process keeps from its 201; and whoever that message reaches has all that
\* was asked for and no more: each ticket with a row and known to the validator,
\* whatever failed for other requests (service.go:113-155, ticket_handler.go:227-251).
CreatedIsWhole ==
    \A r \in Requests :
        /\ pc[r] = "created201" => r \in completed
        /\ r \in completed =>
               /\ pc[r] \in {"respond", "created201", "lost"}
               /\ r \in purchases
               /\ {t \in tickets : t[1] = r} = {r} \X (1 .. quantity[r])
               /\ {r} \X (1 .. quantity[r]) \subseteq announced

\* The capacity is "the maximum number of tickets that can be sold"
\* (event.go:129): tickets delivered to buyers by purchase.completed.
NoOversell ==
    \A e \in Events : Cardinality(CompletedTicketsOf(e)) <= capacity[e]

\* Purchase keeps the promises of TicketIssue to the validator and the QR
\* worker: row before ticket.created, all of them before purchase.completed.
Issue == INSTANCE TicketIssue WITH
    Tickets <- TicketIds,
    persisted <- tickets,
    completed <- {t \in tickets : t[1] \in completed}
ImplementsTicketIssue == Issue!IssueSpec

\* the calls a request has before it at most, the one it is about to make and the
\* reply included
CallsLeft(r) ==
    CASE pc[r] = "addPurchase" -> 2 * quantity[r] + 4
      [] pc[r] = "addTicket" -> 2 * (quantity[r] - issued[r]) + 3
      [] pc[r] = "publishCreated" -> 2 * (quantity[r] - issued[r]) + 2
      [] pc[r] = "updateEvent" -> 3
      [] pc[r] = "publishCompleted" -> 2
      [] pc[r] = "respond" -> 1
      [] OTHER -> 0

\* A purchase of n tickets makes at most 2n + 3 calls before its reply
\* (service.go:89-155, ticket_handler.go:246): whatever
\* fails and whatever other requests do, a step that touches a request in flight
\* brings its reply closer, and a reply that was given stays the only one.
EveryCallCounts ==
    [][\A r \in Requests :
           \/ UNCHANGED <<pc[r], event[r], quantity[r], reserved[r], issued[r]>>
           \/ pc[r] \in Working /\ CallsLeft(r)' \in 0 .. CallsLeft(r) - 1
           \/ pc[r] = "idle"]_vars

\* Every purchase taken up is answered, or lost with the process: no step of
\* the handler can block it, and the ticket loop ends.
EveryPurchaseEnds == \A r \in Requests : (pc[r] \in Working) ~> (pc[r] \notin Working)
=============================================================================
