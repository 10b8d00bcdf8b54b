-------------------------- MODULE TicketAPIProofs --------------------------
(***************************************************************************)
(* Theorems about TicketAPI for any events, requests, bounds and faults:   *)
(* the life cycle of the process adds nothing to the faults of             *)
(* PurchaseService, what is published finds its queue, and every theorem   *)
(* about purchases holds of the process that makes them.                   *)
(***************************************************************************)
EXTENDS TicketAPI, TLAPS

\* a process with an open channel has bound what it was to bind by now
TopologyInv ==
    channelUp =>
        /\ phase = "starting" => \A i \in 1 .. declared : RoutingKeys[i] \in bound
        /\ phase \in Running => AllKeys \subseteq bound

APIInv == ProcessTypeOK /\ TopologyInv

LEMMA KeyCount == Len(RoutingKeys) = 4
  BY DEF RoutingKeys

LEMMA KeysAre == AllKeys = {"ticket.created", "ticket.cancelled",
                            "purchase.completed", "ticket.used"}
  BY DEF AllKeys, RoutingKeys

-----------------------------------------------------------------------------
(* APIInv is inductive                                                     *)

LEMMA InitAPIInv == APIInit => APIInv
  <1> SUFFICES ASSUME APIInit PROVE APIInv
    OBVIOUS
  <1>1. ProcessTypeOK
    <2>1. 0 \in 0 .. Len(RoutingKeys)
      BY KeyCount
    <2>2. phase = "down" /\ declared = 0 /\ bound = {} /\ channelUp = FALSE
      BY DEF APIInit
    <2> QED BY <2>1, <2>2, Zenon DEF ProcessTypeOK
  <1>2. TopologyInv
    BY DEF APIInit, TopologyInv
  <1> QED BY <1>1, <1>2 DEF APIInv

\* Requests leave the process and its channel alone.
LEMMA RequestsKeepProcess ==
  ASSUME Serving \/ Closed
  PROVE  UNCHANGED <<channelUp, process>>
  <1>1. CASE Serving
    BY <1>1 DEF Serving, CreateEvent, BeginPurchase, GetEventFails, PurchaseNotFound,
        PurchaseRefused, PurchaseWithoutEmail, PurchaseReserved, Arrive, PurchaseStep,
        AddPurchase, AddPurchaseFails, AddTicket, AddTicketFails, PublishCreated,
        UpdateEvent, UpdateEventFails, PublishCompleted, PublishFails, RespondCreated, Goto
  <1>2. CASE Closed
    BY <1>2 DEF Closed, CallAfterClose, PublishAfterClose, RespondAfterClose,
        GetAfterClose, PublishFails, RespondCreated, Goto, Arrive
  <1> QED BY <1>1, <1>2

LEMMA NextAPIInv == APIInv /\ [APINext]_apiVars => APIInv'
  <1> SUFFICES ASSUME APIInv, [APINext]_apiVars PROVE APIInv'
    OBVIOUS
  <1> USE KeyCount DEF APIInv, ProcessTypeOK, TopologyInv, DatabaseOpen, Running
  <1>1. CASE Start
    BY <1>1 DEF Start
  <1>2. CASE DeclareNext
    <2>1. RoutingKeys[declared + 1] \in AllKeys
      BY <1>2 DEF DeclareNext, AllKeys
    <2> QED BY <1>2, <2>1 DEF DeclareNext
  <1>3. CASE Serve
    <2>1. \A i \in 1 .. Len(RoutingKeys) : RoutingKeys[i] \in bound
      BY <1>3 DEF Serve
    <2> QED BY <1>3, <2>1 DEF Serve, AllKeys
  <1>4. CASE StartFails
    BY <1>4 DEF StartFails
  <1>5. CASE Stop
    BY <1>5 DEF Stop
  <1>10. CASE CloseChannel
    BY <1>10 DEF CloseChannel
  <1>11. CASE CloseDatabase
    BY <1>11 DEF CloseDatabase
  <1>6. CASE Exit \/ Crash
    BY <1>6 DEF Exit, Crash, Terminate
  <1>7. CASE LoseChannel
    BY <1>7 DEF LoseChannel, process
  <1>8. CASE BrokerRecreated
    BY <1>8 DEF BrokerRecreated
  <1>9. CASE Serving \/ Closed \/ UNCHANGED apiVars
    <2>1. UNCHANGED <<channelUp, process>>
      BY <1>9, RequestsKeepProcess DEF apiVars, vars
    <2> QED BY <2>1 DEF process
  <1> QED BY <1>1, <1>2, <1>3, <1>4, <1>5, <1>6, <1>7, <1>8, <1>9, <1>10, <1>11
         DEF APINext

THEOREM APIInvariance == APISpec => []APIInv
  BY InitAPIInv, NextAPIInv, PTL DEF APISpec

\* The process keeps its types, and has no channel but between Dial and its
\* deferred Close (main.go:43-60).
THEOREM ProcessTypeCorrect == APISpec => []ProcessTypeOK
  BY APIInvariance, PTL DEF APIInv

-----------------------------------------------------------------------------
(* What is published is routed                                             *)

LEMMA StepPublishesRouted ==
  ASSUME APIInv, [APINext]_apiVars
  PROVE  /\ announced' # announced => "ticket.created" \in bound
         /\ completed' # completed => "purchase.completed" \in bound
  <1>1. CASE Serving
    <2>1. ASSUME announced' # announced \/ completed' # completed
          PROVE  channelUp
      BY <1>1, <2>1 DEF Serving, CreateEvent, BeginPurchase, GetEventFails,
        PurchaseNotFound, PurchaseRefused, PurchaseWithoutEmail, PurchaseReserved, Arrive,
        PurchaseStep, AddPurchase, AddPurchaseFails, AddTicket, AddTicketFails,
        PublishCreated, UpdateEvent, UpdateEventFails, PublishCompleted, PublishFails,
        RespondCreated, broker, database
    <2> QED BY <1>1, <2>1, KeysAre DEF Serving, APIInv, TopologyInv, Running
  <1>2. CASE Closed
    BY <1>2 DEF Closed, CallAfterClose, PublishAfterClose, RespondAfterClose,
        GetAfterClose, PublishFails, RespondCreated, Arrive, broker
  <1>3. CASE ~Serving /\ ~Closed
    BY <1>3 DEF APINext, Start, DeclareNext, Serve, StartFails, Stop, CloseChannel,
        CloseDatabase, Exit, Crash, Terminate, LoseChannel, BrokerRecreated, service,
        broker, apiVars, vars
  <1> QED BY <1>1, <1>2, <1>3

\* Every message of a purchase finds its queue bound, through failed starts,
\* restarts and brokers created anew (connection.go:33-80).
THEOREM PublishedAreRouted == APISpec => PublishedIsRouted
  BY StepPublishesRouted, APIInvariance, PTL DEF APISpec, PublishedIsRouted

-----------------------------------------------------------------------------
(* The life cycle implements PurchaseService                               *)

LEMMA InitRefines == APIInit => Purchase!Init
  <1> SUFFICES ASSUME APIInit PROVE Purchase!Init
    OBVIOUS
  <1>1. ChannelSeen = TRUE
    BY DEF APIInit, ChannelSeen, Running, DatabaseOpen
  <1>2. Purchase!ServiceInit
    BY DEF APIInit, ServiceInit, Purchase!ServiceInit
  <1> QED BY <1>1, <1>2 DEF Purchase!Init

\* While the process runs, its requests see the channel as it is.
LEMMA SeenWhileRunning ==
  ASSUME phase \in Running, channelUp \in BOOLEAN
  PROVE  ChannelSeen = channelUp
  BY DEF ChannelSeen

LEMMA SeenOtherwise ==
  ASSUME phase \notin Running
  PROVE  ChannelSeen = TRUE
  BY DEF ChannelSeen

\* Nothing the requests see has changed.
LEMMA StutterRefines ==
  ASSUME UNCHANGED service, ChannelSeen' = ChannelSeen
  PROVE  UNCHANGED Purchase!vars
  BY DEF service, database, broker, request, Purchase!vars, Purchase!database,
         Purchase!broker, Purchase!request

\* A channel that closes under the requests is a lost one.
LEMMA ClosingRefines ==
  ASSUME UNCHANGED service, ChannelSeen = TRUE, ChannelSeen' = FALSE
  PROVE  Purchase!Disconnect
  BY DEF service, database, broker, request, FaultKinds, Purchase!FaultKinds,
         Purchase!Disconnect, Purchase!database, Purchase!broker, Purchase!request

\* The end of the process is the restart of PurchaseService.
LEMMA TerminateRefines ==
  ASSUME Terminate
  PROVE  Purchase!Restart
  <1>1. ChannelSeen' = TRUE
    BY DEF Terminate, ChannelSeen, Running, DatabaseOpen
  <1> QED BY <1>1 DEF Terminate, database, broker, request, InFlight, Working, FaultKinds,
      Purchase!FaultKinds, Purchase!Restart, Purchase!database, Purchase!broker,
      Purchase!request, Purchase!InFlight, Purchase!Working

\* INSTANCE gives the operators of the standard modules names of their own.
LEMMA SameCardinality == ASSUME NEW S PROVE Purchase!Cardinality(S) = Cardinality(S)
  BY DEF Cardinality, Purchase!Cardinality

LEMMA SameArrival ==
  ASSUME ChannelSeen = channelUp, ChannelSeen' = channelUp', NEW r, NEW e, NEW q, NEW next,
         Arrive(r, e, q, next)
  PROVE  Purchase!Arrive(r, e, q, next)
  <1>1. Purchase!InFlight = InFlight
    BY DEF InFlight, Working, Purchase!InFlight, Purchase!Working
  <1>2. Cardinality(Purchase!InFlight) < MaxInFlight
    BY <1>1 DEF Arrive
  <1>3. Purchase!Cardinality(Purchase!InFlight) < MaxInFlight
    BY <1>2, SameCardinality
  <1> HIDE DEF Purchase!InFlight
  <1> QED BY <1>3 DEF Arrive, database, broker, Purchase!Arrive, Purchase!database,
                      Purchase!broker

LEMMA ArrivalRefines ==
  ASSUME ChannelSeen = channelUp, ChannelSeen' = channelUp',
         NEW r \in Requests, NEW e \in Events, NEW q \in 0 .. MaxQuantity,
         BeginPurchase(r, e, q)
  PROVE  Purchase!BeginPurchase(r, e, q)
  <1>6. \A next : Arrive(r, e, q, next) => Purchase!Arrive(r, e, q, next)
    BY SameArrival
  <1> USE <1>6 DEF Exists, CanReserve, HasAvailableTickets, AvailableTickets, FaultKinds,
          Purchase!Exists, Purchase!CanReserve, Purchase!HasAvailableTickets,
          Purchase!AvailableTickets, Purchase!FaultKinds, Purchase!BeginPurchase
  <1>1. CASE GetEventFails(r, e, q)
    BY <1>1 DEF GetEventFails, Purchase!GetEventFails
  <1>2. CASE PurchaseNotFound(r, e, q)
    BY <1>2 DEF PurchaseNotFound, Purchase!PurchaseNotFound
  <1>3. CASE PurchaseRefused(r, e, q)
    BY <1>3 DEF PurchaseRefused, Purchase!PurchaseRefused
  <1>4. CASE PurchaseWithoutEmail(r, e, q)
    BY <1>4 DEF PurchaseWithoutEmail, Purchase!PurchaseWithoutEmail
  <1>5. CASE PurchaseReserved(r, e, q)
    BY <1>5 DEF PurchaseReserved, Purchase!PurchaseReserved
  <1> QED BY <1>1, <1>2, <1>3, <1>4, <1>5 DEF BeginPurchase

LEMMA CallRefines ==
  ASSUME ChannelSeen = channelUp, ChannelSeen' = channelUp',
         NEW r \in Requests, PurchaseStep(r)
  PROVE  Purchase!PurchaseStep(r)
  <1> USE DEF Goto, NextTicket, database, broker, FaultKinds, Purchase!Goto,
          Purchase!NextTicket, Purchase!database, Purchase!broker, Purchase!FaultKinds,
          Purchase!PurchaseStep
  <1>1. CASE AddPurchase(r)
    BY <1>1 DEF AddPurchase, Purchase!AddPurchase
  <1>2. CASE AddPurchaseFails(r)
    BY <1>2 DEF AddPurchaseFails, Purchase!AddPurchaseFails
  <1>3. CASE AddTicket(r)
    BY <1>3 DEF AddTicket, Purchase!AddTicket
  <1>4. CASE AddTicketFails(r)
    BY <1>4 DEF AddTicketFails, Purchase!AddTicketFails
  <1>5. CASE PublishCreated(r)
    BY <1>5 DEF PublishCreated, Purchase!PublishCreated
  <1>6. CASE UpdateEvent(r)
    BY <1>6 DEF UpdateEvent, Purchase!UpdateEvent
  <1>7. CASE UpdateEventFails(r)
    BY <1>7 DEF UpdateEventFails, Purchase!UpdateEventFails
  <1>8. CASE PublishCompleted(r)
    BY <1>8 DEF PublishCompleted, Purchase!PublishCompleted
  <1>9. CASE PublishFails(r)
    BY <1>9 DEF PublishFails, Purchase!PublishFails
  <1>10. CASE RespondCreated(r)
    BY <1>10 DEF RespondCreated, Purchase!RespondCreated
  <1> QED BY <1>1, <1>2, <1>3, <1>4, <1>5, <1>6, <1>7, <1>8, <1>9, <1>10 DEF PurchaseStep

LEMMA ServingRefines ==
  ASSUME APIInv, Serving
  PROVE  Purchase!Next
  <1>1. /\ phase \in Running /\ phase' \in Running
        /\ channelUp \in BOOLEAN /\ channelUp' \in BOOLEAN
    BY RequestsKeepProcess DEF Serving, Running, process, APIInv, ProcessTypeOK
  <1>2. ChannelSeen = channelUp /\ ChannelSeen' = channelUp'
    BY <1>1 DEF ChannelSeen
  <1>3. ASSUME NEW e \in Events, CreateEvent(e)
        PROVE  Purchase!CreateEvent(e)
    BY <1>2, <1>3 DEF CreateEvent, broker, request, Purchase!CreateEvent,
                      Purchase!broker, Purchase!request
  <1> QED BY <1>2, <1>3, ArrivalRefines, CallRefines DEF Serving, Purchase!Next

\* Calls on a closed database are failing calls.
LEMMA ClosedRefines ==
  ASSUME APIInv, Closed
  PROVE  Purchase!Next
  <1>1. /\ phase \in Running /\ phase' \in Running
        /\ channelUp \in BOOLEAN /\ channelUp' \in BOOLEAN
    BY RequestsKeepProcess DEF Closed, CallAfterClose, PublishAfterClose,
       RespondAfterClose, GetAfterClose, Running, process, APIInv, ProcessTypeOK
  <1>2. ChannelSeen = channelUp /\ ChannelSeen' = channelUp'
    BY <1>1 DEF ChannelSeen
  <1>3. ASSUME NEW r \in Requests, CallAfterClose(r)
        PROVE  Purchase!PurchaseStep(r)
    BY <1>2, <1>3 DEF CallAfterClose, Goto, database, broker, FaultKinds, Purchase!Goto,
       Purchase!database, Purchase!broker, Purchase!FaultKinds, Purchase!PurchaseStep,
       Purchase!AddPurchaseFails, Purchase!AddTicketFails, Purchase!UpdateEventFails
  <1>4. ASSUME NEW r \in Requests, PublishAfterClose(r)
        PROVE  Purchase!PurchaseStep(r)
    BY <1>2, <1>4, CallRefines DEF PublishAfterClose, PurchaseStep
  <1>6. ASSUME NEW r \in Requests, RespondAfterClose(r)
        PROVE  Purchase!PurchaseStep(r)
    BY <1>2, <1>6, CallRefines DEF RespondAfterClose, PurchaseStep
  <1>5. ASSUME NEW r \in Requests, NEW e \in Events, NEW q \in 0 .. MaxQuantity,
               GetAfterClose(r, e, q)
        PROVE  Purchase!BeginPurchase(r, e, q)
    <2>1. Purchase!Arrive(r, e, q, "error500")
      BY <1>2, <1>5, SameArrival DEF GetAfterClose
    <2> QED BY <1>5, <2>1 DEF GetAfterClose, FaultKinds, Purchase!FaultKinds,
                              Purchase!BeginPurchase, Purchase!GetEventFails
  <1> QED BY <1>3, <1>4, <1>5, <1>6 DEF Closed, Purchase!Next

LEMMA StepRefines == APIInv /\ [APINext]_apiVars => [Purchase!Next]_Purchase!vars
  <1> SUFFICES ASSUME APIInv, [APINext]_apiVars
               PROVE  [Purchase!Next]_Purchase!vars
    OBVIOUS
  <1> USE DEF APIInv, ProcessTypeOK
  <1>1. CASE Start \/ DeclareNext \/ StartFails
    <2>1. phase \notin Running /\ phase' \notin Running
      BY <1>1 DEF Start, DeclareNext, StartFails, Running, DatabaseOpen
    <2>2. ChannelSeen = TRUE /\ ChannelSeen' = TRUE
      BY <2>1 DEF ChannelSeen
    <2>3. UNCHANGED service
      BY <1>1 DEF Start, DeclareNext, StartFails
    <2> QED BY <2>2, <2>3, StutterRefines
  <1>2. CASE Serve
    <2>1. phase \notin Running /\ channelUp' = TRUE
      BY <1>2 DEF Serve, Running, DatabaseOpen
    <2>2. ChannelSeen = TRUE /\ ChannelSeen' = TRUE
      BY <2>1 DEF ChannelSeen
    <2> QED BY <1>2, <2>2, StutterRefines DEF Serve
  <1>3. CASE Stop \/ CloseDatabase \/ UNCHANGED apiVars
    <2>1. channelUp' = channelUp /\ (phase \in Running <=> phase' \in Running)
      BY <1>3 DEF Stop, CloseDatabase, apiVars, vars, process, Running, DatabaseOpen
    <2>2. ChannelSeen' = ChannelSeen
      BY <2>1 DEF ChannelSeen
    <2>3. UNCHANGED service
      BY <1>3 DEF Stop, CloseDatabase, apiVars, vars, service
    <2> QED BY <2>2, <2>3, StutterRefines
  <1>4. CASE CloseChannel \/ LoseChannel \/ BrokerRecreated
    <2>1. /\ channelUp' = FALSE
          /\ phase \in Running <=> phase' \in Running
          /\ UNCHANGED service
      BY <1>4 DEF CloseChannel, LoseChannel, BrokerRecreated, process, Running, DatabaseOpen
    <2>2. CASE phase \in Running /\ channelUp
      <3>1. ChannelSeen = TRUE /\ ChannelSeen' = FALSE
        BY <2>1, <2>2 DEF ChannelSeen
      <3> QED BY <2>1, <3>1, ClosingRefines DEF Purchase!Next
    <2>3. CASE ~(phase \in Running /\ channelUp)
      <3>1. ChannelSeen' = ChannelSeen
        BY <2>1, <2>3 DEF ChannelSeen
      <3> QED BY <2>1, <3>1, StutterRefines
    <2> QED BY <2>2, <2>3
  <1>5. CASE Exit \/ Crash
    BY <1>5, TerminateRefines DEF Exit, Crash, Purchase!Next
  <1>6. CASE Serving \/ Closed
    BY <1>6, ServingRefines, ClosedRefines
  <1> QED BY <1>1, <1>2, <1>3, <1>4, <1>5, <1>6 DEF APINext

\* Starting, serving and stopping, the process does to its purchases what
\* PurchaseService with all its faults may do (main.go:105-127).
THEOREM APIImplementsPurchaseService == APISpec => ImplementsPurchaseService
  BY InitRefines, StepRefines, APIInvariance, PTL
     DEF APISpec, ImplementsPurchaseService, Purchase!Spec

-----------------------------------------------------------------------------
(* The theorems of PurchaseService hold of the process                     *)
(*                                                                         *)
(* Proved is PurchaseService with its theorems, seen as Purchase sees it.  *)
(* INSTANCE gives the two copies of each definition names of their own; the*)
(* lemmas down to ServesPurchases say that they are the same.              *)

Proved == INSTANCE PurchaseCountProofs WITH
    channelUp <- ChannelSeen,
    Faults <- FaultKinds

\* PurchaseAssumption for this instance: all kinds of fault are possible
LEMMA ProvedAssumption ==
    /\ Events # {}
    /\ MaxCapacity \in Nat \ {0}
    /\ MaxQuantity \in Nat \ {0}
    /\ MaxInFlight \in Nat \ {0}
    /\ FaultKinds \subseteq Proved!FaultKinds
  BY PurchaseAssumption DEF FaultKinds, Proved!FaultKinds

LEMMA ProvedCardinality == ASSUME NEW S PROVE Proved!Cardinality(S) = Cardinality(S)
  BY DEF Cardinality, Proved!Cardinality

LEMMA SameInit == Purchase!Init => Proved!Init
  BY DEF Purchase!Init, Proved!Init, Purchase!ServiceInit, Proved!ServiceInit

LEMMA ProvedArrival ==
  ASSUME NEW r, NEW e, NEW q, NEW next, Purchase!Arrive(r, e, q, next)
  PROVE  Proved!Arrive(r, e, q, next)
  <1>1. Purchase!InFlight = Proved!InFlight
    BY DEF Purchase!InFlight, Purchase!Working, Proved!InFlight, Proved!Working
  <1>2. Purchase!Cardinality(Purchase!InFlight) = Proved!Cardinality(Proved!InFlight)
    BY <1>1, SameCardinality, ProvedCardinality
  <1> HIDE DEF Purchase!InFlight, Proved!InFlight
  <1> QED BY <1>2 DEF Purchase!Arrive, Purchase!database, Purchase!broker, Proved!Arrive,
                      Proved!database, Proved!broker

LEMMA SameNext == Purchase!Next => Proved!Next
  <1> USE DEF Purchase!database, Purchase!broker, Purchase!request, Proved!database,
          Proved!broker, Proved!request
  <1>1. ASSUME NEW e \in Events, Purchase!CreateEvent(e) PROVE Proved!CreateEvent(e)
    BY <1>1 DEF Purchase!CreateEvent, Proved!CreateEvent
  <1>2. ASSUME NEW r \in Requests, NEW e \in Events, NEW q \in 0 .. MaxQuantity,
               Purchase!BeginPurchase(r, e, q)
        PROVE  Proved!BeginPurchase(r, e, q)
    BY <1>2, ProvedArrival
       DEF Purchase!BeginPurchase, Purchase!GetEventFails, Purchase!PurchaseNotFound,
           Purchase!PurchaseRefused, Purchase!PurchaseWithoutEmail,
           Purchase!PurchaseReserved, Purchase!Exists, Purchase!CanReserve,
           Purchase!HasAvailableTickets, Purchase!AvailableTickets, Purchase!FaultKinds,
           Proved!BeginPurchase, Proved!GetEventFails, Proved!PurchaseNotFound,
           Proved!PurchaseRefused, Proved!PurchaseWithoutEmail, Proved!PurchaseReserved,
           Proved!Exists, Proved!CanReserve, Proved!HasAvailableTickets,
           Proved!AvailableTickets, Proved!FaultKinds
  <1>3. ASSUME NEW r \in Requests, Purchase!PurchaseStep(r) PROVE Proved!PurchaseStep(r)
    BY <1>3
       DEF Purchase!PurchaseStep, Purchase!AddPurchase, Purchase!AddPurchaseFails,
           Purchase!AddTicket, Purchase!AddTicketFails, Purchase!PublishCreated,
           Purchase!UpdateEvent, Purchase!UpdateEventFails, Purchase!PublishCompleted,
           Purchase!PublishFails, Purchase!RespondCreated, Purchase!Goto, Purchase!NextTicket,
           Proved!PurchaseStep, Proved!AddPurchase, Proved!AddPurchaseFails,
           Proved!AddTicket, Proved!AddTicketFails, Proved!PublishCreated,
           Proved!UpdateEvent, Proved!UpdateEventFails, Proved!PublishCompleted,
           Proved!PublishFails, Proved!RespondCreated, Proved!Goto, Proved!NextTicket
  <1>4. Purchase!Disconnect => Proved!Disconnect
    BY DEF Purchase!Disconnect, Proved!Disconnect
  <1>5. Purchase!Restart => Proved!Restart
    BY DEF Purchase!Restart, Purchase!InFlight, Purchase!Working, Proved!Restart,
           Proved!InFlight, Proved!Working
  <1> QED BY <1>1, <1>2, <1>3, <1>4, <1>5 DEF Purchase!Next, Proved!Next

LEMMA SameStep == [Purchase!Next]_Purchase!vars => [Proved!Next]_Proved!vars
  <1>1. UNCHANGED Purchase!vars => UNCHANGED Proved!vars
    BY DEF Purchase!vars, Purchase!database, Purchase!broker, Purchase!request,
           Proved!vars, Proved!database, Proved!broker, Proved!request
  <1> QED BY <1>1, SameNext

LEMMA ServesPurchases == APISpec => Proved!Spec
  <1>1. APIInit => Proved!Init
    BY InitRefines, SameInit
  <1>2. APIInv /\ [APINext]_apiVars => [Proved!Next]_Proved!vars
    BY StepRefines, SameStep
  <1> QED BY <1>1, <1>2, APIInvariance, PTL DEF APISpec, Proved!Spec

LEMMA SameTickets ==
  ASSUME NEW e
  PROVE  /\ Proved!TicketsOf(e) = TicketsOf(e)
         /\ Proved!CompletedTicketsOf(e) = CompletedTicketsOf(e)
  BY DEF TicketsOf, CompletedTicketsOf, Proved!TicketsOf, Proved!CompletedTicketsOf

\* The process never sells past the capacity by its own count, starting and
\* stopping as it may (service.go:89-136, main.go:105-127).
THEOREM APIRespectsCapacity == APISpec => []SoldWithinCapacity
  <1>1. Proved!SoldWithinCapacity => SoldWithinCapacity
    BY DEF SoldWithinCapacity, Proved!SoldWithinCapacity
  <1> QED BY <1>1, ServesPurchases, ProvedAssumption, Proved!CapacityRespected, PTL

\* Requests that main cuts off, or lets run on without a database, leave no sold
\* count without its tickets (service.go:113-138, main.go:105-127).
THEOREM APISoldCovered == APISpec => []SoldNeverOverstated
  <1>1. Proved!SoldNeverOverstated => SoldNeverOverstated
    BY SameTickets, ProvedCardinality DEF SoldNeverOverstated, Proved!SoldNeverOverstated
  <1> QED BY <1>1, ServesPurchases, ProvedAssumption, Proved!SoldCovered, PTL

\* A 409 for want of tickets is true of the tickets issued, over any number of
\* restarts of the process (event.go:173).
THEOREM APIRefusalsTruthful == APISpec => []RefusalIsTruthful
  <1>1. Proved!RefusalIsTruthful => RefusalIsTruthful
    BY SameTickets, ProvedCardinality DEF RefusalIsTruthful, Proved!RefusalIsTruthful
  <1> QED BY <1>1, ServesPurchases, ProvedAssumption, Proved!RefusalsTruthful, PTL

\* A buyer who is told of a purchase has what was asked for, and has no other answer
\* than 201, however the process ends and starts (service.go:113-155,
\* ticket_handler.go:227-251, main.go:105-127).
THEOREM APICreatedPurchasesWhole == APISpec => []CreatedIsWhole
  <1>1. Proved!CreatedIsWhole => CreatedIsWhole
    BY DEF CreatedIsWhole, Proved!CreatedIsWhole
  <1> QED BY <1>1, ServesPurchases, ProvedAssumption, Proved!CreatedPurchasesWhole, PTL

\* Requests that run on while main returns come closer to their reply as well: the
\* process has no way to hold or to revive one (service.go:89-155, main.go:105-127).
THEOREM APICallsRunOut == APISpec => EveryCallCounts
  <1> DEFINE Counts(r) ==
        \/ UNCHANGED <<pc[r], event[r], quantity[r], reserved[r], issued[r]>>
        \/ pc[r] \in Working /\ CallsLeft(r)' \in 0 .. CallsLeft(r) - 1
        \/ pc[r] = "idle"
  <1>1. UNCHANGED Proved!vars => \A r \in Requests : Counts(r)
    BY DEF Proved!vars, Proved!request
  <1>2. ASSUME NEW r \in Requests
        PROVE  /\ Proved!CallsLeft(r) = CallsLeft(r) /\ Proved!Working = Working
               /\ Proved!CallsLeft(r)' = CallsLeft(r)'
    BY DEF CallsLeft, Working, Proved!CallsLeft, Proved!Working
  <1>3. [\A r \in Requests :
           \/ UNCHANGED <<pc[r], event[r], quantity[r], reserved[r], issued[r]>>
           \/ pc[r] \in Proved!Working /\ Proved!CallsLeft(r)' \in 0 .. Proved!CallsLeft(r) - 1
           \/ pc[r] = "idle"]_Proved!vars
        => [\A r \in Requests : Counts(r)]_vars
    BY <1>1, <1>2
  <1> QED BY <1>3, ServesPurchases, ProvedAssumption, Proved!CallsRunOut, PTL
          DEF EveryCallCounts, Proved!EveryCallCounts

\* The process keeps the promises of TicketIssue on which TicketSystem is built,
\* SIGTERM included (service.go:113-155, main.go:105-127).
THEOREM APIImplementsTicketIssue == APISpec => ImplementsTicketIssue
  <1>1. Proved!Issue!IssueInit => Issue!IssueInit
    BY DEF Issue!IssueInit, Proved!Issue!IssueInit
  <1>2. [Proved!Issue!IssueNext]_Proved!Issue!issueVars => [Issue!IssueNext]_Issue!issueVars
    BY DEF Issue!IssueNext, Issue!Persist, Issue!Announce, Issue!Complete,
           Issue!issueVars, TicketIds, Proved!Issue!IssueNext, Proved!Issue!Persist,
           Proved!Issue!Announce, Proved!Issue!Complete, Proved!Issue!issueVars,
           Proved!TicketIds
  <1> QED BY <1>1, <1>2, ServesPurchases, ProvedAssumption,
             Proved!PurchaseImplementsTicketIssue, PTL
          DEF ImplementsTicketIssue, Issue!IssueSpec, Proved!ImplementsTicketIssue,
              Proved!Issue!IssueSpec
=============================================================================
