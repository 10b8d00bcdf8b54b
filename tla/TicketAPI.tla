----------------------------- MODULE TicketAPI -----------------------------
(***************************************************************************)
(* The ticket-api process around PurchaseService: how it starts, what it   *)
(* sets up at the broker, and what SIGTERM does to the purchases in flight *)
(* (cmd/ticket-api/main.go, internal/platform/rabbitmq/connection.go).     *)
(*                                                                         *)
(* ListenAndServe returns as soon as Shutdown is called, and main goes on  *)
(* to its deferred calls and ends: it waits neither for Shutdown nor for   *)
(* the handlers.  They run on through the last steps of main, first        *)
(* without a channel, then without a database.  A connection accepted      *)
(* before may still bring a request.  The validator-api main is the same   *)
(* with Redis for MySQL.                                                   *)
(***************************************************************************)
EXTENDS PurchaseService, Sequences

VARIABLES
    phase,     \* how far main has come
    declared,  \* how many routing keys SetupTopology has bound in this start
    bound      \* at the broker: the routing keys bound to their queue

process == <<phase, declared, bound>>
service == <<database, broker, pc, request>>
apiVars == <<vars, process>>

\* the order in which SetupTopology binds its queues
RoutingKeys ==
    <<"ticket.created", "ticket.cancelled", "purchase.completed", "ticket.used">>

AllKeys == {RoutingKeys[i] : i \in 1 .. Len(RoutingKeys)}

DatabaseOpen == {"serving", "stopping", "channelClosed"}
Running == DatabaseOpen \cup {"dbClosed"}

ProcessTypeOK ==
    /\ phase \in {"down", "starting"} \cup Running
    /\ declared \in 0 .. Len(RoutingKeys)
    /\ bound \subseteq AllKeys
    /\ channelUp \in BOOLEAN
    /\ phase \in {"down", "channelClosed", "dbClosed"} => ~channelUp

APIInit ==
    /\ ServiceInit
    /\ channelUp = FALSE
    /\ phase = "down"
    /\ declared = 0
    /\ bound = {}

-----------------------------------------------------------------------------
(* Starting: any error on the way ends the process.                        *)

\* up to the open channel
Start ==
    /\ phase = "down"
    /\ phase' = "starting"
    /\ declared' = 0
    /\ channelUp' = TRUE
    /\ UNCHANGED <<service, bound>>

\* SetupTopology: one queue declared, if it is not there yet, and bound
DeclareNext ==
    /\ phase = "starting"
    /\ channelUp
    /\ declared < Len(RoutingKeys)
    /\ declared' = declared + 1
    /\ bound' = bound \cup {RoutingKeys[declared + 1]}
    /\ UNCHANGED <<service, channelUp, phase>>

\* mutant of Serve: an error of SetupTopology is logged and main goes on
ServeUndeclared ==
    /\ phase = "starting"
    /\ channelUp
    /\ phase' = "serving"
    /\ UNCHANGED <<service, channelUp, declared, bound>>

\* the consumer of ticket.used is registered, and the server listens
Serve ==
    /\ phase = "starting"
    /\ channelUp
    /\ declared = Len(RoutingKeys)
    /\ phase' = "serving"
    /\ UNCHANGED <<service, channelUp, declared, bound>>

\* os.Exit(1)
StartFails ==
    /\ phase = "starting"
    /\ phase' = "down"
    /\ channelUp' = FALSE
    /\ UNCHANGED <<service, declared, bound>>

-----------------------------------------------------------------------------
(* Stopping                                                                *)

\* SIGTERM: cancel() and Shutdown, with which ListenAndServe returns
Stop ==
    /\ phase = "serving"
    /\ phase' = "stopping"
    /\ UNCHANGED <<service, channelUp, declared, bound>>

\* mutant of CloseChannel: the deferred calls forget the channel
CloseChannelForgotten ==
    /\ phase = "stopping"
    /\ phase' = "channelClosed"
    /\ UNCHANGED <<service, channelUp, declared, bound>>

\* the deferred rmqCh.Close() and rmqConn.Close()
CloseChannel ==
    /\ phase = "stopping"
    /\ phase' = "channelClosed"
    /\ channelUp' = FALSE
    /\ UNCHANGED <<service, declared, bound>>

\* the deferred db.Close(), which lets the queries under way end
CloseDatabase ==
    /\ phase = "channelClosed"
    /\ phase' = "dbClosed"
    /\ UNCHANGED <<service, channelUp, declared, bound>>

\* the process is gone, and its requests with it
Terminate ==
    /\ phase' = "down"
    /\ channelUp' = FALSE
    /\ pc' = [r \in Requests |-> IF r \in InFlight THEN "lost" ELSE pc[r]]
    /\ UNCHANGED <<database, broker, request, declared, bound>>

Exit == phase = "dbClosed" /\ Terminate

Crash == "crash" \in Faults /\ phase \in Running /\ Terminate

-----------------------------------------------------------------------------
(* The broker                                                              *)

LoseChannel ==
    /\ "disconnect" \in Faults
    /\ channelUp
    /\ channelUp' = FALSE
    /\ UNCHANGED <<service, process>>

\* The broker is created anew: it has no volume (docker-compose.yml:25), so that
\* its exchange and queues are gone.
BrokerRecreated ==
    /\ "disconnect" \in Faults
    /\ channelUp' = FALSE
    /\ bound' = {}
    /\ UNCHANGED <<service, phase, declared>>

-----------------------------------------------------------------------------
(* Requests                                                                *)

Serving ==
    /\ phase \in DatabaseOpen
    /\ \/ \E e \in Events : CreateEvent(e)
       \/ \E r \in Requests, e \in Events, q \in 0 .. MaxQuantity : BeginPurchase(r, e, q)
       \/ \E r \in Requests : PurchaseStep(r)
    /\ UNCHANGED process

\* mutant of CallAfterClose: the error of the insert is logged, and the
\* purchase goes on
CallAfterCloseLogged(r) ==
    /\ phase = "dbClosed"
    /\ \/ Goto(r, "addPurchase", "addTicket")
       \/ Goto(r, "addTicket", "publishCreated")
       \/ Goto(r, "updateEvent", "publishCompleted")
    /\ UNCHANGED <<database, broker, issued, process>>

\* "sql: database is closed"
CallAfterClose(r) ==
    /\ phase = "dbClosed"
    /\ pc[r] \in {"addPurchase", "addTicket", "updateEvent"}
    /\ Goto(r, pc[r], "error500")
    /\ UNCHANGED <<database, broker, issued, process>>

GetAfterClose(r, e, q) ==
    /\ phase = "dbClosed"
    /\ Arrive(r, e, q, "error500")
    /\ UNCHANGED <<reserved, process>>

PublishAfterClose(r) ==
    /\ phase = "dbClosed"
    /\ PublishFails(r)
    /\ UNCHANGED process

RespondAfterClose(r) ==
    /\ phase = "dbClosed"
    /\ RespondCreated(r)
    /\ UNCHANGED process

Closed ==
    \/ \E r \in Requests :
          CallAfterClose(r) \/ PublishAfterClose(r) \/ RespondAfterClose(r)
    \/ \E r \in Requests, e \in Events, q \in 0 .. MaxQuantity : GetAfterClose(r, e, q)

APINext ==
    \/ Start \/ DeclareNext \/ Serve \/ StartFails
    \/ Stop \/ CloseChannel \/ CloseDatabase \/ Exit \/ Crash
    \/ LoseChannel \/ BrokerRecreated
    \/ Serving
    \/ Closed

APISpec == APIInit /\ [][APINext]_apiVars

-----------------------------------------------------------------------------
(* Properties                                                              *)

\* What main does to its requests as it starts and stops is no more than the
\* faults PurchaseService has: channels that close, calls that fail and
\* requests that are cut off.  So all that holds of purchases under faults
\* holds on SIGTERM (main.go:105-127).
ChannelSeen == phase \in Running => channelUp
Purchase == INSTANCE PurchaseService WITH
    channelUp <- ChannelSeen,
    Faults <- FaultKinds
ImplementsPurchaseService == Purchase!Spec

\* Nothing is published that the broker would drop for want of a queue, although
\* the consuming process may never have run, and the broker may have been
\* created anew: who publishes has bound all queues on the same connection
\* (main.go:57, connection.go:33-80).
PublishedIsRouted ==
    [][/\ announced' # announced => "ticket.created" \in bound
       /\ completed' # completed => "purchase.completed" \in bound]_apiVars
=============================================================================
