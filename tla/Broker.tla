------------------------------- MODULE Broker -------------------------------
(***************************************************************************)
(* The queues of RabbitMQ that carry ticket events between the Ticket API  *)
(* and the Validator API, as SetupTopology binds them                      *)
(* (internal/platform/rabbitmq/connection.go).                             *)
(*                                                                         *)
(* A queue is the number of copies waiting per ticket code: consumers set  *)
(* no prefetch limit and put failed messages back, so nothing may be       *)
(* assumed about the order across codes, and copies for one code are all   *)
(* alike.  A delivery that is not yet acknowledged is held by its consumer.*)
(***************************************************************************)
EXTENDS Naturals

CONSTANTS Codes,   \* ticket codes
          NoCode,  \* the code of a handler that has none
          Faults   \* the kinds of failure that may occur

\* "db": a database, cache or lookup call fails, with or without its effect;
\* "disconnect": a process loses its AMQP connection; "crash": a process ends
\* and is started again; "loss": the broker drops a message
FaultKinds == {"db", "disconnect", "crash", "loss"}

ASSUME BrokerAssumption ==
    /\ NoCode \notin Codes
    /\ Faults \subseteq FaultKinds

VARIABLE queue     \* [Queues -> [Codes -> Nat]]

\* validator.ticket.created, validator.ticket.cancelled, ticket.ticket.used
Queues == {"created", "cancelled", "used"}

BrokerTypeOK == queue \in [Queues -> [Codes -> Nat]]

BrokerInit == queue = [q \in Queues |-> [c \in Codes |-> 0]]

Put(q, c) == [queue EXCEPT ![q][c] = @ + 1]

\* channel.PublishWithContext: the routing key of the event leads to queue q
Publish(q, c) == queue' = Put(q, c)

\* the broker hands a copy to the consumer of q
Deliver(q, c) ==
    /\ queue[q][c] > 0
    /\ queue' = [queue EXCEPT ![q][c] = @ - 1]

\* Nack with requeue, or the broker taking back the deliveries of a closed
\* channel.  On a channel that is no longer open Nack and Ack do nothing: the
\* broker has already taken the delivery back.
Requeue(q, c, open) == queue' = IF open THEN Put(q, c) ELSE queue

\* Messages are published without DeliveryMode, so they do not survive a
\* broker restart, and without confirms, so a publish that returns nil may
\* never have arrived.
LoseMessage(q, c) == Deliver(q, c)
=============================================================================
