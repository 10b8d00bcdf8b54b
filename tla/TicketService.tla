--------------------------- MODULE TicketService ---------------------------
(***************************************************************************)
(* The Ticket API after the sale: the status column of the tickets table,  *)
(* the CancelTicket handlers and the consumer of ticket.used.              *)
(*                                                                         *)
(* Each handler reads the row, decides on the copy and writes the new      *)
(* status back WHERE id = ?, two separate calls; handlers run in their own *)
(* goroutines, the consumer in one.  Publisher and consumer share one AMQP *)
(* channel; nothing reopens it before the process is restarted.            *)
(***************************************************************************)
EXTENDS Broker

CONSTANT Cancellers    \* the cancel requests that may be served at once

VARIABLES
    row,         \* [Codes -> status]: tickets.status, "absent" without a row
    cancelPc,    \* per cancel request: its next call
    cancelCode,  \* per cancel request: the ticket it read as emitted
    syncPc,      \* the ticket.used consumer: its next call
    syncCode,    \* the code of the delivery it holds
    ticketUp     \* the AMQP channel of the Ticket API is open

cancelVars == <<cancelPc, cancelCode>>
syncVars == <<syncPc, syncCode>>
ticketVars == <<row, cancelVars, syncVars, ticketUp>>

TicketStatuses == {"emitted", "used", "cancelled"}
Terminal == {"used", "cancelled"}

TicketTypeOK ==
    /\ row \in [Codes -> TicketStatuses \cup {"absent"}]
    /\ cancelPc \in [Cancellers -> {"idle", "update", "publish"}]
    /\ cancelCode \in [Cancellers -> Codes \cup {NoCode}]
    /\ \A k \in Cancellers : cancelPc[k] # "idle" => cancelCode[k] \in Codes
    /\ syncPc \in {"idle", "get", "update", "ack"}
    /\ syncCode \in Codes \cup {NoCode}
    /\ syncPc # "idle" => syncCode \in Codes
    /\ ticketUp \in BOOLEAN

TicketInit ==
    /\ row = [c \in Codes |-> "absent"]
    /\ cancelPc = [k \in Cancellers |-> "idle"]
    /\ cancelCode = [k \in Cancellers |-> NoCode]
    /\ syncPc = "idle"
    /\ syncCode = NoCode
    /\ ticketUp = TRUE

-----------------------------------------------------------------------------
(* The two effects of Purchase on one ticket.                              *)

\* mutant of AddTicket: the status name of the validator
AddTicketActive(c) ==
    /\ row[c] = "absent"
    /\ row' = [row EXCEPT ![c] = "active"]
    /\ UNCHANGED <<cancelVars, syncVars, ticketUp, queue>>

\* ticketRepo.Add of a NewTicket
AddTicket(c) ==
    /\ row[c] = "absent"
    /\ row' = [row EXCEPT ![c] = "emitted"]
    /\ UNCHANGED <<cancelVars, syncVars, ticketUp, queue>>

PublishTicketCreated(c) ==
    /\ ticketUp
    /\ Publish("created", c)
    /\ UNCHANGED ticketVars

-----------------------------------------------------------------------------
(* CancelTicket.  A ticket that is absent, used or already cancelled is    *)
(* refused with 404 or 409 and nothing changes, so only the accepted read  *)
(* is a step.                                                              *)

\* Ticket.Cancel accepts the copy just read
Cancellable(status) == status = "emitted"

CancelGet(k, c) ==
    /\ cancelPc[k] = "idle"
    /\ Cancellable(row[c])
    /\ cancelPc' = [cancelPc EXCEPT ![k] = "update"]
    /\ cancelCode' = [cancelCode EXCEPT ![k] = c]
    /\ UNCHANGED <<row, syncVars, ticketUp, queue>>

CancelEnds(k) ==
    /\ cancelPc' = [cancelPc EXCEPT ![k] = "idle"]
    /\ cancelCode' = [cancelCode EXCEPT ![k] = NoCode]

\* the blind UPDATE, whatever the row says by now
SetRow(c, status) == [row EXCEPT ![c] = status]

CancelUpdate(k) ==
    /\ cancelPc[k] = "update"
    /\ row' = SetRow(cancelCode[k], "cancelled")
    /\ cancelPc' = [cancelPc EXCEPT ![k] = "publish"]
    /\ UNCHANGED <<cancelCode, syncVars, ticketUp, queue>>

\* mutant of CancelUpdateFails: the error is logged and the event published
CancelUpdateFailureLogged(k) ==
    /\ "db" \in Faults
    /\ cancelPc[k] = "update"
    /\ row' \in {row, SetRow(cancelCode[k], "cancelled")}
    /\ cancelPc' = [cancelPc EXCEPT ![k] = "publish"]
    /\ UNCHANGED <<cancelCode, syncVars, ticketUp, queue>>

\* the update fails, or took effect and its answer was lost: 500
CancelUpdateFails(k) ==
    /\ "db" \in Faults
    /\ cancelPc[k] = "update"
    /\ row' \in {row, SetRow(cancelCode[k], "cancelled")}
    /\ CancelEnds(k)
    /\ UNCHANGED <<syncVars, ticketUp, queue>>

\* mutant of CancelPublish: the wrong routing key
CancelPublishAsUsed(k) ==
    /\ cancelPc[k] = "publish"
    /\ IF ticketUp THEN Publish("used", cancelCode[k]) ELSE UNCHANGED queue
    /\ CancelEnds(k)
    /\ UNCHANGED <<row, syncVars, ticketUp>>

\* PublishTicketCancelled; on a closed channel it fails and the answer is 500
CancelPublish(k) ==
    /\ cancelPc[k] = "publish"
    /\ IF ticketUp THEN Publish("cancelled", cancelCode[k]) ELSE UNCHANGED queue
    /\ CancelEnds(k)
    /\ UNCHANGED <<row, syncVars, ticketUp>>

-----------------------------------------------------------------------------
(* TicketUsedConsumer.handleMessage and SyncTicketUsed.                    *)

SyncDeliver(c) ==
    /\ ticketUp
    /\ syncPc = "idle"
    /\ Deliver("used", c)
    /\ syncPc' = "get"
    /\ syncCode' = c
    /\ UNCHANGED <<row, cancelVars, ticketUp>>

\* the handler returns after an Ack, or after a Nack with requeue
SyncDone == syncPc' = "idle" /\ syncCode' = NoCode
SyncAcked == SyncDone /\ UNCHANGED queue
\* mutant of SyncNacked: Nack without requeue
SyncDropped == SyncDone /\ UNCHANGED queue

SyncNacked == SyncDone /\ Requeue("used", syncCode, ticketUp)

\* mutants of SyncGetSettled: only a cancelled ticket is worth a look; no test
\* for a ticket already used, which MarkAsUsed then rejects
SyncGetIgnored ==
    /\ syncPc = "get"
    /\ row[syncCode] # "cancelled"
    /\ SyncAcked
    /\ UNCHANGED <<row, cancelVars, ticketUp>>

SyncGetNotIdempotent ==
    /\ syncPc = "get"
    /\ row[syncCode] \in {"absent", "used"}
    /\ IF row[syncCode] = "used" THEN SyncNacked ELSE SyncAcked
    /\ UNCHANGED <<row, cancelVars, ticketUp>>

\* no such ticket, or already used: nothing to do
SyncGetSettled ==
    /\ syncPc = "get"
    /\ row[syncCode] \in {"absent", "used"}
    /\ SyncAcked
    /\ UNCHANGED <<row, cancelVars, ticketUp>>

SyncGetEmitted ==
    /\ syncPc = "get"
    /\ row[syncCode] = "emitted"
    /\ syncPc' = "update"
    /\ UNCHANGED <<row, cancelVars, syncCode, ticketUp, queue>>

\* MarkAsUsed rejects a cancelled ticket, and the message goes back
SyncGetCancelled ==
    /\ syncPc = "get"
    /\ row[syncCode] = "cancelled"
    /\ SyncNacked
    /\ UNCHANGED <<row, cancelVars, ticketUp>>

SyncUpdate ==
    /\ syncPc = "update"
    /\ row' = SetRow(syncCode, "used")
    /\ syncPc' = "ack"
    /\ UNCHANGED <<cancelVars, syncCode, ticketUp, queue>>

SyncAck ==
    /\ syncPc = "ack"
    /\ SyncAcked
    /\ UNCHANGED <<row, cancelVars, ticketUp>>

\* the query or the update fails; the update may have taken effect
SyncFails ==
    /\ "db" \in Faults
    /\ \/ syncPc = "get" /\ UNCHANGED row
       \/ syncPc = "update" /\ row' \in {row, SetRow(syncCode, "used")}
    /\ SyncNacked
    /\ UNCHANGED <<cancelVars, ticketUp>>

SyncStep ==
    \/ SyncGetSettled \/ SyncGetEmitted \/ SyncGetCancelled
    \/ SyncUpdate \/ SyncAck \/ SyncFails

-----------------------------------------------------------------------------
\* The broker takes back what the consumer of a lost channel held.
TakeBackUsed == Requeue("used", syncCode, ticketUp /\ syncPc # "idle")

\* The connection drops.  Handlers go on, publishes fail, the consumer takes
\* nothing more.
TicketDisconnect ==
    /\ "disconnect" \in Faults
    /\ ticketUp
    /\ ticketUp' = FALSE
    /\ TakeBackUsed
    /\ UNCHANGED <<row, cancelVars, syncVars>>

\* The process ends, with every handler in it, and is started again.
TicketRestart ==
    /\ "crash" \in Faults
    /\ TakeBackUsed
    /\ cancelPc' = [k \in Cancellers |-> "idle"]
    /\ cancelCode' = [k \in Cancellers |-> NoCode]
    /\ SyncDone
    /\ ticketUp' = TRUE
    /\ UNCHANGED row
=============================================================================
