---------------------------- MODULE TicketSystem ----------------------------
(***************************************************************************)
(* The life of a ticket across the two services: it is issued by the       *)
(* Ticket API, announced to the Validator API, scanned there, reported back*)
(* as used, and may be cancelled meanwhile.                                *)
(*                                                                         *)
(* Composes TicketService and ValidatorService over the queues of Broker   *)
(* and the /tickets/lookup request.  Tickets come into being as            *)
(* PurchaseService lets them, through the steps of TicketIssue: a purchase *)
(* may stop after any of them, and only a published purchase.completed     *)
(* (or the reply that follows it) discloses a code, so only completed codes*)
(* are scanned or cancelled.                                               *)
(***************************************************************************)
EXTENDS TicketService, ValidatorService

VARIABLES
    persisted, announced, completed,  \* the state of TicketIssue
    \* history, which no step reads:
    admitted,      \* codes some scan has decided to let in
    readmitted,    \* codes let in more than once
    cancelSynced,  \* codes whose ticket.cancelled was handled and acknowledged
    late           \* per scan: what had happened to its code when it started

Issue == INSTANCE TicketIssue WITH Tickets <- Codes

issueVars == <<persisted, announced, completed>>
historyVars == <<admitted, readmitted, cancelSynced, late>>
vars == <<queue, ticketVars, validatorVars, issueVars, historyVars>>

TypeOK ==
    /\ BrokerTypeOK
    /\ TicketTypeOK
    /\ ValidatorTypeOK
    /\ persisted \subseteq Codes
    /\ announced \subseteq Codes
    /\ completed \subseteq Codes
    /\ admitted \subseteq Codes
    /\ readmitted \subseteq Codes
    /\ cancelSynced \subseteq Codes
    /\ late \in [Scanners -> SUBSET {"admitted", "cancelSynced"}]

Init ==
    /\ BrokerInit
    /\ TicketInit
    /\ ValidatorInit
    /\ Issue!IssueInit
    /\ admitted = {}
    /\ readmitted = {}
    /\ cancelSynced = {}
    /\ late = [s \in Scanners |-> {}]

-----------------------------------------------------------------------------
(* Issuing a ticket                                                        *)

IssueTicket(c) ==
    /\ Issue!Persist(c)
    /\ AddTicket(c)
    /\ UNCHANGED <<validatorVars, historyVars>>

AnnounceTicket(c) ==
    /\ Issue!Announce(c)
    /\ PublishTicketCreated(c)
    /\ UNCHANGED <<validatorVars, historyVars>>

DiscloseTicket(c) ==
    /\ c \notin completed
    /\ Issue!Complete({c})
    /\ UNCHANGED <<queue, ticketVars, validatorVars, historyVars>>

Purchase(c) == IssueTicket(c) \/ AnnounceTicket(c) \/ DiscloseTicket(c)

-----------------------------------------------------------------------------
(* The Ticket API                                                          *)

Cancel(k) ==
    /\ \/ \E c \in completed : CancelGet(k, c)
       \/ CancelUpdate(k) \/ CancelUpdateFails(k)
       \/ CancelPublish(k)
    /\ UNCHANGED <<validatorVars, issueVars, historyVars>>

ConsumeUsed ==
    /\ (\E c \in Codes : SyncDeliver(c)) \/ SyncStep
    /\ UNCHANGED <<validatorVars, issueVars, historyVars>>

TicketApiFault ==
    /\ TicketDisconnect \/ TicketRestart
    /\ UNCHANGED <<validatorVars, issueVars, historyVars>>

-----------------------------------------------------------------------------
(* The Validator API                                                       *)

StartScan(s, c) ==
    /\ c \in completed
    /\ ScanGet(s, c)
    /\ late' = [late EXCEPT ![s] =
                   {h \in {"admitted", "cancelSynced"} :
                        \/ h = "admitted" /\ c \in admitted
                        \/ h = "cancelSynced" /\ c \in cancelSynced}]
    /\ UNCHANGED <<ticketVars, issueVars, admitted, readmitted, cancelSynced>>

ContinueScan(s) ==
    /\ \/ ScanUpdate(s) \/ ScanUpdateFails(s)
       \/ scanPc[s] = "lookup" /\ ScanLookup(s, row[scanCode[s]])
       \/ ScanRecord(s)
    /\ UNCHANGED <<ticketVars, issueVars, historyVars>>

Admit(s) ==
    /\ ScanPublish(s)
    /\ admitted' = admitted \cup {scanCode[s]}
    /\ readmitted' = readmitted \cup (admitted \cap {scanCode[s]})
    /\ UNCHANGED <<ticketVars, issueVars, cancelSynced, late>>

ConsumeCreated ==
    /\ (\E c \in Codes : CreatedDeliver(c)) \/ CreatedStep
    /\ UNCHANGED <<ticketVars, issueVars, historyVars>>

ConsumeCancelled ==
    /\ (\E c \in Codes : CancelledDeliver(c)) \/ CancelledStep
    /\ cancelSynced' = IF CancelledGetMissing \/ CancelledAck
                       THEN cancelSynced \cup {cancelledCode}
                       ELSE cancelSynced
    /\ UNCHANGED <<ticketVars, issueVars, admitted, readmitted, late>>

ValidatorApiFault ==
    /\ ValidatorDisconnect \/ ValidatorRestart
    /\ UNCHANGED <<ticketVars, issueVars, historyVars>>

-----------------------------------------------------------------------------
BrokerFault ==
    /\ "loss" \in Faults
    /\ \E q \in Queues, c \in Codes : LoseMessage(q, c)
    /\ UNCHANGED <<ticketVars, validatorVars, issueVars, historyVars>>

Next ==
    \/ \E c \in Codes : Purchase(c)
    \/ \E k \in Cancellers : Cancel(k)
    \/ \E s \in Scanners, c \in Codes : StartScan(s, c)
    \/ \E s \in Scanners : ContinueScan(s) \/ Admit(s)
    \/ ConsumeUsed
    \/ ConsumeCreated
    \/ ConsumeCancelled
    \/ TicketApiFault
    \/ ValidatorApiFault
    \/ BrokerFault

Spec == Init /\ [][Next]_vars

-----------------------------------------------------------------------------
(* Fairness, one consumer at a time.  The goroutine of a consumer that can *)
(* go on does so, and the broker pushes every waiting message to it sooner *)
(* or later: strong fairness per code, because the consumer is busy with   *)
(* other messages in between.  A failed call puts the message back and a   *)
(* restart makes the broker deliver it again, so a call is tried over and  *)
(* over; strong fairness of the successful call says that the database and *)
(* the process do not fail it every time.  Purchases, cancel requests, new *)
(* scans and faults are under no fairness.                                 *)

CreatedFairness ==
    \A c \in Codes :
        /\ SF_vars(ConsumeCreated /\ CreatedDeliver(c))
        /\ SF_vars(ConsumeCreated /\ createdCode = c /\ (CreatedGetKnown \/ CreatedGetMissing))
        /\ SF_vars(ConsumeCreated /\ createdCode = c /\ CreatedAdd)
        /\ WF_vars(ConsumeCreated /\ createdCode = c /\ CreatedAck)

CancelledFairness ==
    \A c \in Codes :
        /\ SF_vars(ConsumeCancelled /\ CancelledDeliver(c))
        /\ SF_vars(/\ ConsumeCancelled /\ cancelledCode = c
                   /\ CancelledGetMissing \/ CancelledGetActive \/ CancelledGetSpent)
        /\ SF_vars(ConsumeCancelled /\ cancelledCode = c /\ CancelledUpdate)
        /\ WF_vars(ConsumeCancelled /\ cancelledCode = c /\ CancelledAck)

UsedFairness ==
    \A c \in Codes :
        /\ SF_vars(ConsumeUsed /\ SyncDeliver(c))
        /\ SF_vars(/\ ConsumeUsed /\ syncCode = c
                   /\ SyncGetSettled \/ SyncGetEmitted \/ SyncGetCancelled)
        /\ SF_vars(ConsumeUsed /\ syncCode = c /\ SyncUpdate)
        /\ WF_vars(ConsumeUsed /\ syncCode = c /\ SyncAck)

-----------------------------------------------------------------------------
(* Properties                                                              *)

HeldUsed(c) == syncPc # "idle" /\ syncCode = c

\* Once a record says used or cancelled it never says active again and is
\* never missing again: not by a redelivered or late ticket.created racing a
\* scan, a cancellation or the fallback, all of which SET without looking
\* (redis_valid_ticket_repository.go:66-93).
NoResurrection ==
    [][\A c \in Codes : cache[c] \in Terminal => cache'[c] \in Terminal]_vars

Ledger == INSTANCE TicketLedger

\* With all their queues, redeliveries and blind writes the two services keep
\* one ledger of a ticket: row and record only move forward, and each follows
\* what happened on the other side (internal/ticket/service.go:167-235,
\* internal/validator/service.go:60-225).
ImplementsTicketLedger == Ledger!LedgerSpec

\* A ticket that was let in is not let in again by a scan that starts later,
\* while messages are redelivered or lost and either process restarts.
LateScanRejected ==
    \A s \in Scanners : "admitted" \in late[s] => verdict[s] # "valid"

\* openapi-validator-api.yaml:37: valid: false for a ticket already used.  The line
\* makes no exception for scans that overlap; the services do, and break it.
AdmittedOnce == readmitted = {}

\* openapi-validator-api.yaml:37: valid: false for a cancelled ticket, once
\* the validator has acknowledged the cancellation before the scan starts.
CancelledScanRejected ==
    \A s \in Scanners : "cancelSynced" \in late[s] => verdict[s] # "valid"

\* The ticket service calls a ticket used, or is about to be told so, only if
\* the validator let its holder in.
UsedOnlyIfAdmitted ==
    \A c \in Codes :
        row[c] = "used" \/ queue["used"][c] > 0 \/ HeldUsed(c) => c \in admitted

\* The validator holds a ticket for cancelled, or is about to be told so, only
\* if the ticket service gave up selling it: its row never says emitted again.
CancelledOnlyIfWithdrawn ==
    \A c \in Codes :
        cache[c] = "cancelled" \/ queue["cancelled"][c] > 0 \/ HeldCancelled(c) =>
            row[c] \in Terminal

\* An announced ticket is known to the validator or its ticket.created is still
\* on the way, through failed calls, redeliveries, lost channels and restarts,
\* as long as the broker itself loses nothing.
CreatedNotLost ==
    "loss" \notin Faults =>
        \A c \in announced :
            cache[c] # "none" \/ queue["created"][c] > 0 \/ HeldCreated(c)

\* An admission is known to the ticket service or its ticket.used is still on
\* the way, unless the ticket was withdrawn; a lost channel or message breaks
\* it, because the validator only logs the failed publish (service.go:93-98).
AdmissionNotLost ==
    Faults \cap {"loss", "disconnect"} = {} =>
        \A c \in admitted :
            row[c] # "emitted" \/ queue["used"][c] > 0 \/ HeldUsed(c)

\* README.md:29: a scan of a ticket missing from Redis gets its answer from the
\* ticket service when no call fails.
FallbackAnswers == \A s \in Scanners : verdict[s] # "unable"

\* Every announced ticket becomes known to the validator.
AnnouncedReachesValidator ==
    \A c \in Codes : c \in announced ~> cache[c] # "none"

\* Every admission reaches the tickets table: a ticket.used that fails is
\* delivered again until the row says used, or was cancelled meanwhile.
AdmissionReported == \A c \in Codes : c \in admitted ~> row[c] \in Terminal

\* A report of use on its way is handled and acknowledged in the end, also when
\* it is delivered again, unless the ticket was cancelled: then MarkAsUsed
\* rejects it and the message is requeued for ever (ticket_used_consumer.go:86-88).
ReportSettles ==
    \A c \in Codes :
        queue["used"][c] > 0 ~>
            \/ queue["used"][c] = 0 /\ ~HeldUsed(c)
            \/ row[c] = "cancelled"
=============================================================================
