-------------------------- MODULE ValidatorService --------------------------
(***************************************************************************)
(* The Validator API: the valid tickets it keeps in Redis, POST /validate  *)
(* with its fast path and its fallback, and the consumers of ticket.created*)
(* and ticket.cancelled.                                                   *)
(*                                                                         *)
(* Scans run in one goroutine per request and each consumer in one of its  *)
(* own.  A Redis GET and the SET that follows are two calls; Update is the *)
(* same unconditional SET as Add.  A scan starts here with the code of a   *)
(* token whose signature was verified: a bad token touches nothing.        *)
(***************************************************************************)
EXTENDS Broker

CONSTANTS Scanners,             \* the scans that may be served at once
          LookupAuthenticated,  \* requests to /tickets/lookup carry a bearer
                                \* token: FALSE for the client as it is
          MaxBacklog            \* bound on the ticket.used copies per code a
                                \* new scan may add to

ASSUME ValidatorAssumption ==
    /\ LookupAuthenticated \in BOOLEAN
    /\ MaxBacklog \in Nat

VARIABLES
    cache,          \* [Codes -> status]: the Redis record, "none" if missing
    scanPc,         \* per scan: its next call
    scanCode,       \* per scan: the code being validated
    verdict,        \* per scan: the last answer given
    createdPc,      \* the ticket.created consumer: its next call
    createdCode,    \* the code of the delivery it holds
    cancelledPc,    \* the ticket.cancelled consumer: its next call
    cancelledCode,  \* the code of the delivery it holds
    validatorUp     \* the AMQP channel of the Validator API is open

scanVars == <<scanPc, scanCode, verdict>>
createdVars == <<createdPc, createdCode>>
cancelledVars == <<cancelledPc, cancelledCode>>
validatorVars == <<cache, scanVars, createdVars, cancelledVars, validatorUp>>

CacheStatuses == {"active", "used", "cancelled"}

\* "unable" is the answer valid: false, unable to validate ticket at this time
Verdicts == {"none", "valid", "invalid", "unable", "error"}

ValidatorTypeOK ==
    /\ cache \in [Codes -> CacheStatuses \cup {"none"}]
    /\ scanPc \in [Scanners -> {"idle", "update", "lookup", "record", "publish"}]
    /\ scanCode \in [Scanners -> Codes \cup {NoCode}]
    /\ \A s \in Scanners : scanPc[s] # "idle" => scanCode[s] \in Codes
    /\ verdict \in [Scanners -> Verdicts]
    /\ createdPc \in {"idle", "get", "add", "ack"}
    /\ createdCode \in Codes \cup {NoCode}
    /\ createdPc # "idle" => createdCode \in Codes
    /\ cancelledPc \in {"idle", "get", "update", "ack"}
    /\ cancelledCode \in Codes \cup {NoCode}
    /\ cancelledPc # "idle" => cancelledCode \in Codes
    /\ validatorUp \in BOOLEAN

ValidatorInit ==
    /\ cache = [c \in Codes |-> "none"]
    /\ scanPc = [s \in Scanners |-> "idle"]
    /\ scanCode = [s \in Scanners |-> NoCode]
    /\ verdict = [s \in Scanners |-> "none"]
    /\ createdPc = "idle"
    /\ createdCode = NoCode
    /\ cancelledPc = "idle"
    /\ cancelledCode = NoCode
    /\ validatorUp = TRUE

\* RedisValidTicketRepository.Add and Update: SET, whatever the record is now
SetRecord(c, status) == [cache EXCEPT ![c] = status]

-----------------------------------------------------------------------------
(* ValidateTicket                                                          *)

Answer(s, v) ==
    /\ scanPc' = [scanPc EXCEPT ![s] = "idle"]
    /\ scanCode' = [scanCode EXCEPT ![s] = NoCode]
    /\ verdict' = [verdict EXCEPT ![s] = v]

BeginScan(s, c, next) ==
    /\ scanPc' = [scanPc EXCEPT ![s] = next]
    /\ scanCode' = [scanCode EXCEPT ![s] = c]
    /\ verdict' = [verdict EXCEPT ![s] = "none"]

\* the fast path finds an active record
ScanGetActive(s, c) ==
    /\ cache[c] = "active"
    /\ BeginScan(s, c, "update")

\* the record says used or cancelled
ScanGetSpent(s, c) ==
    /\ cache[c] \in {"used", "cancelled"}
    /\ Answer(s, "invalid")

\* no record: ask the ticket service
ScanGetMissing(s, c) ==
    /\ cache[c] = "none"
    /\ BeginScan(s, c, "lookup")

ScanGetFails(s, c) ==
    /\ "db" \in Faults
    /\ Answer(s, "error")

ScanGet(s, c) ==
    /\ scanPc[s] = "idle"
    /\ queue["used"][c] < MaxBacklog
    /\ \/ ScanGetActive(s, c)
       \/ ScanGetSpent(s, c)
       \/ ScanGetMissing(s, c)
       \/ ScanGetFails(s, c)
    /\ UNCHANGED <<cache, createdVars, cancelledVars, validatorUp, queue>>

\* validateLocal marks its copy as used and writes it over the record
ScanUpdate(s) ==
    /\ scanPc[s] = "update"
    /\ cache' = SetRecord(scanCode[s], "used")
    /\ scanPc' = [scanPc EXCEPT ![s] = "publish"]
    /\ UNCHANGED <<scanCode, verdict, createdVars, cancelledVars, validatorUp, queue>>

\* mutant of ScanUpdateFails: the handler restores the record it had read
ScanUpdateRolledBack(s) ==
    /\ "db" \in Faults
    /\ scanPc[s] = "update"
    /\ cache' = SetRecord(scanCode[s], "active")
    /\ Answer(s, "error")
    /\ UNCHANGED <<createdVars, cancelledVars, validatorUp, queue>>

ScanUpdateFails(s) ==
    /\ "db" \in Faults
    /\ scanPc[s] = "update"
    /\ cache' \in {cache, SetRecord(scanCode[s], "used")}
    /\ Answer(s, "error")
    /\ UNCHANGED <<createdVars, cancelledVars, validatorUp, queue>>

\* TicketServiceHTTPClient.GetTicketByCode, the row having this status when
\* the ticket service reads it.  Without a bearer token the answer is 401.
LookupRefused(s) ==
    /\ ~LookupAuthenticated \/ "db" \in Faults
    /\ Answer(s, "unable")

LookupAnswered(s, status) ==
    /\ LookupAuthenticated
    /\ IF status = "emitted"
       THEN /\ scanPc' = [scanPc EXCEPT ![s] = "record"]
            /\ UNCHANGED <<scanCode, verdict>>
       ELSE Answer(s, "invalid")

ScanLookup(s, status) ==
    /\ scanPc[s] = "lookup"
    /\ LookupRefused(s) \/ LookupAnswered(s, status)
    /\ UNCHANGED <<cache, createdVars, cancelledVars, validatorUp, queue>>

\* mutant of LookupEventID: the reply carries the event of the ticket
LookupEventIDGiven == 1

\* the reply of the ticket service has no event, so the client fills in 0
LookupEventID == 0

\* NewValidTicket accepts the event of the ticket
ValidEventID(eventID) == eventID > 0

\* validateFallback stores the ticket as used if NewValidTicket accepts it;
\* any error is only logged
ScanRecord(s) ==
    /\ scanPc[s] = "record"
    /\ cache' \in IF ValidEventID(LookupEventID)
                  THEN {SetRecord(scanCode[s], "used")}
                       \cup (IF "db" \in Faults THEN {cache} ELSE {})
                  ELSE {cache}
    /\ scanPc' = [scanPc EXCEPT ![s] = "publish"]
    /\ UNCHANGED <<scanCode, verdict, createdVars, cancelledVars, validatorUp, queue>>

\* PublishTicketUsed; its error is only logged, and the holder is let in
ScanPublish(s) ==
    /\ scanPc[s] = "publish"
    /\ IF validatorUp THEN Publish("used", scanCode[s]) ELSE UNCHANGED queue
    /\ Answer(s, "valid")
    /\ UNCHANGED <<cache, createdVars, cancelledVars, validatorUp>>

-----------------------------------------------------------------------------
(* handleCreated and SyncTicketCreated                                     *)

CreatedDeliver(c) ==
    /\ validatorUp
    /\ createdPc = "idle"
    /\ Deliver("created", c)
    /\ createdPc' = "get"
    /\ createdCode' = c
    /\ UNCHANGED <<cache, scanVars, cancelledVars, validatorUp>>

CreatedDone == createdPc' = "idle" /\ createdCode' = NoCode
CreatedAcked == CreatedDone /\ UNCHANGED queue
\* mutant of CreatedNacked: Nack without requeue
CreatedDropped == CreatedDone /\ UNCHANGED queue

CreatedNacked == CreatedDone /\ Requeue("created", createdCode, validatorUp)

\* a record exists already: skip
CreatedGetKnown ==
    /\ createdPc = "get"
    /\ cache[createdCode] # "none"
    /\ CreatedAcked
    /\ UNCHANGED <<cache, scanVars, cancelledVars, validatorUp>>

\* mutant of CreatedGetMissing: no test for an existing record
CreatedGetAny ==
    /\ createdPc = "get"
    /\ createdPc' = "add"
    /\ UNCHANGED <<cache, scanVars, createdCode, cancelledVars, validatorUp, queue>>

CreatedGetMissing ==
    /\ createdPc = "get"
    /\ cache[createdCode] = "none"
    /\ createdPc' = "add"
    /\ UNCHANGED <<cache, scanVars, createdCode, cancelledVars, validatorUp, queue>>

CreatedAdd ==
    /\ createdPc = "add"
    /\ cache' = SetRecord(createdCode, "active")
    /\ createdPc' = "ack"
    /\ UNCHANGED <<scanVars, createdCode, cancelledVars, validatorUp, queue>>

CreatedAck ==
    /\ createdPc = "ack"
    /\ CreatedAcked
    /\ UNCHANGED <<cache, scanVars, cancelledVars, validatorUp>>

CreatedFails ==
    /\ "db" \in Faults
    /\ \/ createdPc = "get" /\ UNCHANGED cache
       \/ createdPc = "add" /\ cache' \in {cache, SetRecord(createdCode, "active")}
    /\ CreatedNacked
    /\ UNCHANGED <<scanVars, cancelledVars, validatorUp>>

CreatedStep ==
    \/ CreatedGetKnown \/ CreatedGetMissing
    \/ CreatedAdd \/ CreatedAck \/ CreatedFails

-----------------------------------------------------------------------------
(* handleCancelled and SyncTicketCancelled                                 *)

CancelledDeliver(c) ==
    /\ validatorUp
    /\ cancelledPc = "idle"
    /\ Deliver("cancelled", c)
    /\ cancelledPc' = "get"
    /\ cancelledCode' = c
    /\ UNCHANGED <<cache, scanVars, createdVars, validatorUp>>

CancelledDone == cancelledPc' = "idle" /\ cancelledCode' = NoCode
CancelledAcked == CancelledDone /\ UNCHANGED queue
CancelledNacked == CancelledDone /\ Requeue("cancelled", cancelledCode, validatorUp)

\* no record: acknowledged without a trace
CancelledGetMissing ==
    /\ cancelledPc = "get"
    /\ cache[cancelledCode] = "none"
    /\ CancelledAcked
    /\ UNCHANGED <<cache, scanVars, createdVars, validatorUp>>

CancelledGetActive ==
    /\ cancelledPc = "get"
    /\ cache[cancelledCode] = "active"
    /\ cancelledPc' = "update"
    /\ UNCHANGED <<cache, scanVars, createdVars, cancelledCode, validatorUp, queue>>

\* MarkAsCancelled rejects a used or cancelled copy, and the message goes back
CancelledGetSpent ==
    /\ cancelledPc = "get"
    /\ cache[cancelledCode] \in {"used", "cancelled"}
    /\ CancelledNacked
    /\ UNCHANGED <<cache, scanVars, createdVars, validatorUp>>

CancelledUpdate ==
    /\ cancelledPc = "update"
    /\ cache' = SetRecord(cancelledCode, "cancelled")
    /\ cancelledPc' = "ack"
    /\ UNCHANGED <<scanVars, createdVars, cancelledCode, validatorUp, queue>>

\* mutant of CancelledAck: the handled message is put back
CancelledAckRequeues ==
    /\ cancelledPc = "ack"
    /\ CancelledNacked
    /\ UNCHANGED <<cache, scanVars, createdVars, validatorUp>>

CancelledAck ==
    /\ cancelledPc = "ack"
    /\ CancelledAcked
    /\ UNCHANGED <<cache, scanVars, createdVars, validatorUp>>

CancelledFails ==
    /\ "db" \in Faults
    /\ \/ cancelledPc = "get" /\ UNCHANGED cache
       \/ cancelledPc = "update" /\ cache' \in {cache, SetRecord(cancelledCode, "cancelled")}
    /\ CancelledNacked
    /\ UNCHANGED <<scanVars, createdVars, validatorUp>>

CancelledStep ==
    \/ CancelledGetMissing \/ CancelledGetActive \/ CancelledGetSpent
    \/ CancelledUpdate \/ CancelledAck \/ CancelledFails

-----------------------------------------------------------------------------
\* The broker takes back what the consumers of a lost channel held.
HeldCreated(c) == createdPc # "idle" /\ createdCode = c
HeldCancelled(c) == cancelledPc # "idle" /\ cancelledCode = c

TakeBackDeliveries ==
    queue' = IF ~validatorUp THEN queue
             ELSE [queue EXCEPT
                     !["created"] = [c \in Codes |-> @[c] + IF HeldCreated(c) THEN 1 ELSE 0],
                     !["cancelled"] = [c \in Codes |-> @[c] + IF HeldCancelled(c) THEN 1 ELSE 0]]

ValidatorDisconnect ==
    /\ "disconnect" \in Faults
    /\ validatorUp
    /\ validatorUp' = FALSE
    /\ TakeBackDeliveries
    /\ UNCHANGED <<cache, scanVars, createdVars, cancelledVars>>

\* The process ends, its scans with it, and is started again.
ValidatorRestart ==
    /\ "crash" \in Faults
    /\ TakeBackDeliveries
    /\ scanPc' = [s \in Scanners |-> "idle"]
    /\ scanCode' = [s \in Scanners |-> NoCode]
    /\ verdict' = [s \in Scanners |-> IF scanPc[s] = "idle" THEN verdict[s] ELSE "error"]
    /\ CreatedDone
    /\ CancelledDone
    /\ validatorUp' = TRUE
    /\ UNCHANGED cache
=============================================================================
