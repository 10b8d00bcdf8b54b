------------------------- MODULE TicketSystemProofs -------------------------
(***************************************************************************)
(* Theorems about TicketSystem for any tickets, scans, cancel requests and *)
(* faults.                                                                 *)
(***************************************************************************)
EXTENDS TicketSystem, TLAPS

\* What the handlers of the validator rely on about the record they read: only
\* the consumer of ticket.created, one goroutine, ever creates a record.
RecordsInv ==
    /\ createdPc = "add" => cache[createdCode] = "none"
    /\ createdPc = "ack" => cache[createdCode] # "none"
    /\ cancelledPc \in {"update", "ack"} => cache[cancelledCode] # "none"
    /\ \A s \in Scanners : scanPc[s] = "update" => cache[scanCode[s]] # "none"

\* Without the fallback, a ticket is let in only after its record says so.
AdmissionInv ==
    ~LookupAuthenticated =>
        /\ \A c \in admitted : cache[c] \in Terminal
        /\ \A s \in Scanners :
            /\ scanPc[s] # "record"
            /\ scanPc[s] = "publish" => cache[scanCode[s]] \in Terminal
            /\ scanPc[s] \in {"update", "publish"} => "admitted" \notin late[s]
            /\ "admitted" \in late[s] => verdict[s] # "valid"

\* Rows exist for the tickets issued, a handler about to write a row has read
\* it, and only disclosed codes are scanned.
RowsInv ==
    /\ \A c \in Codes : c \in persisted <=> row[c] # "absent"
    /\ \A k \in Cancellers : cancelPc[k] # "idle" => row[cancelCode[k]] # "absent"
    /\ syncPc = "update" => row[syncCode] # "absent"
    /\ announced \subseteq persisted
    /\ completed \subseteq announced
    /\ \A s \in Scanners : scanPc[s] # "idle" => scanCode[s] \in completed
    /\ admitted \subseteq completed

\* A cancel request that has written the row is about to publish.
CancelInv ==
    /\ \A k \in Cancellers : cancelPc[k] = "publish" => row[cancelCode[k]] \in Terminal
    /\ CancelledOnlyIfWithdrawn

\* A delivery held on a lost channel is back in its queue already.
DeliveryInv ==
    "loss" \notin Faults =>
        \A c \in announced :
            \/ cache[c] # "none"
            \/ queue["created"][c] > 0
            \/ HeldCreated(c) /\ validatorUp

\* While connections last, a report of use is in its queue or held until the
\* row is no longer emitted.
ReportInv ==
    /\ "disconnect" \notin Faults => ticketUp /\ validatorUp
    /\ syncPc = "ack" => row[syncCode] \in Terminal
    /\ AdmissionNotLost

SystemInv ==
    /\ TypeOK
    /\ RecordsInv
    /\ AdmissionInv
    /\ RowsInv
    /\ UsedOnlyIfAdmitted
    /\ CancelInv
    /\ DeliveryInv
    /\ ReportInv

-----------------------------------------------------------------------------
\* A queue keeps its type when a copy is put in or taken out.
LEMMA PutType ==
    ASSUME BrokerTypeOK, NEW q \in Queues, NEW c \in Codes
    PROVE  Put(q, c) \in [Queues -> [Codes -> Nat]]
BY DEF BrokerTypeOK, Put

LEMMA DeliverType ==
    ASSUME BrokerTypeOK, NEW q \in Queues, NEW c \in Codes, Deliver(q, c)
    PROVE  BrokerTypeOK'
BY DEF BrokerTypeOK, Deliver

LEMMA TakeBackType ==
    ASSUME BrokerTypeOK, TakeBackDeliveries
    PROVE  BrokerTypeOK'
BY DEF BrokerTypeOK, TakeBackDeliveries, Queues

LEMMA PurchaseType ==
    ASSUME TypeOK, NEW c \in Codes, Purchase(c)
    PROVE  TypeOK'
<1> USE DEF TypeOK, TicketTypeOK, ValidatorTypeOK, ticketVars, cancelVars, syncVars,
            validatorVars, scanVars, createdVars, cancelledVars, historyVars, TicketStatuses
<1>1. CASE IssueTicket(c)
  BY <1>1 DEF IssueTicket, AddTicket, Issue!Persist, BrokerTypeOK
<1>2. CASE AnnounceTicket(c)
  BY <1>2, PutType DEF AnnounceTicket, PublishTicketCreated, Publish, Issue!Announce, BrokerTypeOK, Queues
<1>3. CASE DiscloseTicket(c)
  BY <1>3 DEF DiscloseTicket, Issue!Complete, BrokerTypeOK
<1> QED BY <1>1, <1>2, <1>3 DEF Purchase

LEMMA CancelType ==
    ASSUME TypeOK, NEW k \in Cancellers, Cancel(k)
    PROVE  TypeOK'
<1> USE DEF TypeOK, TicketTypeOK, ValidatorTypeOK, ticketVars, cancelVars, syncVars, issueVars,
            validatorVars, scanVars, createdVars, cancelledVars, historyVars, TicketStatuses
<1>1. ASSUME NEW c \in completed, CancelGet(k, c)
      PROVE  TypeOK'
  BY <1>1 DEF Cancel, CancelGet, BrokerTypeOK
<1>2. CASE CancelUpdate(k)
  BY <1>2 DEF Cancel, CancelUpdate, SetRow, BrokerTypeOK
<1>3. CASE CancelUpdateFails(k)
  BY <1>3 DEF Cancel, CancelUpdateFails, CancelEnds, SetRow, BrokerTypeOK
<1>4. CASE CancelPublish(k)
  <2>1. cancelCode[k] \in Codes
    BY <1>4 DEF CancelPublish
  <2>2. BrokerTypeOK'
    BY <1>4, <2>1, PutType DEF CancelPublish, Publish, BrokerTypeOK, Queues
  <2> QED BY <1>4, <2>2 DEF Cancel, CancelPublish, CancelEnds
<1> QED BY <1>1, <1>2, <1>3, <1>4 DEF Cancel

LEMMA ConsumeUsedType ==
    ASSUME TypeOK, ConsumeUsed
    PROVE  TypeOK'
<1> USE DEF TypeOK, TicketTypeOK, ValidatorTypeOK, ticketVars, cancelVars, syncVars, issueVars,
            validatorVars, scanVars, createdVars, cancelledVars, historyVars, TicketStatuses
<1>1. ASSUME NEW c \in Codes, SyncDeliver(c)
      PROVE  TypeOK'
  BY <1>1, DeliverType DEF ConsumeUsed, SyncDeliver, Queues
<1>2. CASE SyncGetSettled \/ SyncAck
  BY <1>2 DEF ConsumeUsed, SyncGetSettled, SyncAck, SyncAcked, SyncDone, BrokerTypeOK
<1>3. CASE SyncGetEmitted \/ SyncUpdate
  BY <1>3 DEF ConsumeUsed, SyncGetEmitted, SyncUpdate, SetRow, BrokerTypeOK
<1>4. CASE SyncGetCancelled
  BY <1>4, PutType DEF ConsumeUsed, SyncGetCancelled, SyncNacked, SyncDone, Requeue, BrokerTypeOK, Queues
<1>5. CASE SyncFails
  BY <1>5, PutType DEF ConsumeUsed, SyncFails, SyncNacked, SyncDone, Requeue, SetRow, BrokerTypeOK, Queues
<1> QED BY <1>1, <1>2, <1>3, <1>4, <1>5 DEF ConsumeUsed, SyncStep

LEMMA TicketApiFaultType ==
    ASSUME TypeOK, TicketApiFault
    PROVE  TypeOK'
<1> USE DEF TypeOK, TicketTypeOK, ValidatorTypeOK, ticketVars, cancelVars, syncVars, issueVars,
            validatorVars, scanVars, createdVars, cancelledVars, historyVars, TicketStatuses
<1>1. CASE TicketDisconnect
  BY <1>1, PutType DEF TicketApiFault, TicketDisconnect, TakeBackUsed, Requeue, BrokerTypeOK, Queues
<1>2. CASE TicketRestart
  BY <1>2, PutType DEF TicketApiFault, TicketRestart, TakeBackUsed, Requeue, SyncDone, BrokerTypeOK, Queues
<1> QED BY <1>1, <1>2 DEF TicketApiFault

\* The three variables of the scans keep their types when a scan is answered.
LEMMA AnswerType ==
    ASSUME ValidatorTypeOK, NEW s \in Scanners, NEW v \in Verdicts, Answer(s, v)
    PROVE  /\ scanPc' \in [Scanners -> {"idle", "update", "lookup", "record", "publish"}]
           /\ scanCode' \in [Scanners -> Codes \cup {NoCode}]
           /\ \A r \in Scanners : scanPc'[r] # "idle" => scanCode'[r] \in Codes
           /\ verdict' \in [Scanners -> Verdicts]
<1>1. verdict' \in [Scanners -> Verdicts]
  BY DEF ValidatorTypeOK, Answer
<1> QED BY <1>1 DEF ValidatorTypeOK, Answer

LEMMA StartScanType ==
    ASSUME TypeOK, NEW s \in Scanners, NEW c \in Codes, StartScan(s, c)
    PROVE  TypeOK'
<1> USE DEF TypeOK, TicketTypeOK, ValidatorTypeOK, ticketVars, cancelVars, syncVars, issueVars,
            createdVars, cancelledVars, BrokerTypeOK
<1>1. late' \in [Scanners -> SUBSET {"admitted", "cancelSynced"}]
  BY DEF StartScan
<1>2. ASSUME NEW v \in Verdicts, Answer(s, v)
      PROVE  TypeOK'
  BY <1>1, <1>2, AnswerType DEF StartScan, ScanGet
<1>3. ASSUME NEW p \in {"update", "lookup"}, BeginScan(s, c, p)
      PROVE  TypeOK'
  BY <1>1, <1>3 DEF StartScan, ScanGet, BeginScan, Verdicts
<1>4. \/ \E v \in Verdicts : Answer(s, v)
      \/ \E p \in {"update", "lookup"} : BeginScan(s, c, p)
  BY DEF StartScan, ScanGet, ScanGetActive, ScanGetSpent, ScanGetMissing, ScanGetFails, Verdicts
<1> QED BY <1>2, <1>3, <1>4

LEMMA ContinueScanType ==
    ASSUME TypeOK, NEW s \in Scanners, ContinueScan(s)
    PROVE  TypeOK'
<1> USE DEF TypeOK, TicketTypeOK, ValidatorTypeOK, ticketVars, cancelVars, syncVars, issueVars,
            createdVars, cancelledVars, historyVars, BrokerTypeOK, Verdicts, CacheStatuses
<1>1. CASE ScanUpdate(s)
  BY <1>1 DEF ContinueScan, ScanUpdate, SetRecord
<1>2. CASE ScanUpdateFails(s)
  <2>1. cache' \in [Codes -> CacheStatuses \cup {"none"}]
    BY <1>2 DEF ScanUpdateFails, SetRecord
  <2> QED BY <1>2, <2>1, AnswerType DEF ContinueScan, ScanUpdateFails
<1>3. CASE ScanLookup(s, row[scanCode[s]])
  <2>1. ASSUME NEW v \in Verdicts, Answer(s, v)
        PROVE  TypeOK'
    BY <1>3, <2>1, AnswerType DEF ContinueScan, ScanLookup
  <2>2. ASSUME scanPc' = [scanPc EXCEPT ![s] = "record"], UNCHANGED <<scanCode, verdict>>
        PROVE  TypeOK'
    BY <1>3, <2>2 DEF ContinueScan, ScanLookup
  <2> QED BY <1>3, <2>1, <2>2 DEF ScanLookup, LookupRefused, LookupAnswered
<1>4. CASE ScanRecord(s)
  BY <1>4 DEF ContinueScan, ScanRecord, SetRecord
<1> QED BY <1>1, <1>2, <1>3, <1>4 DEF ContinueScan

LEMMA AdmitType ==
    ASSUME TypeOK, NEW s \in Scanners, Admit(s)
    PROVE  TypeOK'
<1> USE DEF TypeOK, TicketTypeOK, ValidatorTypeOK, ticketVars, cancelVars, syncVars, issueVars,
            createdVars, cancelledVars, Verdicts
<1>1. scanCode[s] \in Codes
  BY DEF Admit, ScanPublish
<1>2. BrokerTypeOK'
  BY <1>1, PutType DEF Admit, ScanPublish, Publish, Queues, BrokerTypeOK
<1> QED BY <1>1, <1>2 DEF Admit, ScanPublish, Answer

LEMMA ConsumeCreatedType ==
    ASSUME TypeOK, ConsumeCreated
    PROVE  TypeOK'
<1> USE DEF TypeOK, TicketTypeOK, ValidatorTypeOK, ticketVars, cancelVars, syncVars, issueVars,
            scanVars, cancelledVars, historyVars, CacheStatuses
<1>1. ASSUME NEW c \in Codes, CreatedDeliver(c)
      PROVE  TypeOK'
  BY <1>1, DeliverType DEF ConsumeCreated, CreatedDeliver, Queues
<1>2. CASE CreatedGetKnown \/ CreatedAck
  BY <1>2 DEF ConsumeCreated, CreatedGetKnown, CreatedAck, CreatedAcked, CreatedDone, BrokerTypeOK
<1>3. CASE CreatedGetMissing \/ CreatedAdd
  BY <1>3 DEF ConsumeCreated, CreatedGetMissing, CreatedAdd, SetRecord, BrokerTypeOK
<1>4. CASE CreatedFails
  <2>1. createdCode \in Codes
    BY <1>4 DEF CreatedFails
  <2>2. BrokerTypeOK'
    BY <1>4, <2>1, PutType DEF CreatedFails, CreatedNacked, Requeue, BrokerTypeOK, Queues
  <2> QED BY <1>4, <2>1, <2>2 DEF ConsumeCreated, CreatedFails, CreatedNacked, CreatedDone, SetRecord
<1> QED BY <1>1, <1>2, <1>3, <1>4 DEF ConsumeCreated, CreatedStep

LEMMA ConsumeCancelledType ==
    ASSUME TypeOK, ConsumeCancelled
    PROVE  TypeOK'
<1> USE DEF TypeOK, TicketTypeOK, ValidatorTypeOK, ticketVars, cancelVars, syncVars, issueVars,
            scanVars, createdVars, CacheStatuses
<1>1. cancelSynced' \subseteq Codes
  BY DEF ConsumeCancelled, CancelledGetMissing, CancelledAck
<1>2. ASSUME NEW c \in Codes, CancelledDeliver(c)
      PROVE  TypeOK'
  BY <1>1, <1>2, DeliverType DEF ConsumeCancelled, CancelledDeliver, Queues
<1>3. CASE CancelledGetMissing \/ CancelledAck
  BY <1>1, <1>3 DEF ConsumeCancelled, CancelledGetMissing, CancelledAck, CancelledAcked,
                    CancelledDone, BrokerTypeOK
<1>4. CASE CancelledGetActive \/ CancelledUpdate
  BY <1>1, <1>4 DEF ConsumeCancelled, CancelledGetActive, CancelledUpdate, SetRecord, BrokerTypeOK
<1>5. CASE CancelledGetSpent \/ CancelledFails
  <2>1. cancelledCode \in Codes
    BY <1>5 DEF CancelledGetSpent, CancelledFails
  <2>2. BrokerTypeOK'
    BY <1>5, <2>1, PutType DEF CancelledGetSpent, CancelledFails, CancelledNacked, Requeue,
                               BrokerTypeOK, Queues
  <2> QED BY <1>1, <1>5, <2>1, <2>2 DEF ConsumeCancelled, CancelledGetSpent, CancelledFails,
                                        CancelledNacked, CancelledDone, SetRecord
<1> QED BY <1>2, <1>3, <1>4, <1>5 DEF ConsumeCancelled, CancelledStep

LEMMA ValidatorApiFaultType ==
    ASSUME TypeOK, ValidatorApiFault
    PROVE  TypeOK'
<1> USE TakeBackType
    DEF TypeOK, TicketTypeOK, ValidatorTypeOK, ticketVars, cancelVars, syncVars, issueVars,
        scanVars, createdVars, cancelledVars, historyVars, Verdicts
<1>1. CASE ValidatorDisconnect
  BY <1>1 DEF ValidatorApiFault, ValidatorDisconnect
<1>2. CASE ValidatorRestart
  BY <1>2 DEF ValidatorApiFault, ValidatorRestart, CreatedDone, CancelledDone
<1> QED BY <1>1, <1>2 DEF ValidatorApiFault

LEMMA BrokerFaultType ==
    ASSUME TypeOK, BrokerFault
    PROVE  TypeOK'
BY DeliverType DEF BrokerFault, LoseMessage, TypeOK, TicketTypeOK, ValidatorTypeOK, ticketVars,
    cancelVars, syncVars, validatorVars, scanVars, createdVars, cancelledVars, issueVars, historyVars

LEMMA TypePreserved == TypeOK /\ [Next]_vars => TypeOK'
<1> SUFFICES ASSUME TypeOK, [Next]_vars PROVE TypeOK'
  OBVIOUS
<1>1. CASE Next
  BY <1>1, PurchaseType, CancelType, StartScanType, ContinueScanType, AdmitType, ConsumeUsedType,
     ConsumeCreatedType, ConsumeCancelledType, TicketApiFaultType, ValidatorApiFaultType,
     BrokerFaultType DEF Next
<1>2. CASE UNCHANGED vars
  BY <1>2 DEF vars, TypeOK, BrokerTypeOK, TicketTypeOK, ValidatorTypeOK, ticketVars, cancelVars,
     syncVars, validatorVars, scanVars, createdVars, cancelledVars, issueVars, historyVars
<1> QED BY <1>1, <1>2

-----------------------------------------------------------------------------
(* What the steps of the ticket service, and of the broker, leave alone.   *)

LEMMA StepCases ==
    ASSUME [Next]_vars
    PROVE  \/ UNCHANGED validatorVars /\ UNCHANGED historyVars
           \/ \E s \in Scanners, c \in Codes : StartScan(s, c)
           \/ \E s \in Scanners : ContinueScan(s)
           \/ \E s \in Scanners : Admit(s)
           \/ ConsumeCreated
           \/ ConsumeCancelled
           \/ ValidatorApiFault
<1>1. CASE Next
  BY <1>1 DEF Next, Purchase, IssueTicket, AnnounceTicket, DiscloseTicket, Cancel, ConsumeUsed,
              TicketApiFault, BrokerFault
<1>2. CASE UNCHANGED vars
  BY <1>2 DEF vars
<1> QED BY <1>1, <1>2

\* No record is created, spoilt or removed behind the back of a handler.
LEMMA RecordsPreserved ==
    ASSUME TypeOK, RecordsInv, [Next]_vars
    PROVE  RecordsInv'
<1> USE DEF RecordsInv, TypeOK, ValidatorTypeOK, scanVars, createdVars, cancelledVars
<1>1. CASE UNCHANGED validatorVars
  BY <1>1 DEF validatorVars
<1>2. ASSUME NEW s \in Scanners, NEW c \in Codes, StartScan(s, c)
      PROVE  RecordsInv'
  BY <1>2 DEF StartScan, ScanGet, ScanGetActive, ScanGetSpent, ScanGetMissing, ScanGetFails,
              BeginScan, Answer
<1>3. ASSUME NEW s \in Scanners, ContinueScan(s)
      PROVE  RecordsInv'
  <2>1. CASE ScanUpdate(s)
    BY <2>1 DEF ScanUpdate, SetRecord
  <2>2. CASE ScanUpdateFails(s)
    BY <2>2 DEF ScanUpdateFails, SetRecord, Answer
  <2>3. CASE ScanLookup(s, row[scanCode[s]])
    BY <2>3 DEF ScanLookup, LookupRefused, LookupAnswered, Answer
  <2>4. CASE ScanRecord(s)
    BY <2>4 DEF ScanRecord, ValidEventID, LookupEventID
  <2> QED BY <1>3, <2>1, <2>2, <2>3, <2>4 DEF ContinueScan
<1>4. ASSUME NEW s \in Scanners, Admit(s)
      PROVE  RecordsInv'
  BY <1>4 DEF Admit, ScanPublish, Answer
<1>5. CASE ConsumeCreated
  <2>1. ASSUME NEW c \in Codes, CreatedDeliver(c)
        PROVE  RecordsInv'
    BY <2>1 DEF CreatedDeliver
  <2>2. CASE CreatedGetKnown \/ CreatedGetMissing \/ CreatedAck
    BY <2>2 DEF CreatedGetKnown, CreatedGetMissing, CreatedAck, CreatedAcked, CreatedDone
  <2>3. CASE CreatedAdd
    BY <2>3 DEF CreatedAdd, SetRecord
  <2>4. CASE CreatedFails
    BY <2>4 DEF CreatedFails, CreatedNacked, CreatedDone, SetRecord
  <2> QED BY <1>5, <2>1, <2>2, <2>3, <2>4 DEF ConsumeCreated, CreatedStep
<1>6. CASE ConsumeCancelled
  <2>1. ASSUME NEW c \in Codes, CancelledDeliver(c)
        PROVE  RecordsInv'
    BY <2>1 DEF CancelledDeliver
  <2>2. CASE CancelledGetMissing \/ CancelledGetActive \/ CancelledGetSpent \/ CancelledAck
    BY <2>2 DEF CancelledGetMissing, CancelledGetActive, CancelledGetSpent, CancelledAck,
                CancelledAcked, CancelledNacked, CancelledDone
  <2>3. CASE CancelledUpdate
    BY <2>3 DEF CancelledUpdate, SetRecord
  <2>4. CASE CancelledFails
    BY <2>4 DEF CancelledFails, CancelledNacked, CancelledDone, SetRecord
  <2> QED BY <1>6, <2>1, <2>2, <2>3, <2>4 DEF ConsumeCancelled, CancelledStep
<1>7. CASE ValidatorApiFault
  BY <1>7 DEF ValidatorApiFault, ValidatorDisconnect, ValidatorRestart, CreatedDone, CancelledDone
<1> QED BY <1>1, <1>2, <1>3, <1>4, <1>5, <1>6, <1>7, StepCases

\* How a record may change in one step.
LEMMA RecordChanges ==
    ASSUME TypeOK, RecordsInv, [Next]_vars, NEW c \in Codes
    PROVE  \/ cache'[c] = cache[c]
           \/ cache[c] = "none" /\ createdPc = "add" /\ cache'[c] = "active"
           \/ cache[c] # "none" /\ cache'[c] = "used"
           \/ /\ cache[c] # "none"
              /\ cancelledPc = "update"
              /\ cancelledCode = c
              /\ cache'[c] = "cancelled"
<1> DEFINE Goal == \/ cache'[c] = cache[c]
                   \/ cache[c] = "none" /\ createdPc = "add" /\ cache'[c] = "active"
                   \/ cache[c] # "none" /\ cache'[c] = "used"
                   \/ /\ cache[c] # "none"
                      /\ cancelledPc = "update"
                      /\ cancelledCode = c
                      /\ cache'[c] = "cancelled"
<1> USE DEF RecordsInv, TypeOK, ValidatorTypeOK
<1>1. CASE UNCHANGED validatorVars
  BY <1>1 DEF validatorVars
<1>2. ASSUME NEW s \in Scanners, NEW d \in Codes, StartScan(s, d)
      PROVE  Goal
  BY <1>2 DEF StartScan, ScanGet
<1>3. ASSUME NEW s \in Scanners, ContinueScan(s)
      PROVE  Goal
  BY <1>3 DEF ContinueScan, ScanUpdate, ScanUpdateFails, ScanLookup, ScanRecord, SetRecord,
              ValidEventID, LookupEventID
<1>4. ASSUME NEW s \in Scanners, Admit(s)
      PROVE  Goal
  BY <1>4 DEF Admit, ScanPublish
<1>5. CASE ConsumeCreated
  BY <1>5 DEF ConsumeCreated, CreatedDeliver, CreatedStep, CreatedGetKnown, CreatedGetMissing,
              CreatedAdd, CreatedAck, CreatedFails, SetRecord
<1>6. CASE ConsumeCancelled
  BY <1>6 DEF ConsumeCancelled, CancelledDeliver, CancelledStep, CancelledGetMissing,
              CancelledGetActive, CancelledGetSpent, CancelledUpdate, CancelledAck,
              CancelledFails, SetRecord
<1>7. CASE ValidatorApiFault
  BY <1>7 DEF ValidatorApiFault, ValidatorDisconnect, ValidatorRestart
<1> QED BY <1>1, <1>2, <1>3, <1>4, <1>5, <1>6, <1>7, StepCases

\* Without the fallback, a scan that starts after an admission finds the record
\* spent, and one that got past an active record admits for the first time.
LEMMA AdmissionPreserved ==
    ASSUME TypeOK, RecordsInv, AdmissionInv, [Next]_vars
    PROVE  AdmissionInv'
<1> SUFFICES ASSUME ~LookupAuthenticated PROVE AdmissionInv'
  BY DEF AdmissionInv
<1>1. \A c \in Codes : cache[c] \in Terminal => cache'[c] \in Terminal
  BY RecordChanges DEF Terminal
<1>2. /\ admitted \subseteq Codes
      /\ \A s \in Scanners : scanPc[s] # "idle" => scanCode[s] \in Codes
  BY DEF TypeOK, ValidatorTypeOK
<1> USE DEF AdmissionInv
<1>3. CASE UNCHANGED validatorVars /\ UNCHANGED historyVars
  BY <1>3 DEF validatorVars, scanVars, historyVars
<1>4. ASSUME NEW s \in Scanners, NEW c \in Codes, StartScan(s, c)
      PROVE  AdmissionInv'
  <2>1. /\ cache' = cache
        /\ admitted' = admitted
        /\ "admitted" \in late'[s] <=> c \in admitted
        /\ \A r \in Scanners \ {s} : late'[r] = late[r]
    BY <1>4 DEF StartScan, ScanGet, TypeOK
  <2>2. /\ scanPc'[s] \in {"idle", "update", "lookup"}
        /\ scanPc'[s] = "update" => cache[c] = "active"
        /\ verdict'[s] # "valid"
        /\ \A r \in Scanners \ {s} :
              scanPc'[r] = scanPc[r] /\ scanCode'[r] = scanCode[r] /\ verdict'[r] = verdict[r]
    BY <1>4 DEF StartScan, ScanGet, ScanGetActive, ScanGetSpent, ScanGetMissing, ScanGetFails,
                BeginScan, Answer, TypeOK, ValidatorTypeOK
  <2> QED BY <2>1, <2>2 DEF Terminal
<1>5. ASSUME NEW s \in Scanners, ContinueScan(s)
      PROVE  AdmissionInv'
  <2>1. admitted' = admitted /\ late' = late
    BY <1>5 DEF ContinueScan, historyVars
  <2>2. CASE ScanUpdate(s)
    BY <1>1, <1>2, <2>1, <2>2 DEF ScanUpdate, SetRecord, Terminal, TypeOK, ValidatorTypeOK
  <2>3. ASSUME NEW v \in {"error", "unable"}, Answer(s, v)
        PROVE  AdmissionInv'
    BY <1>1, <1>2, <2>1, <2>3 DEF Answer, TypeOK, ValidatorTypeOK
  <2>4. ~ScanRecord(s)
    BY DEF ScanRecord
  <2> QED BY <1>5, <2>2, <2>3, <2>4 DEF ContinueScan, ScanUpdateFails, ScanLookup,
                                        LookupRefused, LookupAnswered
<1>6. ASSUME NEW s \in Scanners, Admit(s)
      PROVE  AdmissionInv'
  <2>1. scanPc[s] = "publish" /\ cache' = cache /\ late' = late
    BY <1>6 DEF Admit, ScanPublish
  <2>2. admitted' = admitted \cup {scanCode[s]}
    BY <1>6 DEF Admit
  <2>3. /\ scanPc'[s] = "idle"
        /\ \A r \in Scanners \ {s} :
              scanPc'[r] = scanPc[r] /\ scanCode'[r] = scanCode[r] /\ verdict'[r] = verdict[r]
    BY <1>6 DEF Admit, ScanPublish, Answer, TypeOK, ValidatorTypeOK
  <2> QED BY <2>1, <2>2, <2>3
<1>7. CASE ConsumeCreated
  <2>1. UNCHANGED <<scanVars, admitted, late>>
    BY <1>7 DEF ConsumeCreated, historyVars, CreatedDeliver, CreatedStep, CreatedGetKnown,
                CreatedGetMissing, CreatedAdd, CreatedAck, CreatedFails
  <2> QED BY <1>1, <1>2, <2>1 DEF scanVars
<1>8. CASE ConsumeCancelled
  <2>1. UNCHANGED <<scanVars, admitted, late>>
    BY <1>8 DEF ConsumeCancelled, CancelledDeliver, CancelledStep, CancelledGetMissing,
                CancelledGetActive, CancelledGetSpent, CancelledUpdate, CancelledAck, CancelledFails
  <2> QED BY <1>1, <1>2, <2>1 DEF scanVars
<1>9. CASE ValidatorApiFault
  BY <1>9 DEF ValidatorApiFault, ValidatorDisconnect, ValidatorRestart, historyVars, scanVars
<1> QED BY <1>3, <1>4, <1>5, <1>6, <1>7, <1>8, <1>9, StepCases

-----------------------------------------------------------------------------
\* How a row may change in one step.
LEMMA RowChanges ==
    ASSUME TypeOK, RowsInv, [Next]_vars, NEW c \in Codes
    PROVE  \/ row'[c] = row[c]
           \/ row[c] = "absent" /\ row'[c] = "emitted" /\ IssueTicket(c)
           \/ row[c] # "absent" /\ row'[c] = "used" /\ syncPc = "update" /\ syncCode = c
           \/ row[c] # "absent" /\ row'[c] = "cancelled"
<1> DEFINE Goal == \/ row'[c] = row[c]
                   \/ row[c] = "absent" /\ row'[c] = "emitted" /\ IssueTicket(c)
                   \/ row[c] # "absent" /\ row'[c] = "used" /\ syncPc = "update" /\ syncCode = c
                   \/ row[c] # "absent" /\ row'[c] = "cancelled"
<1> USE DEF TypeOK, TicketTypeOK, RowsInv
<1>1. ASSUME NEW d \in Codes, Purchase(d)
      PROVE  Goal
  BY <1>1 DEF Purchase, IssueTicket, AnnounceTicket, DiscloseTicket, AddTicket,
              PublishTicketCreated, ticketVars
<1>2. ASSUME NEW k \in Cancellers, Cancel(k)
      PROVE  Goal
  BY <1>2 DEF Cancel, CancelGet, CancelUpdate, CancelUpdateFails, CancelPublish, SetRow
<1>3. CASE ConsumeUsed
  BY <1>3 DEF ConsumeUsed, SyncDeliver, SyncStep, SyncGetSettled, SyncGetEmitted,
              SyncGetCancelled, SyncUpdate, SyncAck, SyncFails, SetRow
<1>4. CASE TicketApiFault
  BY <1>4 DEF TicketApiFault, TicketDisconnect, TicketRestart
<1>5. CASE UNCHANGED ticketVars
  BY <1>5 DEF ticketVars
<1> QED BY <1>1, <1>2, <1>3, <1>4, <1>5 DEF Next, vars, StartScan, ContinueScan, Admit,
           ConsumeCreated, ConsumeCancelled, ValidatorApiFault, BrokerFault

\* No row is removed, and none is emitted again.
LEMMA RowsOnlyAdvance ==
    ASSUME TypeOK, RowsInv, [Next]_vars, NEW c \in Codes
    PROVE  /\ row[c] # "absent" => row'[c] # "absent"
           /\ row[c] \in Terminal => row'[c] \in Terminal
BY RowChanges DEF Terminal

\* The steps that leave tickets neither issued, announced nor disclosed.
LEMMA IssueCases ==
    ASSUME [Next]_vars
    PROVE  UNCHANGED issueVars \/ \E c \in Codes : Purchase(c)
BY DEF Next, vars, issueVars, Cancel, ConsumeUsed, TicketApiFault, StartScan, ContinueScan, Admit,
       ConsumeCreated, ConsumeCancelled, ValidatorApiFault, BrokerFault, historyVars

LEMMA RowsPreserved ==
    ASSUME TypeOK, RowsInv, [Next]_vars
    PROVE  RowsInv'
<1>1. \A c \in Codes : c \in persisted' <=> row'[c] # "absent"
  <2>1. CASE UNCHANGED issueVars
    BY <2>1, RowChanges DEF RowsInv, issueVars, IssueTicket, Issue!Persist
  <2>2. ASSUME NEW c \in Codes, Purchase(c)
        PROVE  \A d \in Codes : d \in persisted' <=> row'[d] # "absent"
    BY <2>2 DEF Purchase, IssueTicket, AnnounceTicket, DiscloseTicket, AddTicket, ticketVars,
                PublishTicketCreated, Issue!Persist, Issue!Announce, Issue!Complete, RowsInv,
                TypeOK, TicketTypeOK
  <2> QED BY <2>1, <2>2, IssueCases
<1>2. /\ announced' \subseteq persisted'
      /\ completed' \subseteq announced'
      /\ completed \subseteq completed'
  <2>1. CASE UNCHANGED issueVars
    BY <2>1 DEF RowsInv, issueVars
  <2>2. ASSUME NEW c \in Codes, Purchase(c)
        PROVE  /\ announced' \subseteq persisted'
               /\ completed' \subseteq announced'
               /\ completed \subseteq completed'
    BY <2>2 DEF Purchase, IssueTicket, AnnounceTicket, DiscloseTicket, RowsInv,
                Issue!Persist, Issue!Announce, Issue!Complete
  <2> QED BY <2>1, <2>2, IssueCases
<1>3. \A k \in Cancellers : cancelPc'[k] # "idle" => row'[cancelCode'[k]] # "absent"
  <2>1. ASSUME NEW k \in Cancellers, Cancel(k)
        PROVE  \A j \in Cancellers : cancelPc'[j] # "idle" => row'[cancelCode'[j]] # "absent"
    BY <2>1, RowsOnlyAdvance
       DEF Cancel, CancelGet, Cancellable, CancelUpdate, CancelUpdateFails, CancelPublish,
           CancelEnds, RowsInv, TypeOK, TicketTypeOK
  <2>2. CASE UNCHANGED cancelVars
    BY <2>2, RowsOnlyAdvance DEF cancelVars, RowsInv, TypeOK, TicketTypeOK
  <2>3. CASE TicketRestart
    BY <2>3 DEF TicketRestart
  <2> QED BY <2>1, <2>2, <2>3
          DEF Next, vars, ticketVars, Purchase, IssueTicket, AddTicket, AnnounceTicket,
              PublishTicketCreated, DiscloseTicket, ConsumeUsed, SyncDeliver, SyncStep,
              SyncGetSettled, SyncGetEmitted, SyncGetCancelled, SyncUpdate, SyncAck, SyncFails,
              TicketApiFault, TicketDisconnect, StartScan, ContinueScan, Admit, ConsumeCreated,
              ConsumeCancelled, ValidatorApiFault, BrokerFault
<1>4. syncPc' = "update" => row'[syncCode'] # "absent"
  <2>1. CASE ConsumeUsed
    BY <2>1, RowsOnlyAdvance
       DEF ConsumeUsed, SyncDeliver, SyncStep, SyncGetSettled, SyncGetEmitted, SyncGetCancelled,
           SyncUpdate, SyncAck, SyncFails, SyncAcked, SyncNacked, SyncDone, RowsInv, TypeOK,
           TicketTypeOK
  <2>2. CASE UNCHANGED syncVars
    BY <2>2, RowsOnlyAdvance DEF syncVars, RowsInv, TypeOK, TicketTypeOK
  <2>3. CASE TicketRestart
    BY <2>3 DEF TicketRestart, SyncDone
  <2> QED BY <2>1, <2>2, <2>3
          DEF Next, vars, ticketVars, Purchase, IssueTicket, AddTicket, AnnounceTicket,
              PublishTicketCreated, DiscloseTicket, Cancel, CancelGet, CancelUpdate,
              CancelUpdateFails, CancelPublish, TicketApiFault, TicketDisconnect, StartScan,
              ContinueScan, Admit, ConsumeCreated, ConsumeCancelled, ValidatorApiFault, BrokerFault
<1> DEFINE ScansDisclosed == /\ \A s \in Scanners : scanPc[s] # "idle" => scanCode[s] \in completed
                             /\ admitted \subseteq completed
<1>5. ScansDisclosed'
  <2> USE <1>2 DEF RowsInv, TypeOK, ValidatorTypeOK
  <2>1. CASE UNCHANGED validatorVars /\ UNCHANGED historyVars
    BY <2>1 DEF validatorVars, scanVars, historyVars
  <2>2. ASSUME NEW s \in Scanners, NEW c \in Codes, StartScan(s, c)
        PROVE  ScansDisclosed'
    BY <2>2 DEF StartScan, ScanGet, ScanGetActive, ScanGetSpent, ScanGetMissing, ScanGetFails,
                BeginScan, Answer
  <2>3. ASSUME NEW s \in Scanners, ContinueScan(s)
        PROVE  ScansDisclosed'
    BY <2>3 DEF ContinueScan, ScanUpdate, ScanUpdateFails, ScanLookup, LookupRefused,
                LookupAnswered, ScanRecord, Answer, historyVars
  <2>4. ASSUME NEW s \in Scanners, Admit(s)
        PROVE  ScansDisclosed'
    BY <2>4 DEF Admit, ScanPublish, Answer
  <2>5. CASE ConsumeCreated
    BY <2>5 DEF ConsumeCreated, historyVars, scanVars, CreatedDeliver, CreatedStep,
                CreatedGetKnown, CreatedGetMissing, CreatedAdd, CreatedAck, CreatedFails
  <2>6. CASE ConsumeCancelled
    BY <2>6 DEF ConsumeCancelled, scanVars, CancelledDeliver, CancelledStep, CancelledGetMissing,
                CancelledGetActive, CancelledGetSpent, CancelledUpdate, CancelledAck, CancelledFails
  <2>7. CASE ValidatorApiFault
    BY <2>7 DEF ValidatorApiFault, ValidatorDisconnect, ValidatorRestart, historyVars, scanVars
  <2> QED BY <2>1, <2>2, <2>3, <2>4, <2>5, <2>6, <2>7, StepCases
<1> QED BY <1>1, <1>2, <1>3, <1>4, <1>5 DEF RowsInv

-----------------------------------------------------------------------------
(* Where messages come from and where they go.                             *)

LEMMA PutCount ==
    ASSUME BrokerTypeOK, NEW q \in Queues, NEW c \in Codes, NEW p \in Queues, NEW d \in Codes
    PROVE  Put(q, c)[p][d] = IF p = q /\ d = c THEN queue[p][d] + 1 ELSE queue[p][d]
BY DEF BrokerTypeOK, Put

LEMMA DeliverCount ==
    ASSUME BrokerTypeOK, NEW q \in Queues, NEW c \in Codes, Deliver(q, c),
           NEW p \in Queues, NEW d \in Codes
    PROVE  /\ queue'[p][d] = IF p = q /\ d = c THEN queue[p][d] - 1 ELSE queue[p][d]
           /\ queue[q][c] > 0
BY DEF BrokerTypeOK, Deliver

\* The steps that may touch ticket.ticket.used or its consumer.
LEMMA UsedCases ==
    ASSUME TypeOK, [Next]_vars
    PROVE  \/ queue'["used"] = queue["used"] /\ UNCHANGED <<syncVars, ticketUp>>
           \/ ConsumeUsed
           \/ TicketApiFault
           \/ \E s \in Scanners : Admit(s)
           \/ BrokerFault
<1> DEFINE Goal == queue'["used"] = queue["used"] /\ UNCHANGED <<syncVars, ticketUp>>
<1> USE DEF TypeOK, BrokerTypeOK, Queues, ticketVars
<1>1. ASSUME NEW c \in Codes, Purchase(c)
      PROVE  Goal
  BY <1>1 DEF Purchase, IssueTicket, AnnounceTicket, DiscloseTicket, AddTicket,
              PublishTicketCreated, Publish, Put
<1>2. ASSUME NEW k \in Cancellers, Cancel(k)
      PROVE  Goal
  BY <1>2 DEF Cancel, CancelGet, CancelUpdate, CancelUpdateFails, CancelPublish, Publish, Put
<1>3. ASSUME NEW s \in Scanners, NEW c \in Codes, StartScan(s, c)
      PROVE  Goal
  BY <1>3 DEF StartScan, ScanGet
<1>4. ASSUME NEW s \in Scanners, ContinueScan(s)
      PROVE  Goal
  BY <1>4 DEF ContinueScan, ScanUpdate, ScanUpdateFails, ScanLookup, ScanRecord
<1>5. CASE ConsumeCreated
  BY <1>5 DEF ConsumeCreated, CreatedDeliver, CreatedStep, CreatedGetKnown, CreatedGetMissing,
              CreatedAdd, CreatedAck, CreatedFails, CreatedAcked, CreatedNacked, Requeue, Put, Deliver
<1>6. CASE ConsumeCancelled
  BY <1>6 DEF ConsumeCancelled, CancelledDeliver, CancelledStep, CancelledGetMissing,
              CancelledGetActive, CancelledGetSpent, CancelledUpdate, CancelledAck, CancelledFails,
              CancelledAcked, CancelledNacked, Requeue, Put, Deliver
<1>7. CASE ValidatorApiFault
  BY <1>7 DEF ValidatorApiFault, ValidatorDisconnect, ValidatorRestart, TakeBackDeliveries
<1>8. CASE UNCHANGED vars
  BY <1>8 DEF vars
<1> QED BY <1>1, <1>2, <1>3, <1>4, <1>5, <1>6, <1>7, <1>8 DEF Next

\* Only an admission puts a new report of use on its way.
LEMMA ReportsComeFromAdmissions ==
    ASSUME TypeOK, [Next]_vars, NEW c \in Codes,
           queue'["used"][c] > 0 \/ HeldUsed(c)'
    PROVE  queue["used"][c] > 0 \/ HeldUsed(c) \/ c \in admitted'
<1> DEFINE Goal == queue["used"][c] > 0 \/ HeldUsed(c) \/ c \in admitted'
<1> USE DEF HeldUsed
<1>1. BrokerTypeOK /\ syncCode \in Codes \cup {NoCode} /\ "used" \in Queues
  BY DEF TypeOK, TicketTypeOK, Queues
<1>2. syncPc # "idle" => syncCode \in Codes
  BY DEF TypeOK, TicketTypeOK
<1>3. queue["used"][c] \in Nat
  BY <1>1 DEF BrokerTypeOK
<1>4. CASE queue'["used"] = queue["used"] /\ UNCHANGED syncVars
  BY <1>4 DEF syncVars
<1>5. CASE ConsumeUsed
  <2>1. ASSUME NEW d \in Codes, SyncDeliver(d)
        PROVE  Goal
    BY <1>1, <1>3, <2>1, DeliverCount DEF SyncDeliver
  <2>2. CASE SyncGetSettled \/ SyncGetEmitted \/ SyncUpdate \/ SyncAck
    BY <2>2 DEF SyncGetSettled, SyncGetEmitted, SyncUpdate, SyncAck, SyncAcked, SyncDone
  <2>3. CASE SyncGetCancelled \/ SyncFails
    BY <1>1, <1>2, <1>3, <2>3, PutCount
       DEF SyncGetCancelled, SyncFails, SyncNacked, SyncDone, Requeue
  <2> QED BY <1>5, <2>1, <2>2, <2>3 DEF ConsumeUsed, SyncStep
<1>6. CASE TicketApiFault
  BY <1>1, <1>2, <1>3, <1>6, PutCount
     DEF TicketApiFault, TicketDisconnect, TicketRestart, TakeBackUsed, Requeue, SyncDone, syncVars
<1>7. ASSUME NEW s \in Scanners, Admit(s)
      PROVE  Goal
  <2>1. scanCode[s] \in Codes
    BY <1>7 DEF Admit, ScanPublish, TypeOK, ValidatorTypeOK
  <2> QED BY <1>1, <1>3, <1>7, <2>1, PutCount DEF Admit, ScanPublish, Publish, ticketVars, syncVars
<1>8. CASE BrokerFault
  BY <1>1, <1>3, <1>8, DeliverCount DEF BrokerFault, LoseMessage, ticketVars, syncVars
<1> QED BY <1>4, <1>5, <1>6, <1>7, <1>8, UsedCases

LEMMA AdmittedGrows ==
    ASSUME [Next]_vars
    PROVE  admitted \subseteq admitted'
BY DEF Next, vars, historyVars, Purchase, IssueTicket, AnnounceTicket, DiscloseTicket, Cancel,
       ConsumeUsed, TicketApiFault, StartScan, ContinueScan, Admit, ConsumeCreated,
       ConsumeCancelled, ValidatorApiFault, BrokerFault

LEMMA UsedPreserved ==
    ASSUME TypeOK, RowsInv, UsedOnlyIfAdmitted, [Next]_vars
    PROVE  UsedOnlyIfAdmitted'
<1> SUFFICES ASSUME NEW c \in Codes,
                    (row[c] = "used" \/ queue["used"][c] > 0 \/ HeldUsed(c))'
             PROVE  c \in admitted'
  BY DEF UsedOnlyIfAdmitted
<1>1. CASE row'[c] = "used"
  <2>1. row[c] = "used" \/ HeldUsed(c)
    BY <1>1, RowChanges DEF HeldUsed
  <2> QED BY <2>1, AdmittedGrows DEF UsedOnlyIfAdmitted
<1>2. CASE queue'["used"][c] > 0 \/ HeldUsed(c)'
  BY <1>2, ReportsComeFromAdmissions, AdmittedGrows DEF UsedOnlyIfAdmitted
<1> QED BY <1>1, <1>2

-----------------------------------------------------------------------------
\* The steps that may touch validator.ticket.cancelled or its consumer.
LEMMA CancelledCases ==
    ASSUME TypeOK, [Next]_vars
    PROVE  \/ queue'["cancelled"] = queue["cancelled"] /\ UNCHANGED cancelledVars
           \/ \E k \in Cancellers : Cancel(k)
           \/ ConsumeCancelled
           \/ ValidatorApiFault
           \/ BrokerFault
<1> DEFINE Goal == queue'["cancelled"] = queue["cancelled"] /\ UNCHANGED cancelledVars
<1> USE DEF TypeOK, BrokerTypeOK, Queues, validatorVars
<1>1. ASSUME NEW c \in Codes, Purchase(c)
      PROVE  Goal
  BY <1>1 DEF Purchase, IssueTicket, AnnounceTicket, DiscloseTicket, AddTicket,
              PublishTicketCreated, Publish, Put
<1>2. CASE ConsumeUsed
  BY <1>2 DEF ConsumeUsed, SyncDeliver, SyncStep, SyncGetSettled, SyncGetEmitted,
              SyncGetCancelled, SyncUpdate, SyncAck, SyncFails, SyncAcked, SyncNacked, Requeue,
              Put, Deliver
<1>3. ASSUME NEW s \in Scanners, NEW c \in Codes, StartScan(s, c)
      PROVE  Goal
  BY <1>3 DEF StartScan, ScanGet
<1>4. ASSUME NEW s \in Scanners, ContinueScan(s)
      PROVE  Goal
  BY <1>4 DEF ContinueScan, ScanUpdate, ScanUpdateFails, ScanLookup, ScanRecord
<1>5. ASSUME NEW s \in Scanners, Admit(s)
      PROVE  Goal
  BY <1>5 DEF Admit, ScanPublish, Publish, Put
<1>6. CASE ConsumeCreated
  BY <1>6 DEF ConsumeCreated, CreatedDeliver, CreatedStep, CreatedGetKnown, CreatedGetMissing,
              CreatedAdd, CreatedAck, CreatedFails, CreatedAcked, CreatedNacked, Requeue, Put, Deliver
<1>7. CASE TicketApiFault
  BY <1>7 DEF TicketApiFault, TicketDisconnect, TicketRestart, TakeBackUsed, Requeue, Put
<1>8. CASE UNCHANGED vars
  BY <1>8 DEF vars
<1> QED BY <1>1, <1>2, <1>3, <1>4, <1>5, <1>6, <1>7, <1>8 DEF Next

\* Only a cancel request about to publish puts a new cancellation on its way.
LEMMA CancellationsComeFromRequests ==
    ASSUME TypeOK, [Next]_vars, NEW c \in Codes,
           queue'["cancelled"][c] > 0 \/ HeldCancelled(c)'
    PROVE  \/ queue["cancelled"][c] > 0
           \/ HeldCancelled(c)
           \/ \E k \in Cancellers : cancelPc[k] = "publish" /\ cancelCode[k] = c
<1> DEFINE Goal == \/ queue["cancelled"][c] > 0
                   \/ HeldCancelled(c)
                   \/ \E k \in Cancellers : cancelPc[k] = "publish" /\ cancelCode[k] = c
<1> USE DEF HeldCancelled
<1>1. BrokerTypeOK /\ "cancelled" \in Queues
  BY DEF TypeOK, Queues
<1>2. cancelledPc # "idle" => cancelledCode \in Codes
  BY DEF TypeOK, ValidatorTypeOK
<1>3. queue["cancelled"][c] \in Nat
  BY <1>1 DEF BrokerTypeOK
<1>4. CASE queue'["cancelled"] = queue["cancelled"] /\ UNCHANGED cancelledVars
  BY <1>4 DEF cancelledVars
<1>5. ASSUME NEW k \in Cancellers, Cancel(k)
      PROVE  Goal
  <2>1. cancelPc[k] # "idle" => cancelCode[k] \in Codes
    BY DEF TypeOK, TicketTypeOK
  <2> QED BY <1>1, <1>3, <1>5, <2>1, PutCount
          DEF Cancel, CancelGet, CancelUpdate, CancelUpdateFails, CancelPublish, Publish,
              validatorVars, cancelledVars
<1>6. CASE ConsumeCancelled
  <2>1. ASSUME NEW d \in Codes, CancelledDeliver(d)
        PROVE  Goal
    BY <1>1, <1>3, <2>1, DeliverCount DEF CancelledDeliver
  <2>2. CASE CancelledGetMissing \/ CancelledGetActive \/ CancelledUpdate \/ CancelledAck
    BY <2>2 DEF CancelledGetMissing, CancelledGetActive, CancelledUpdate, CancelledAck,
                CancelledAcked, CancelledDone
  <2>3. CASE CancelledGetSpent \/ CancelledFails
    BY <1>1, <1>2, <1>3, <2>3, PutCount
       DEF CancelledGetSpent, CancelledFails, CancelledNacked, CancelledDone, Requeue
  <2> QED BY <1>6, <2>1, <2>2, <2>3 DEF ConsumeCancelled, CancelledStep
<1>7. CASE ValidatorApiFault
  <2>1. queue'["cancelled"][c] > 0 => queue["cancelled"][c] > 0 \/ HeldCancelled(c)
    BY <1>1, <1>3, <1>7 DEF ValidatorApiFault, ValidatorDisconnect, ValidatorRestart,
                            TakeBackDeliveries, BrokerTypeOK
  <2> QED BY <1>7, <2>1 DEF ValidatorApiFault, ValidatorDisconnect, ValidatorRestart,
                            CancelledDone, cancelledVars
<1>8. CASE BrokerFault
  BY <1>1, <1>3, <1>8, DeliverCount DEF BrokerFault, LoseMessage, validatorVars, cancelledVars
<1> QED BY <1>4, <1>5, <1>6, <1>7, <1>8, CancelledCases

LEMMA CancelPreserved ==
    ASSUME TypeOK, RecordsInv, RowsInv, CancelInv, [Next]_vars
    PROVE  CancelInv'
<1>1. \A k \in Cancellers : cancelPc'[k] = "publish" => row'[cancelCode'[k]] \in Terminal
  <2>1. ASSUME NEW k \in Cancellers, Cancel(k)
        PROVE  \A j \in Cancellers : cancelPc'[j] = "publish" => row'[cancelCode'[j]] \in Terminal
    <3>1. CASE CancelUpdate(k)
      BY <3>1, RowsOnlyAdvance DEF CancelUpdate, SetRow, CancelInv, Terminal, TypeOK, TicketTypeOK
    <3>2. ASSUME NEW c \in completed, CancelGet(k, c)
          PROVE  \A j \in Cancellers : cancelPc'[j] = "publish" => row'[cancelCode'[j]] \in Terminal
      BY <3>2 DEF CancelGet, CancelInv, TypeOK, TicketTypeOK
    <3>3. CASE CancelUpdateFails(k) \/ CancelPublish(k)
      BY <3>3, RowsOnlyAdvance
         DEF CancelUpdateFails, CancelPublish, CancelEnds, CancelInv, TypeOK, TicketTypeOK
    <3> QED BY <2>1, <3>1, <3>2, <3>3 DEF Cancel
  <2>2. CASE UNCHANGED cancelVars
    BY <2>2, RowsOnlyAdvance DEF cancelVars, CancelInv, TypeOK, TicketTypeOK
  <2>3. CASE TicketRestart
    BY <2>3 DEF TicketRestart
  <2> QED BY <2>1, <2>2, <2>3
          DEF Next, vars, ticketVars, Purchase, IssueTicket, AddTicket, AnnounceTicket,
              PublishTicketCreated, DiscloseTicket, ConsumeUsed, SyncDeliver, SyncStep,
              SyncGetSettled, SyncGetEmitted, SyncGetCancelled, SyncUpdate, SyncAck, SyncFails,
              TicketApiFault, TicketDisconnect, StartScan, ContinueScan, Admit, ConsumeCreated,
              ConsumeCancelled, ValidatorApiFault, BrokerFault
<1>2. ASSUME NEW c \in Codes,
             (cache[c] = "cancelled" \/ queue["cancelled"][c] > 0 \/ HeldCancelled(c))'
      PROVE  row'[c] \in Terminal
  <2>1. CASE cache'[c] = "cancelled"
    <3>1. cache[c] = "cancelled" \/ HeldCancelled(c)
      BY <2>1, RecordChanges DEF HeldCancelled
    <3> QED BY <3>1, RowsOnlyAdvance DEF CancelInv, CancelledOnlyIfWithdrawn
  <2>2. CASE queue'["cancelled"][c] > 0 \/ HeldCancelled(c)'
    <3>1. row[c] \in Terminal
      BY <2>2, CancellationsComeFromRequests DEF CancelInv, CancelledOnlyIfWithdrawn
    <3> QED BY <3>1, RowsOnlyAdvance
  <2> QED BY <1>2, <2>1, <2>2
<1> QED BY <1>1, <1>2 DEF CancelInv, CancelledOnlyIfWithdrawn

-----------------------------------------------------------------------------
\* The steps that may touch validator.ticket.created or its consumer.
LEMMA CreatedCases ==
    ASSUME TypeOK, [Next]_vars
    PROVE  \/ /\ queue'["created"] = queue["created"]
              /\ UNCHANGED <<createdVars, validatorUp, announced>>
           \/ \E c \in Codes : AnnounceTicket(c)
           \/ ConsumeCreated
           \/ ValidatorApiFault
           \/ BrokerFault
<1> DEFINE Goal == \/ /\ queue'["created"] = queue["created"]
                      /\ UNCHANGED <<createdVars, validatorUp, announced>>
                   \/ \E c \in Codes : AnnounceTicket(c)
<1> USE DEF TypeOK, BrokerTypeOK, Queues, validatorVars, issueVars
<1>1. ASSUME NEW c \in Codes, Purchase(c)
      PROVE  Goal
  BY <1>1 DEF Purchase, IssueTicket, DiscloseTicket, AddTicket, Issue!Persist, Issue!Complete
<1>2. ASSUME NEW k \in Cancellers, Cancel(k)
      PROVE  Goal
  BY <1>2 DEF Cancel, CancelGet, CancelUpdate, CancelUpdateFails, CancelPublish, Publish, Put
<1>3. CASE ConsumeUsed
  BY <1>3 DEF ConsumeUsed, SyncDeliver, SyncStep, SyncGetSettled, SyncGetEmitted,
              SyncGetCancelled, SyncUpdate, SyncAck, SyncFails, SyncAcked, SyncNacked, Requeue,
              Put, Deliver
<1>4. ASSUME NEW s \in Scanners, NEW c \in Codes, StartScan(s, c)
      PROVE  Goal
  BY <1>4 DEF StartScan, ScanGet
<1>5. ASSUME NEW s \in Scanners, ContinueScan(s)
      PROVE  Goal
  BY <1>5 DEF ContinueScan, ScanUpdate, ScanUpdateFails, ScanLookup, ScanRecord
<1>6. ASSUME NEW s \in Scanners, Admit(s)
      PROVE  Goal
  BY <1>6 DEF Admit, ScanPublish, Publish, Put
<1>7. CASE ConsumeCancelled
  BY <1>7 DEF ConsumeCancelled, CancelledDeliver, CancelledStep, CancelledGetMissing,
              CancelledGetActive, CancelledGetSpent, CancelledUpdate, CancelledAck, CancelledFails,
              CancelledAcked, CancelledNacked, Requeue, Put, Deliver
<1>8. CASE TicketApiFault
  BY <1>8 DEF TicketApiFault, TicketDisconnect, TicketRestart, TakeBackUsed, Requeue, Put
<1>9. CASE UNCHANGED vars
  BY <1>9 DEF vars
<1> QED BY <1>1, <1>2, <1>3, <1>4, <1>5, <1>6, <1>7, <1>8, <1>9 DEF Next

LEMMA DeliveryPreserved ==
    ASSUME TypeOK, RecordsInv, DeliveryInv, [Next]_vars
    PROVE  DeliveryInv'
<1> SUFFICES ASSUME "loss" \notin Faults, NEW c \in announced'
             PROVE  (cache[c] # "none" \/ queue["created"][c] > 0 \/ (HeldCreated(c) /\ validatorUp))'
  BY DEF DeliveryInv
<1> DEFINE Known == cache[c] # "none" \/ queue["created"][c] > 0 \/ (HeldCreated(c) /\ validatorUp)
<1> USE DEF HeldCreated
<1>1. BrokerTypeOK /\ "created" \in Queues /\ announced' \subseteq Codes
  BY TypePreserved DEF TypeOK, Queues
<1>2. createdPc # "idle" => createdCode \in Codes
  BY DEF TypeOK, ValidatorTypeOK
<1>3. c \in Codes /\ queue["created"][c] \in Nat
  BY <1>1 DEF BrokerTypeOK
<1>4. cache[c] # "none" => cache'[c] # "none"
  BY <1>3, RecordChanges
<1>5. c \in announced => Known
  BY DEF DeliveryInv
<1>6. CASE queue'["created"] = queue["created"] /\ UNCHANGED <<createdVars, validatorUp, announced>>
  BY <1>4, <1>5, <1>6 DEF createdVars
<1>7. ASSUME NEW d \in Codes, AnnounceTicket(d)
      PROVE  Known'
  <2>1. queue'["created"][c] = IF c = d THEN queue["created"][c] + 1 ELSE queue["created"][c]
    BY <1>1, <1>3, <1>7, PutCount DEF AnnounceTicket, PublishTicketCreated, Publish
  <2>2. /\ c = d \/ c \in announced
        /\ UNCHANGED <<createdVars, validatorUp>>
    BY <1>7 DEF AnnounceTicket, Issue!Announce, validatorVars
  <2> QED BY <1>3, <1>4, <1>5, <2>1, <2>2 DEF createdVars
<1>8. CASE ConsumeCreated
  <2>1. c \in announced
    BY <1>8 DEF ConsumeCreated, issueVars
  <2>2. ASSUME NEW d \in Codes, CreatedDeliver(d)
        PROVE  Known'
    BY <1>1, <1>3, <1>4, <1>5, <2>1, <2>2, DeliverCount DEF CreatedDeliver
  <2>3. CASE CreatedGetMissing
    BY <1>4, <1>5, <2>1, <2>3 DEF CreatedGetMissing
  <2>4. CASE CreatedAdd
    BY <1>4, <1>5, <2>1, <2>4 DEF CreatedAdd
  <2>5. CASE CreatedGetKnown \/ CreatedAck
    BY <1>4, <1>5, <2>1, <2>5
       DEF CreatedGetKnown, CreatedAck, CreatedAcked, CreatedDone, RecordsInv
  <2>6. CASE CreatedFails
    BY <1>1, <1>2, <1>3, <1>4, <1>5, <2>1, <2>6, PutCount
       DEF CreatedFails, CreatedNacked, CreatedDone, Requeue
  <2> QED BY <1>8, <2>2, <2>3, <2>4, <2>5, <2>6 DEF ConsumeCreated, CreatedStep
<1>9. CASE ValidatorApiFault
  <2>1. c \in announced /\ TakeBackDeliveries
    BY <1>9 DEF ValidatorApiFault, ValidatorDisconnect, ValidatorRestart, issueVars
  <2>2. queue["created"][c] > 0 \/ (HeldCreated(c) /\ validatorUp) => queue'["created"][c] > 0
    BY <1>1, <1>3, <2>1 DEF TakeBackDeliveries, BrokerTypeOK
  <2>3. cache'[c] # "none" \/ queue'["created"][c] > 0
    BY <1>4, <1>5, <2>1, <2>2
  <2> QED BY <2>3
<1> QED BY <1>6, <1>7, <1>8, <1>9, CreatedCases DEF BrokerFault

\* A report of use leaves its queue only for a consumer that puts it back or
\* settles the row.
LEMMA ReportsStay ==
    ASSUME TypeOK, RowsInv, ReportInv, [Next]_vars, NEW c \in persisted,
           Faults \cap {"loss", "disconnect"} = {},
           queue["used"][c] > 0 \/ HeldUsed(c)
    PROVE  row'[c] # "emitted" \/ (queue["used"][c] > 0 \/ HeldUsed(c))'
<1> DEFINE Goal == row'[c] # "emitted" \/ (queue["used"][c] > 0 \/ HeldUsed(c))'
<1> USE DEF HeldUsed
<1>1. BrokerTypeOK /\ "used" \in Queues /\ ticketUp /\ "loss" \notin Faults
  BY DEF TypeOK, Queues, ReportInv
<1>2. syncPc # "idle" => syncCode \in Codes
  BY DEF TypeOK, TicketTypeOK
<1>3. c \in Codes /\ queue["used"][c] \in Nat /\ row[c] # "absent"
  BY <1>1 DEF BrokerTypeOK, TypeOK, RowsInv
<1>4. CASE queue'["used"] = queue["used"] /\ UNCHANGED syncVars
  BY <1>4 DEF syncVars
<1>5. CASE ConsumeUsed
  <2>1. ASSUME NEW d \in Codes, SyncDeliver(d)
        PROVE  Goal
    BY <1>1, <1>3, <2>1, DeliverCount DEF SyncDeliver
  <2>2. CASE SyncGetSettled \/ SyncAck
    BY <1>3, <2>2 DEF SyncGetSettled, SyncAck, SyncAcked, SyncDone, ReportInv, Terminal
  <2>3. CASE SyncGetEmitted \/ SyncUpdate
    BY <2>3 DEF SyncGetEmitted, SyncUpdate
  <2>4. CASE SyncGetCancelled \/ SyncFails
    <3>1. queue' = Put("used", syncCode) /\ syncCode \in Codes
      BY <1>1, <1>2, <2>4 DEF SyncGetCancelled, SyncFails, SyncNacked, Requeue
    <3>2. queue'["used"][c] = IF c = syncCode THEN queue["used"][c] + 1 ELSE queue["used"][c]
      BY <1>1, <1>3, <3>1, PutCount
    <3>3. queue'["used"][c] > 0
      BY <1>3, <3>2
    <3> QED BY <3>3
  <2> QED BY <1>5, <2>1, <2>2, <2>3, <2>4 DEF ConsumeUsed, SyncStep
<1>6. CASE TicketApiFault
  <2>1. queue' = IF syncPc # "idle" THEN Put("used", syncCode) ELSE queue
    BY <1>1, <1>6 DEF TicketApiFault, TicketDisconnect, TicketRestart, TakeBackUsed, Requeue
  <2> QED BY <1>1, <1>2, <1>3, <2>1, PutCount
<1>7. ASSUME NEW s \in Scanners, Admit(s)
      PROVE  Goal
  <2>1. scanCode[s] \in Codes
    BY <1>7 DEF Admit, ScanPublish, TypeOK, ValidatorTypeOK
  <2> QED BY <1>1, <1>3, <1>7, <2>1, PutCount DEF Admit, ScanPublish, Publish, ticketVars, syncVars
<1> QED BY <1>1, <1>4, <1>5, <1>6, <1>7, UsedCases DEF BrokerFault

LEMMA ReportPreserved ==
    ASSUME TypeOK, RecordsInv, RowsInv, ReportInv, [Next]_vars
    PROVE  ReportInv'
<1>1. "disconnect" \notin Faults => ticketUp' /\ validatorUp'
  <2> SUFFICES ASSUME "disconnect" \notin Faults
               PROVE  ticketUp' /\ validatorUp'
    OBVIOUS
  <2>1. ticketUp'
    BY UsedCases DEF ReportInv, ConsumeUsed, SyncDeliver, SyncStep, SyncGetSettled, SyncGetEmitted,
       SyncGetCancelled, SyncUpdate, SyncAck, SyncFails, TicketApiFault, TicketDisconnect,
       TicketRestart, Admit, BrokerFault, ticketVars
  <2>2. validatorUp'
    BY CreatedCases DEF ReportInv, AnnounceTicket, ConsumeCreated, CreatedDeliver, CreatedStep,
       CreatedGetKnown, CreatedGetMissing, CreatedAdd, CreatedAck, CreatedFails, ValidatorApiFault,
       ValidatorDisconnect, ValidatorRestart, BrokerFault, validatorVars
  <2> QED BY <2>1, <2>2
<1>2. syncPc' = "ack" => row'[syncCode'] \in Terminal
  <2>1. CASE UNCHANGED syncVars
    BY <2>1, RowsOnlyAdvance DEF syncVars, ReportInv, TypeOK, TicketTypeOK
  <2>2. CASE SyncUpdate
    BY <2>2 DEF SyncUpdate, SetRow, Terminal, TypeOK, TicketTypeOK
  <2>3. CASE syncPc' # "ack"
    BY <2>3
  <2> QED BY <2>1, <2>2, <2>3, UsedCases
          DEF ConsumeUsed, SyncDeliver, SyncStep, SyncGetSettled, SyncGetEmitted, SyncGetCancelled,
              SyncAck, SyncFails, SyncAcked, SyncNacked, SyncDone, TicketApiFault,
              TicketDisconnect, TicketRestart, Admit, BrokerFault, ticketVars
<1>3. AdmissionNotLost'
  <2> SUFFICES ASSUME Faults \cap {"loss", "disconnect"} = {}, NEW c \in admitted'
               PROVE  (row[c] # "emitted" \/ queue["used"][c] > 0 \/ HeldUsed(c))'
    BY DEF AdmissionNotLost
  <2>1. RowsInv' /\ persisted \subseteq Codes
    BY RowsPreserved DEF TypeOK
  <2>2. CASE c \in admitted
    <3>1. c \in persisted /\ c \in Codes /\ row[c] # "absent"
      BY <2>1, <2>2 DEF RowsInv
    <3>2. CASE row[c] # "emitted"
      <4>1. row[c] \in Terminal
        BY <3>1, <3>2 DEF TypeOK, TicketTypeOK, TicketStatuses, Terminal
      <4> QED BY <3>1, <4>1, RowsOnlyAdvance DEF Terminal
    <3>3. CASE queue["used"][c] > 0 \/ HeldUsed(c)
      BY <3>1, <3>3, ReportsStay
    <3> QED BY <2>2, <3>2, <3>3 DEF ReportInv, AdmissionNotLost
  <2>3. CASE c \notin admitted
    <3>1. PICK s \in Scanners : Admit(s) /\ scanCode[s] = c
      BY <2>3 DEF Next, vars, historyVars, Purchase, IssueTicket, AnnounceTicket, DiscloseTicket,
         Cancel, ConsumeUsed, TicketApiFault, StartScan, ContinueScan, Admit, ConsumeCreated,
         ConsumeCancelled, ValidatorApiFault, BrokerFault
    <3>2. c \in Codes /\ validatorUp /\ queue["used"][c] \in Nat /\ "used" \in Queues
      BY <3>1 DEF Admit, ScanPublish, TypeOK, BrokerTypeOK, ValidatorTypeOK, ReportInv, Queues
    <3> QED BY <3>1, <3>2, PutCount DEF Admit, ScanPublish, Publish, TypeOK
  <2> QED BY <2>2, <2>3
<1> QED BY <1>1, <1>2, <1>3 DEF ReportInv

-----------------------------------------------------------------------------
(* The inductive invariant.                                                *)

LEMMA InitEstablishes == Init => SystemInv
<1> SUFFICES ASSUME Init PROVE SystemInv
  OBVIOUS
<1> USE DEF Init, BrokerInit, TicketInit, ValidatorInit, Issue!IssueInit
<1>1. BrokerTypeOK /\ TicketTypeOK /\ ValidatorTypeOK
  BY DEF BrokerTypeOK, Queues, TicketTypeOK, ValidatorTypeOK, Verdicts
<1>2. TypeOK
  BY <1>1 DEF TypeOK
<1>3. RecordsInv /\ AdmissionInv /\ RowsInv
  BY DEF RecordsInv, AdmissionInv, RowsInv
<1>4. UsedOnlyIfAdmitted /\ CancelInv
  BY DEF UsedOnlyIfAdmitted, HeldUsed, CancelInv, CancelledOnlyIfWithdrawn, HeldCancelled, Queues
<1>5. DeliveryInv /\ ReportInv
  BY DEF DeliveryInv, ReportInv, AdmissionNotLost
<1> QED BY <1>2, <1>3, <1>4, <1>5 DEF SystemInv

LEMMA StepPreserves == SystemInv /\ [Next]_vars => SystemInv'
BY TypePreserved, RecordsPreserved, AdmissionPreserved, RowsPreserved, UsedPreserved,
   CancelPreserved, DeliveryPreserved, ReportPreserved DEF SystemInv

\* Every reachable state of the two services satisfies the invariant above,
\* for any number of tickets, scans and cancel requests and any faults.
THEOREM SystemInvariance == Spec => []SystemInv
BY InitEstablishes, StepPreserves, PTL DEF Spec

-----------------------------------------------------------------------------
(* What the two services guarantee together.                               *)

\* Every variable of the two services and their queues keeps its type.
THEOREM SystemTypeCorrect == Spec => []TypeOK
<1>1. SystemInv => TypeOK
  BY DEF SystemInv
<1> QED BY <1>1, SystemInvariance, PTL

\* A Redis record that says used or cancelled never says active and is never
\* missing again, although every SET is blind.
THEOREM RecordsNeverResurrected == Spec => NoResurrection
<1>1. SystemInv /\ [Next]_vars =>
        [\A c \in Codes : cache[c] \in Terminal => cache'[c] \in Terminal]_vars
  BY RecordChanges DEF SystemInv, Terminal
<1> QED BY <1>1, SystemInvariance, PTL DEF Spec, NoResurrection

\* As the client is, with /tickets/lookup always refused, a ticket that was let
\* in is never let in by a scan that starts later.
THEOREM LateScansRejected ==
    ASSUME ~LookupAuthenticated
    PROVE  Spec => []LateScanRejected
<1>1. SystemInv => LateScanRejected
  BY DEF SystemInv, AdmissionInv, LateScanRejected
<1> QED BY <1>1, SystemInvariance, PTL

\* The ticket service calls a ticket used, or is about to be told so, only if
\* the validator let its holder in.
THEOREM UsedTicketsWereAdmitted == Spec => []UsedOnlyIfAdmitted
<1>1. SystemInv => UsedOnlyIfAdmitted
  BY DEF SystemInv
<1> QED BY <1>1, SystemInvariance, PTL

\* The validator holds a ticket for cancelled, or is about to be told so, only
\* if its row no longer says emitted.
THEOREM CancelledTicketsWereWithdrawn == Spec => []CancelledOnlyIfWithdrawn
<1>1. SystemInv => CancelledOnlyIfWithdrawn
  BY DEF SystemInv, CancelInv
<1> QED BY <1>1, SystemInvariance, PTL

\* While the broker loses nothing, an announced ticket is known to the
\* validator or its ticket.created is in the queue or in the consumer's hands.
THEOREM CreatedNeverLost == Spec => []CreatedNotLost
<1>1. SystemInv => CreatedNotLost
  BY DEF SystemInv, DeliveryInv, CreatedNotLost
<1> QED BY <1>1, SystemInvariance, PTL

\* While neither messages nor connections are lost, an admission is on its way
\* to the tickets table until the row is no longer emitted.
THEOREM AdmissionsNeverLost == Spec => []AdmissionNotLost
<1>1. SystemInv => AdmissionNotLost
  BY DEF SystemInv, ReportInv
<1> QED BY <1>1, SystemInvariance, PTL

-----------------------------------------------------------------------------
(* The services implement TicketLedger                                     *)

\* what ticket.created tells of was announced
AnnouncedInv ==
    \A c \in Codes : queue["created"][c] > 0 \/ HeldCreated(c) => c \in announced

LEMMA AnnouncedPreserved ==
    ASSUME TypeOK, AnnouncedInv, [Next]_vars
    PROVE  AnnouncedInv'
<1> SUFFICES ASSUME NEW c \in Codes, queue'["created"][c] > 0 \/ HeldCreated(c)'
             PROVE  c \in announced'
  BY DEF AnnouncedInv
<1> USE DEF HeldCreated
<1>1. BrokerTypeOK /\ "created" \in Queues
  BY DEF TypeOK, Queues
<1>2. createdPc # "idle" => createdCode \in Codes
  BY DEF TypeOK, ValidatorTypeOK
<1>3. queue["created"][c] \in Nat
  BY <1>1 DEF BrokerTypeOK
<1>4. announced \subseteq announced'
  <2>1. CASE UNCHANGED issueVars
    BY <2>1 DEF issueVars
  <2>2. ASSUME NEW d \in Codes, Purchase(d) PROVE announced \subseteq announced'
    BY <2>2 DEF Purchase, IssueTicket, AnnounceTicket, DiscloseTicket, Issue!Persist,
                Issue!Announce, Issue!Complete
  <2> QED BY <2>1, <2>2, IssueCases
<1>5. SUFFICES ASSUME c \notin announced PROVE c \in announced'
  BY <1>4
<1>6. queue["created"][c] = 0 /\ ~HeldCreated(c)
  BY <1>3, <1>5 DEF AnnouncedInv
<1>7. CASE queue'["created"] = queue["created"] /\ UNCHANGED createdVars
  BY <1>6, <1>7 DEF createdVars
<1>8. ASSUME NEW d \in Codes, AnnounceTicket(d)
      PROVE  c \in announced'
  <2>1. CASE c = d
    BY <1>8, <2>1 DEF AnnounceTicket, Issue!Announce
  <2>2. CASE c # d
    BY <1>1, <1>6, <1>8, <2>2, PutCount
       DEF AnnounceTicket, PublishTicketCreated, Publish, validatorVars, createdVars
  <2> QED BY <2>1, <2>2
<1>9. CASE ConsumeCreated
  <2>1. ASSUME NEW d \in Codes, CreatedDeliver(d)
        PROVE  FALSE
    BY <1>1, <1>6, <2>1, DeliverCount DEF CreatedDeliver
  <2>2. CASE CreatedGetKnown \/ CreatedGetMissing \/ CreatedAdd \/ CreatedAck
    BY <1>6, <2>2 DEF CreatedGetKnown, CreatedGetMissing, CreatedAdd, CreatedAck, CreatedAcked,
                      CreatedDone
  <2>3. CASE CreatedFails
    <3>1. createdCode # c /\ createdCode \in Codes
      BY <1>2, <1>6, <2>3 DEF CreatedFails
    <3> QED BY <1>1, <1>6, <2>3, <3>1, PutCount
            DEF CreatedFails, CreatedNacked, CreatedDone, Requeue
  <2> QED BY <1>9, <2>1, <2>2, <2>3 DEF ConsumeCreated, CreatedStep
<1>10. CASE ValidatorApiFault
  <2>1. queue'["created"][c] = 0
    BY <1>1, <1>6, <1>10 DEF ValidatorApiFault, ValidatorDisconnect, ValidatorRestart,
                             TakeBackDeliveries, BrokerTypeOK
  <2> QED BY <1>6, <1>10, <2>1 DEF ValidatorApiFault, ValidatorDisconnect, ValidatorRestart,
                                   CreatedDone, createdVars
<1>11. CASE BrokerFault
  BY <1>1, <1>6, <1>11, DeliverCount DEF BrokerFault, LoseMessage, validatorVars, createdVars
<1> QED BY <1>7, <1>8, <1>9, <1>10, <1>11, CreatedCases

LedgerStep == [Ledger!LedgerNext]_(Ledger!ledgerVars)

LEMMA PurchaseLedger ==
    ASSUME SystemInv, NEW c \in Codes, Purchase(c)
    PROVE  LedgerStep
<1>1. CASE IssueTicket(c)
  <2>1. Ledger!Emit(c)
    BY <1>1 DEF IssueTicket, AddTicket, Issue!Persist, Ledger!Emit, validatorVars, historyVars
  <2> QED BY <2>1 DEF LedgerStep, Ledger!LedgerNext
<1>2. CASE AnnounceTicket(c)
  <2>1. row[c] # "absent"
    BY <1>2 DEF AnnounceTicket, Issue!Announce, SystemInv, RowsInv
  <2>2. Ledger!Announce(c)
    BY <1>2, <2>1 DEF AnnounceTicket, PublishTicketCreated, Issue!Announce, Ledger!Announce,
                      ticketVars, validatorVars, historyVars
  <2> QED BY <2>2 DEF LedgerStep, Ledger!LedgerNext
<1>3. CASE DiscloseTicket(c)
  BY <1>3 DEF DiscloseTicket, Issue!Complete, LedgerStep, Ledger!ledgerVars, ticketVars,
              validatorVars, historyVars
<1> QED BY <1>1, <1>2, <1>3 DEF Purchase

LEMMA CancelLedger ==
    ASSUME SystemInv, NEW k \in Cancellers, Cancel(k)
    PROVE  LedgerStep
<1>1. UNCHANGED <<announced, cache, admitted>>
  BY DEF Cancel, validatorVars, issueVars, historyVars
<1>2. CASE row' = row
  BY <1>1, <1>2 DEF LedgerStep, Ledger!ledgerVars
<1>3. CASE cancelPc[k] = "update" /\ row' = SetRow(cancelCode[k], "cancelled")
  <2>1. cancelCode[k] \in Codes /\ row[cancelCode[k]] # "absent"
    BY <1>3 DEF SystemInv, TypeOK, TicketTypeOK, RowsInv
  <2>2. Ledger!Withdraw(cancelCode[k])
    BY <1>1, <1>3, <2>1 DEF SetRow, Ledger!Withdraw
  <2> QED BY <2>1, <2>2 DEF LedgerStep, Ledger!LedgerNext
<1> QED BY <1>2, <1>3 DEF Cancel, CancelGet, CancelUpdate, CancelUpdateFails, CancelPublish

LEMMA ConsumeUsedLedger ==
    ASSUME SystemInv, ConsumeUsed
    PROVE  LedgerStep
<1>1. UNCHANGED <<announced, cache, admitted>>
  BY DEF ConsumeUsed, validatorVars, issueVars, historyVars
<1>2. CASE row' = row
  BY <1>1, <1>2 DEF LedgerStep, Ledger!ledgerVars
<1>3. CASE syncPc = "update" /\ row' = SetRow(syncCode, "used")
  <2>1. syncCode \in Codes /\ row[syncCode] # "absent"
    BY <1>3 DEF SystemInv, TypeOK, TicketTypeOK, RowsInv
  <2>2. syncCode \in admitted
    BY <1>3, <2>1 DEF SystemInv, UsedOnlyIfAdmitted, HeldUsed
  <2>3. Ledger!NoteUse(syncCode)
    BY <1>1, <1>3, <2>1, <2>2 DEF SetRow, Ledger!NoteUse
  <2> QED BY <2>1, <2>3 DEF LedgerStep, Ledger!LedgerNext
<1> QED BY <1>2, <1>3 DEF ConsumeUsed, SyncDeliver, SyncStep, SyncGetSettled, SyncGetEmitted,
                          SyncGetCancelled, SyncUpdate, SyncAck, SyncFails

LEMMA ContinueScanLedger ==
    ASSUME SystemInv, NEW s \in Scanners, ContinueScan(s)
    PROVE  LedgerStep
<1>1. UNCHANGED <<row, announced, admitted>>
  BY DEF ContinueScan, ticketVars, issueVars, historyVars
<1>2. CASE cache' = cache
  BY <1>1, <1>2 DEF LedgerStep, Ledger!ledgerVars
<1>3. CASE scanPc[s] = "update" /\ cache' = SetRecord(scanCode[s], "used")
  <2>1. scanCode[s] \in Codes /\ cache[scanCode[s]] # "none"
    BY <1>3 DEF SystemInv, TypeOK, ValidatorTypeOK, RecordsInv
  <2>2. Ledger!Spend(scanCode[s])
    BY <1>1, <1>3, <2>1 DEF SetRecord, Ledger!Spend
  <2> QED BY <2>1, <2>2 DEF LedgerStep, Ledger!LedgerNext
<1> QED BY <1>2, <1>3 DEF ContinueScan, ScanUpdate, ScanUpdateFails, ScanLookup, ScanRecord,
                          ValidEventID, LookupEventID

LEMMA AdmitLedger ==
    ASSUME SystemInv, NEW s \in Scanners, Admit(s)
    PROVE  LedgerStep
<1>1. /\ scanPc[s] = "publish"
      /\ admitted' = admitted \cup {scanCode[s]}
      /\ UNCHANGED <<row, announced, cache>>
  BY DEF Admit, ScanPublish, ticketVars, issueVars
<1>2. scanCode[s] \in Codes /\ scanCode[s] \in announced
  BY <1>1 DEF SystemInv, TypeOK, ValidatorTypeOK, RowsInv
<1>3. LookupAuthenticated \/ cache[scanCode[s]] \in Ledger!Spent
  BY <1>1 DEF SystemInv, AdmissionInv, Terminal, Ledger!Spent
<1>4. Ledger!LetIn(scanCode[s])
  BY <1>1, <1>2, <1>3 DEF Ledger!LetIn
<1> QED BY <1>2, <1>4 DEF LedgerStep, Ledger!LedgerNext

LEMMA ConsumeCreatedLedger ==
    ASSUME SystemInv, AnnouncedInv, ConsumeCreated
    PROVE  LedgerStep
<1>1. UNCHANGED <<row, announced, admitted>>
  BY DEF ConsumeCreated, ticketVars, issueVars, historyVars
<1>2. CASE cache' = cache
  BY <1>1, <1>2 DEF LedgerStep, Ledger!ledgerVars
<1>3. CASE createdPc = "add" /\ cache' = SetRecord(createdCode, "active")
  <2>1. createdCode \in Codes /\ cache[createdCode] = "none"
    BY <1>3 DEF SystemInv, TypeOK, ValidatorTypeOK, RecordsInv
  <2>2. createdCode \in announced
    BY <1>3, <2>1 DEF AnnouncedInv, HeldCreated
  <2>3. Ledger!Learn(createdCode)
    BY <1>1, <1>3, <2>1, <2>2 DEF SetRecord, Ledger!Learn
  <2> QED BY <2>1, <2>3 DEF LedgerStep, Ledger!LedgerNext
<1> QED BY <1>2, <1>3 DEF ConsumeCreated, CreatedDeliver, CreatedStep, CreatedGetKnown,
                          CreatedGetMissing, CreatedAdd, CreatedAck, CreatedFails

LEMMA ConsumeCancelledLedger ==
    ASSUME SystemInv, ConsumeCancelled
    PROVE  LedgerStep
<1>1. UNCHANGED <<row, announced, admitted>>
  BY DEF ConsumeCancelled, ticketVars, issueVars
<1>2. CASE cache' = cache
  BY <1>1, <1>2 DEF LedgerStep, Ledger!ledgerVars
<1>3. CASE cancelledPc = "update" /\ cache' = SetRecord(cancelledCode, "cancelled")
  <2>1. cancelledCode \in Codes /\ cache[cancelledCode] # "none"
    BY <1>3 DEF SystemInv, TypeOK, ValidatorTypeOK, RecordsInv
  <2>2. row[cancelledCode] \in Ledger!Spent
    BY <1>3, <2>1 DEF SystemInv, CancelInv, CancelledOnlyIfWithdrawn, HeldCancelled, Terminal,
                      Ledger!Spent
  <2>3. Ledger!NoteCancel(cancelledCode)
    BY <1>1, <1>3, <2>1, <2>2 DEF SetRecord, Ledger!NoteCancel
  <2> QED BY <2>1, <2>3 DEF LedgerStep, Ledger!LedgerNext
<1> QED BY <1>2, <1>3 DEF ConsumeCancelled, CancelledDeliver, CancelledStep, CancelledGetMissing,
                          CancelledGetActive, CancelledGetSpent, CancelledUpdate, CancelledAck,
                          CancelledFails

\* For any tickets, scans, cancel requests and faults, the two services and the
\* queues between them keep the ledger: no record without an announcement, no
\* report of use without an admission, no news of a cancellation without one, no
\* admission on a live record, and no step back (internal/ticket/service.go:167-235,
\* internal/validator/service.go:60-225).
THEOREM SystemImplementsLedger == Spec => ImplementsTicketLedger
<1>1. Init => AnnouncedInv
  BY DEF Init, BrokerInit, ValidatorInit, AnnouncedInv, HeldCreated, Queues
<1>2. SystemInv /\ AnnouncedInv /\ [Next]_vars => AnnouncedInv'
  BY AnnouncedPreserved DEF SystemInv
<1>3. Init => Ledger!LedgerInit
  BY DEF Init, TicketInit, ValidatorInit, Issue!IssueInit, Ledger!LedgerInit
<1>4. SystemInv /\ AnnouncedInv /\ [Next]_vars => [Ledger!LedgerNext]_(Ledger!ledgerVars)
  <2> SUFFICES ASSUME SystemInv, AnnouncedInv, [Next]_vars PROVE LedgerStep
    BY DEF LedgerStep
  <2>1. ASSUME UNCHANGED <<row, announced, cache, admitted>> PROVE LedgerStep
    BY <2>1 DEF LedgerStep, Ledger!ledgerVars
  <2>2. ASSUME NEW s \in Scanners, NEW c \in Codes, StartScan(s, c) PROVE LedgerStep
    BY <2>1, <2>2 DEF StartScan, ScanGet, ticketVars, issueVars
  <2>3. CASE TicketApiFault
    BY <2>1, <2>3 DEF TicketApiFault, TicketDisconnect, TicketRestart, validatorVars, issueVars,
                      historyVars
  <2>4. CASE ValidatorApiFault
    BY <2>1, <2>4 DEF ValidatorApiFault, ValidatorDisconnect, ValidatorRestart, ticketVars,
                      issueVars, historyVars
  <2>5. CASE BrokerFault \/ UNCHANGED vars
    BY <2>1, <2>5 DEF BrokerFault, vars, ticketVars, validatorVars, issueVars, historyVars
  <2> QED BY <2>2, <2>3, <2>4, <2>5, PurchaseLedger, CancelLedger, ConsumeUsedLedger,
             ContinueScanLedger, AdmitLedger, ConsumeCreatedLedger, ConsumeCancelledLedger DEF Next
<1> QED BY <1>1, <1>2, <1>3, <1>4, SystemInvariance, PTL
        DEF Spec, ImplementsTicketLedger, Ledger!LedgerSpec

-----------------------------------------------------------------------------
(* What the ledger means                                                   *)

\* what one side says of a ticket is backed by what happened on the other
BooksAgree ==
    \A c \in Codes :
        /\ c \in announced => row[c] # "absent"
        /\ cache[c] # "none" => c \in announced
        /\ row[c] = "used" => c \in admitted
        /\ cache[c] = "cancelled" => row[c] \in Terminal
        /\ c \in admitted => LookupAuthenticated \/ cache[c] \in Terminal

\* neither side takes back what the other may have acted on
NothingTakenBack ==
    \A c \in Codes :
        /\ row[c] # "absent" => row'[c] # "absent"
        /\ row[c] \in Terminal => row'[c] \in Terminal
        /\ cache[c] # "none" => cache'[c] # "none"
        /\ cache[c] \in Terminal => cache'[c] \in Terminal
        /\ c \in announced => c \in announced'
        /\ c \in admitted => c \in admitted'

\* a ledger step, ticket by ticket
LEMMA LedgerChanges ==
    ASSUME row \in [Codes -> TicketStatuses \cup {"absent"}],
           cache \in [Codes -> CacheStatuses \cup {"none"}],
           BooksAgree, LedgerStep
    PROVE  /\ row' \in [Codes -> TicketStatuses \cup {"absent"}]
           /\ cache' \in [Codes -> CacheStatuses \cup {"none"}]
           /\ BooksAgree'
           /\ NothingTakenBack
<1> DEFINE Goal == /\ row' \in [Codes -> TicketStatuses \cup {"absent"}]
                   /\ cache' \in [Codes -> CacheStatuses \cup {"none"}]
                   /\ BooksAgree'
                   /\ NothingTakenBack
<1> USE DEF BooksAgree, NothingTakenBack, Terminal, TicketStatuses, CacheStatuses, Ledger!Spent
<1>1. CASE UNCHANGED Ledger!ledgerVars
  BY <1>1 DEF Ledger!ledgerVars
<1>2. ASSUME NEW c \in Codes, Ledger!Emit(c) PROVE Goal
  BY <1>2 DEF Ledger!Emit
<1>3. ASSUME NEW c \in Codes, Ledger!Announce(c) PROVE Goal
  BY <1>3 DEF Ledger!Announce
<1>4. ASSUME NEW c \in Codes, Ledger!Withdraw(c) \/ Ledger!NoteUse(c) PROVE Goal
  BY <1>4 DEF Ledger!Withdraw, Ledger!NoteUse
<1>5. ASSUME NEW c \in Codes, Ledger!Learn(c) PROVE Goal
  BY <1>5 DEF Ledger!Learn
<1>6. ASSUME NEW c \in Codes, Ledger!Spend(c) \/ Ledger!NoteCancel(c) PROVE Goal
  BY <1>6 DEF Ledger!Spend, Ledger!NoteCancel
<1>7. ASSUME NEW c \in Codes, Ledger!LetIn(c) PROVE Goal
  BY <1>7 DEF Ledger!LetIn
<1> QED BY <1>1, <1>2, <1>3, <1>4, <1>5, <1>6, <1>7 DEF LedgerStep, Ledger!LedgerNext

\* Whatever keeps the ledger has books that agree: each claim about a ticket on
\* one side is backed on the other, for good.
THEOREM LedgerBooksAgree ==
    Ledger!LedgerSpec => []BooksAgree /\ [][NothingTakenBack]_(Ledger!ledgerVars)
<1> DEFINE Types == /\ row \in [Codes -> TicketStatuses \cup {"absent"}]
                    /\ cache \in [Codes -> CacheStatuses \cup {"none"}]
<1>1. Ledger!LedgerInit => Types /\ BooksAgree
  BY DEF Ledger!LedgerInit, BooksAgree
<1>2. Types /\ BooksAgree /\ [Ledger!LedgerNext]_(Ledger!ledgerVars)
      => (Types /\ BooksAgree)' /\ [NothingTakenBack]_(Ledger!ledgerVars)
  BY LedgerChanges DEF LedgerStep
<1> HIDE DEF Types
<1> QED BY <1>1, <1>2, PTL DEF Ledger!LedgerSpec

\* Through every fault, overlap and redelivery the tables of the two services
\* back each other's claims about a ticket and take nothing back.
THEOREM SystemBooksAgree ==
    Spec => []BooksAgree /\ [][NothingTakenBack]_(Ledger!ledgerVars)
BY SystemImplementsLedger, LedgerBooksAgree, PTL DEF ImplementsTicketLedger
=============================================================================
