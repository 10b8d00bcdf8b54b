------------------------ MODULE CancellationHistory ------------------------
(***************************************************************************)
(* When the validator may leave a ticket.cancelled unacknowledged.         *)
(*                                                                         *)
(* Its consumer rejects a record that says used or cancelled already and   *)
(* puts the message back, for ever (internal/validator/adapter/            *)
(* rabbitmq_consumer.go:151-153, internal/validator/service.go:207-225).   *)
(* TicketSystem with a history variable that notes the codes this may      *)
(* happen to, by what has happened to them and not by what their record    *)
(* says: the handler writes the record itself, and is to acknowledge then. *)
(* No step reads the variable.                                             *)
(***************************************************************************)
EXTENDS TicketSystem

VARIABLE doomed  \* codes with a ticket.cancelled that may come back for ever

allVars == <<vars, doomed>>

\* the ticket is let in before its cancellation is handled
SpentByScan(c) == cache'[c] = "used"

\* a second cancellation is published behind one that is not settled, or that
\* was: two cancel requests have overlapped
CancelledTwice(c) ==
    /\ \E k \in Cancellers : cancelCode[k] = c /\ CancelPublish(k) /\ ticketUp
    /\ queue["cancelled"][c] > 0 \/ HeldCancelled(c) \/ cache[c] = "cancelled"

\* the record is written, but the handler cannot acknowledge
CutAfterWrite(c) ==
    /\ cancelledCode = c /\ cancelledPc \in {"update", "ack"} /\ cache'[c] = "cancelled"
    /\ CancelledFails \/ ValidatorRestart \/ ValidatorDisconnect

HistoryInit == Init /\ doomed = {}

HistoryNext ==
    /\ Next
    /\ doomed' = doomed \cup
           {c \in Codes : SpentByScan(c) \/ CancelledTwice(c) \/ CutAfterWrite(c)}

HistorySpec == HistoryInit /\ [][HistoryNext]_allVars

FairHistorySpec == HistorySpec /\ CreatedFairness /\ CancelledFairness /\ UsedFairness

-----------------------------------------------------------------------------
(* Properties                                                              *)

\* A cancellation on its way is handled and acknowledged in the end, over failed
\* calls and restarts, unless the ticket was let in, cancelled twice, or its
\* handler was cut off between the write and the Ack: only these may leave it
\* going round for ever, and no other (service.go:207-225,
\* rabbitmq_consumer.go:137-155).
CancellationSettles ==
    \A c \in Codes :
        queue["cancelled"][c] > 0 ~>
            (queue["cancelled"][c] = 0 /\ ~HeldCancelled(c)) \/ c \in doomed
=============================================================================
