---------------------------- MODULE TicketLedger ----------------------------
(***************************************************************************)
(* What the two services promise about one ticket, told without queues,    *)
(* consumers and requests: the row of the Ticket API and the record of the *)
(* Validator API each only move forward, and each learns of what the other *)
(* did only after it happened.  A record is made of an announced ticket, a *)
(* row says used of an admitted one, a record says cancelled of one the    *)
(* Ticket API gave up, and a holder is let in on a spent record.           *)
(*                                                                         *)
(* A spent row or record may still change from used to cancelled and back: *)
(* the services write without looking, and this promises nothing more.     *)
(***************************************************************************)
CONSTANTS Codes,
          LookupAuthenticated  \* a ticket without a record may be let in on
                               \* the word of the Ticket API

VARIABLES
    row,        \* [Codes -> status]: the ticket in the Ticket API
    announced,  \* tickets whose ticket.created was published
    cache,      \* [Codes -> status]: the record of the Validator API
    admitted    \* tickets whose holder was let in

ledgerVars == <<row, announced, cache, admitted>>

Spent == {"used", "cancelled"}

LedgerInit ==
    /\ row = [c \in Codes |-> "absent"]
    /\ announced = {}
    /\ cache = [c \in Codes |-> "none"]
    /\ admitted = {}

\* the Ticket API: a purchase, a cancellation, and the report of a use

Emit(c) ==
    /\ row[c] = "absent"
    /\ row' = [row EXCEPT ![c] = "emitted"]
    /\ UNCHANGED <<announced, cache, admitted>>

Announce(c) ==
    /\ row[c] # "absent"
    /\ announced' = announced \cup {c}
    /\ UNCHANGED <<row, cache, admitted>>

Withdraw(c) ==
    /\ row[c] # "absent"
    /\ row' = [row EXCEPT ![c] = "cancelled"]
    /\ UNCHANGED <<announced, cache, admitted>>

NoteUse(c) ==
    /\ row[c] # "absent"
    /\ c \in admitted
    /\ row' = [row EXCEPT ![c] = "used"]
    /\ UNCHANGED <<announced, cache, admitted>>

\* the Validator API: a new record, a scan, and the news of a cancellation

Learn(c) ==
    /\ c \in announced
    /\ cache[c] = "none"
    /\ cache' = [cache EXCEPT ![c] = "active"]
    /\ UNCHANGED <<row, announced, admitted>>

Spend(c) ==
    /\ cache[c] # "none"
    /\ cache' = [cache EXCEPT ![c] = "used"]
    /\ UNCHANGED <<row, announced, admitted>>

LetIn(c) ==
    /\ c \in announced
    /\ LookupAuthenticated \/ cache[c] \in Spent
    /\ admitted' = admitted \cup {c}
    /\ UNCHANGED <<row, announced, cache>>

NoteCancel(c) ==
    /\ cache[c] # "none"
    /\ row[c] \in Spent
    /\ cache' = [cache EXCEPT ![c] = "cancelled"]
    /\ UNCHANGED <<row, announced, admitted>>

LedgerNext ==
    \E c \in Codes :
        \/ Emit(c) \/ Announce(c) \/ Withdraw(c) \/ NoteUse(c)
        \/ Learn(c) \/ Spend(c) \/ LetIn(c) \/ NoteCancel(c)

LedgerSpec == LedgerInit /\ [][LedgerNext]_ledgerVars
=============================================================================
