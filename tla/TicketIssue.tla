---------------------------- MODULE TicketIssue ----------------------------
(***************************************************************************)
(* What TicketService.Purchase promises to the rest of the system about    *)
(* the order of its effects on one ticket: the row is in the database      *)
(* before ticket.created is published, and purchase.completed, which tells *)
(* the buyer the codes, is published only when every ticket it lists has   *)
(* been announced to the validator.                                        *)
(*                                                                         *)
(* Nothing is promised about progress: a failed purchase may leave any     *)
(* prefix behind.  PurchaseService implements this module; TicketSystem    *)
(* is built on it.                                                         *)
(***************************************************************************)
CONSTANT Tickets      \* the ticket codes that may ever be issued

VARIABLES persisted,  \* tickets with a row in the tickets table
          announced,  \* tickets whose ticket.created was published
          completed   \* tickets listed in a published purchase.completed

issueVars == <<persisted, announced, completed>>

IssueInit ==
    /\ persisted = {}
    /\ announced = {}
    /\ completed = {}

\* ticketRepo.Add
Persist(t) ==
    /\ t \in Tickets \ persisted
    /\ persisted' = persisted \cup {t}
    /\ UNCHANGED <<announced, completed>>

\* PublishTicketCreated
Announce(t) ==
    /\ t \in persisted \ announced
    /\ announced' = announced \cup {t}
    /\ UNCHANGED <<persisted, completed>>

\* PublishPurchaseCompleted for the tickets S of one purchase
Complete(S) ==
    /\ S \subseteq announced
    /\ completed' = completed \cup S
    /\ UNCHANGED <<persisted, announced>>

IssueNext ==
    \/ \E t \in Tickets : Persist(t) \/ Announce(t)
    \/ \E S \in SUBSET Tickets : Complete(S)

IssueSpec == IssueInit /\ [][IssueNext]_issueVars
=============================================================================
