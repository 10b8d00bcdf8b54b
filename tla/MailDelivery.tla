---------------------------- MODULE MailDelivery ----------------------------
(***************************************************************************)
(* What the QR workers promise a buyer, told without queues and workers: a *)
(* purchase that was published is open until it is settled, which takes a  *)
(* mail, or lost with the broker.  A mail after the first one needs a      *)
(* disturbance, and only an open purchase can be disturbed: one that was   *)
(* settled without any keeps its one mail.                                 *)
(*                                                                         *)
(* Nothing is promised about progress.  QRWorker implements this module.   *)
(***************************************************************************)
EXTENDS Naturals

CONSTANTS Purchases,
          MaxMails   \* mails per purchase are counted up to this bound

VARIABLES
    mails,      \* [Purchases -> 0..MaxMails]: mails the buyer got
    published,  \* purchases whose purchase.completed was published
    settled,    \* purchases whose message was acknowledged
    disturbed,  \* purchases whose handling was cut or failed
    lost        \* purchases whose message was lost with the broker

mailVars == <<mails, published, settled, disturbed, lost>>

DeliveryInit ==
    /\ mails = [p \in Purchases |-> 0]
    /\ published = {}
    /\ settled = {}
    /\ disturbed = {}
    /\ lost = {}

\* the purchases that somebody still has to mail and acknowledge
Open == published \ (settled \cup lost)

\* purchase.completed is published
Request(p) ==
    /\ p \in Purchases \ published
    /\ published' = published \cup {p}
    /\ UNCHANGED <<mails, settled, disturbed, lost>>

Mailable(p) == p \in published /\ (mails[p] = 0 \/ p \in disturbed)

OneMoreMail(p) == [mails EXCEPT ![p] = IF @ < MaxMails THEN @ + 1 ELSE @]

\* the mail server takes the mail, known to the worker or not
Mail(p) ==
    /\ Mailable(p)
    /\ mails' = OneMoreMail(p)
    /\ UNCHANGED <<published, settled, disturbed, lost>>

\* A session ends with an error, with or without a mail left behind.  A worker
\* cut off from the broker may still try a purchase that is not open any more.
Fail(p) ==
    /\ p \in Open \cup disturbed
    /\ mails' = mails \/ (Mailable(p) /\ mails' = OneMoreMail(p))
    /\ disturbed' = disturbed \cup {p}
    /\ UNCHANGED <<published, settled, lost>>

\* a worker with a delivery in hand loses its channel, or is killed
Cut(p) ==
    /\ p \in Open
    /\ disturbed' = disturbed \cup {p}
    /\ UNCHANGED <<mails, published, settled, lost>>

\* the message is acknowledged
Settle(p) ==
    /\ p \in Open
    /\ mails[p] > 0
    /\ settled' = settled \cup {p}
    /\ UNCHANGED <<mails, published, disturbed, lost>>

\* the broker loses its messages, those of deliveries in hand as well
LoseAll ==
    /\ lost' = lost \cup Open
    /\ \E S \in SUBSET Open : disturbed' = disturbed \cup S
    /\ UNCHANGED <<mails, published, settled>>

DeliveryNext ==
    \/ \E p \in Purchases : Request(p) \/ Mail(p) \/ Fail(p) \/ Cut(p) \/ Settle(p)
    \/ LoseAll

DeliverySpec == DeliveryInit /\ [][DeliveryNext]_mailVars
=============================================================================
