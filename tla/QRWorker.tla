------------------------------ MODULE QRWorker ------------------------------
(***************************************************************************)
(* The QR workers: processes that share the queue of purchase.completed,   *)
(* make the QR codes of each purchase and mail them to the buyer           *)
(* (internal/ticket/adapter/qr_worker.go, email_sender.go,                 *)
(* cmd/qr-worker/main.go).                                                 *)
(*                                                                         *)
(* A consumer sets no prefetch limit, so the broker pushes what waits to   *)
(* any worker at once, and there it sits behind the delivery in hand.  The *)
(* SMTP session has no timeout and looks at no context.  A worker that is  *)
(* told to stop, or loses its channel, finishes the delivery in hand first;*)
(* nothing but an operator starts it again.                                *)
(***************************************************************************)
EXTENDS Naturals, FiniteSets

CONSTANTS Purchases, NoPurchase,
          Workers,
          MaxMails,  \* mails per purchase are counted up to this bound
          Faults     \* the kinds of failure that may occur

\* "smtp": the mail server answers with an error or breaks the connection;
\* "hang": it stops answering; "disconnect": a worker loses its channel;
\* "crash": a worker is killed; "stop": a worker gets SIGTERM;
\* "loss": the broker restarts, and its messages are not persistent
FaultKinds == {"smtp", "hang", "disconnect", "crash", "stop", "loss"}

ASSUME QRWorkerAssumption ==
    /\ NoPurchase \notin Purchases
    /\ MaxMails \in Nat \ {0}
    /\ IsFiniteSet(Workers)
    /\ Faults \subseteq FaultKinds

VARIABLES
    waiting,    \* [Purchases -> Nat]: copies in the queue
    buffer,     \* per worker: the deliveries pushed to it and not yet in hand
    pc,         \* per worker: its next step
    job,        \* per worker: the purchase in hand
    up,         \* per worker: its AMQP channel is open
    cancelled,  \* per worker: its context is cancelled
    mails,      \* [Purchases -> 0..MaxMails]: mails the buyer got
    \* history, which no step reads:
    published,  \* purchases whose purchase.completed was published
    settled,    \* purchases whose message the broker saw acknowledged
    disturbed,  \* purchases in hand when something failed
    lost        \* purchases whose message a restart of the broker dropped

process == <<pc, job, up, cancelled>>
queue == <<waiting, buffer>>
vars == <<queue, process, mails, published, settled, disturbed, lost>>

Handling == {"send", "ack", "hung"}

TypeOK ==
    /\ waiting \in [Purchases -> Nat]
    /\ buffer \in [Workers -> SUBSET Purchases]
    /\ pc \in [Workers -> {"idle", "exited"} \cup Handling]
    /\ job \in [Workers -> Purchases \cup {NoPurchase}]
    /\ \A w \in Workers : pc[w] \in Handling <=> job[w] # NoPurchase
    /\ up \in [Workers -> BOOLEAN]
    /\ cancelled \in [Workers -> BOOLEAN]
    /\ mails \in [Purchases -> 0..MaxMails]
    /\ published \subseteq Purchases
    /\ settled \subseteq published
    /\ disturbed \subseteq published
    /\ lost \subseteq published

Init ==
    /\ waiting = [p \in Purchases |-> 0]
    /\ buffer = [w \in Workers |-> {}]
    /\ pc = [w \in Workers |-> "idle"]
    /\ job = [w \in Workers |-> NoPurchase]
    /\ up = [w \in Workers |-> TRUE]
    /\ cancelled = [w \in Workers |-> FALSE]
    /\ mails = [p \in Purchases |-> 0]
    /\ published = {}
    /\ settled = {}
    /\ disturbed = {}
    /\ lost = {}

\* PublishPurchaseCompleted, once per purchase
Publish(p) ==
    /\ p \notin published
    /\ published' = published \cup {p}
    /\ waiting' = [waiting EXCEPT ![p] = @ + 1]
    /\ UNCHANGED <<buffer, process, mails, settled, disturbed, lost>>

\* the broker pushes a message to a consumer, busy or not
Push(w, p) ==
    /\ up[w]
    /\ waiting[p] > 0
    /\ p \notin buffer[w]
    /\ waiting' = [waiting EXCEPT ![p] = @ - 1]
    /\ buffer' = [buffer EXCEPT ![w] = @ \cup {p}]
    /\ UNCHANGED <<process, mails, published, settled, disturbed, lost>>

-----------------------------------------------------------------------------
(* HandleMessage: the QR codes are made in memory, then sendMail talks to  *)
(* the server.                                                             *)

\* The loop receives a message.  It may do so after its context is cancelled:
\* select chooses freely between the two.
Take(w, p) ==
    /\ pc[w] = "idle"
    /\ p \in buffer[w]
    /\ buffer' = [buffer EXCEPT ![w] = @ \ {p}]
    /\ pc' = [pc EXCEPT ![w] = "send"]
    /\ job' = [job EXCEPT ![w] = p]
    /\ UNCHANGED <<waiting, up, cancelled, mails, published, settled, disturbed, lost>>

MailOut(p) == [mails EXCEPT ![p] = IF @ < MaxMails THEN @ + 1 ELSE @]

\* sendMail, from Dial to the answer to QUIT
Send(w) ==
    /\ pc[w] = "send"
    /\ mails' = MailOut(job[w])
    /\ pc' = [pc EXCEPT ![w] = "ack"]
    /\ UNCHANGED <<queue, job, up, cancelled, published, settled, disturbed, lost>>

\* The server has the mail once it answers the final dot of DATA; what fails
\* before leaves no mail, what fails after, QUIT included, leaves one.
MaybeMailed(w) == {mails, MailOut(job[w])}

\* mutant of Done: the delivery stays in hand
DoneKeepingJob(w) ==
    /\ pc' = [pc EXCEPT ![w] = "idle"]
    /\ UNCHANGED job

\* HandleMessage returns to the loop
Done(w) ==
    /\ pc' = [pc EXCEPT ![w] = "idle"]
    /\ job' = [job EXCEPT ![w] = NoPurchase]

\* On a lost channel the broker has the copy back, and Ack and Nack do nothing.
Requeue(w) == [waiting EXCEPT ![job[w]] = IF up[w] THEN @ + 1 ELSE @]

SessionFails(w) ==
    \/ "smtp" \in Faults /\ pc[w] = "send" /\ mails' \in MaybeMailed(w)
    \/ pc[w] = "hung" /\ UNCHANGED mails

\* mutants of SendFails: the message is acknowledged all the same, and it is
\* rejected for good
SendFailsAcked(w) ==
    /\ SessionFails(w)
    /\ settled' = IF up[w] THEN settled \cup {job[w]} ELSE settled
    /\ disturbed' = disturbed \cup {job[w]}
    /\ Done(w)
    /\ UNCHANGED <<queue, up, cancelled, published, lost>>
SendFailsDropped(w) ==
    /\ SessionFails(w)
    /\ disturbed' = disturbed \cup {job[w]}
    /\ Done(w)
    /\ UNCHANGED <<queue, up, cancelled, published, settled, lost>>

\* sendMail returns an error: Nack with requeue
SendFails(w) ==
    /\ SessionFails(w)
    /\ waiting' = Requeue(w)
    /\ disturbed' = disturbed \cup {job[w]}
    /\ Done(w)
    /\ UNCHANGED <<buffer, up, cancelled, published, settled, lost>>

\* the server stops answering; sendMail waits until the connection breaks
Hang(w) ==
    /\ "hang" \in Faults
    /\ pc[w] = "send"
    /\ mails' \in MaybeMailed(w)
    /\ pc' = [pc EXCEPT ![w] = "hung"]
    /\ UNCHANGED <<queue, job, up, cancelled, published, settled, disturbed, lost>>

\* mutant of Ack: the message is requeued after the mail
AckRequeues(w) ==
    /\ pc[w] = "ack"
    /\ waiting' = Requeue(w)
    /\ Done(w)
    /\ UNCHANGED <<buffer, up, cancelled, mails, published, settled, disturbed, lost>>

Ack(w) ==
    /\ pc[w] = "ack"
    /\ settled' = IF up[w] THEN settled \cup {job[w]} ELSE settled
    /\ Done(w)
    /\ UNCHANGED <<queue, up, cancelled, mails, published, disturbed, lost>>

HandleMessage(w) == Send(w) \/ SendFails(w) \/ Ack(w)

-----------------------------------------------------------------------------
(* Channels and processes                                                  *)

\* the copies the broker waits for on the channel of w
InFlight(w) == buffer[w] \cup (IF up[w] THEN {job[w]} ELSE {})
Held(w) == {job[w]} \ {NoPurchase}

\* mutant of TakenBack: the broker forgets the delivery in hand
TakenBackBuffered(w) ==
    [p \in Purchases |-> IF p \in buffer[w] THEN waiting[p] + 1 ELSE waiting[p]]

\* when a channel closes, the broker takes back what was not acknowledged
TakenBack(w) ==
    [p \in Purchases |-> IF p \in InFlight(w) THEN waiting[p] + 1 ELSE waiting[p]]

CloseChannel(w) ==
    /\ waiting' = TakenBack(w)
    /\ buffer' = [buffer EXCEPT ![w] = {}]
    /\ up' = [up EXCEPT ![w] = FALSE]

Disconnect(w) ==
    /\ "disconnect" \in Faults
    /\ up[w]
    /\ CloseChannel(w)
    /\ disturbed' = disturbed \cup Held(w)
    /\ UNCHANGED <<pc, job, cancelled, mails, published, settled, lost>>

\* SIGTERM: the goroutine of main cancels the context
Stop(w) ==
    /\ "stop" \in Faults
    /\ pc[w] # "exited"
    /\ ~cancelled[w]
    /\ cancelled' = [cancelled EXCEPT ![w] = TRUE]
    /\ UNCHANGED <<queue, pc, job, up, mails, published, settled, disturbed, lost>>

\* mutant of Return: only a lost channel ends the loop
ReturnUncancelled(w) ==
    /\ pc[w] = "idle"
    /\ ~up[w]
    /\ CloseChannel(w)
    /\ pc' = [pc EXCEPT ![w] = "exited"]
    /\ UNCHANGED <<job, cancelled, mails, published, settled, disturbed, lost>>

\* StartConsuming returns, main closes the channel and the process exits
Return(w) ==
    /\ pc[w] = "idle"
    /\ cancelled[w] \/ ~up[w]
    /\ CloseChannel(w)
    /\ pc' = [pc EXCEPT ![w] = "exited"]
    /\ UNCHANGED <<job, cancelled, mails, published, settled, disturbed, lost>>

Crash(w) ==
    /\ "crash" \in Faults
    /\ pc[w] # "exited"
    /\ CloseChannel(w)
    /\ pc' = [pc EXCEPT ![w] = "exited"]
    /\ job' = [job EXCEPT ![w] = NoPurchase]
    /\ disturbed' = disturbed \cup Held(w)
    /\ UNCHANGED <<cancelled, mails, published, settled, lost>>

Start(w) ==
    /\ pc[w] = "exited"
    /\ pc' = [pc EXCEPT ![w] = "idle"]
    /\ up' = [up EXCEPT ![w] = TRUE]
    /\ cancelled' = [cancelled EXCEPT ![w] = FALSE]
    /\ UNCHANGED <<queue, job, mails, published, settled, disturbed, lost>>

\* The broker restarts: the queue is durable, its messages are not.
BrokerRestart ==
    /\ "loss" \in Faults
    /\ waiting' = [p \in Purchases |-> 0]
    /\ buffer' = [w \in Workers |-> {}]
    /\ up' = [w \in Workers |-> FALSE]
    /\ lost' = lost \cup (published \ settled)
    /\ disturbed' = disturbed \cup UNION {Held(w) : w \in Workers}
    /\ UNCHANGED <<pc, job, cancelled, mails, published, settled>>

Next ==
    \/ \E p \in Purchases : Publish(p)
    \/ \E w \in Workers, p \in Purchases : Push(w, p) \/ Take(w, p)
    \/ \E w \in Workers :
        \/ HandleMessage(w) \/ Hang(w)
        \/ Disconnect(w) \/ Stop(w) \/ Return(w) \/ Crash(w) \/ Start(w)
    \/ BrokerRestart

Spec == Init /\ [][Next]_vars

\* A waiting message is pushed to someone, and one that comes back again and again
\* is handed out, in the end; a mail server that is tried over and over takes a
\* mail in the end; a goroutine that can go on goes on, and select does not
\* ignore a cancelled context for ever.  Nothing is assumed of faults and
\* starts, nor of a server that hangs.
Fairness ==
    /\ \A p \in Purchases :
        /\ WF_vars(\E w \in Workers : Push(w, p))
        /\ SF_vars(\E w \in Workers : Take(w, p))
        /\ SF_vars(\E w \in Workers : job[w] = p /\ Send(w))
    /\ \A w \in Workers :
        /\ WF_vars(pc[w] # "hung" /\ HandleMessage(w))
        /\ SF_vars(Return(w))

FairSpec == Spec /\ Fairness

-----------------------------------------------------------------------------
\* the workers that hold a copy of p the broker still waits for
Holders(p) == {w \in Workers : p \in InFlight(w)}

\* A published purchase has one live copy, in the queue or with one worker,
\* until it is acknowledged or lost with the broker, and none after that:
\* redeliveries, lost channels and crashes neither lose nor multiply the message
\* (qr_worker.go:131-139).
OneLiveCopy ==
    \A p \in Purchases :
        waiting[p] + Cardinality(Holders(p)) =
            IF p \in published \ (settled \cup lost) THEN 1 ELSE 0

\* A purchase is settled only after its buyer was sent a mail.
SettledWasMailed == \A p \in settled : mails[p] > 0

\* A buyer gets a second mail only if the handling of the purchase was cut or
\* failed with the message in hand: otherwise the Ack after the mail
\* (qr_worker.go:139) makes it the only one.
SecondMailOnlyAfterFault == \A p \in Purchases : mails[p] > 1 => p \in disturbed

Delivery == INSTANCE MailDelivery

\* The workers keep the promise made to each buyer: whatever the mail server, the
\* channels and the processes do, settling takes a mail, a further mail takes a
\* disturbance while the message was open, and a purchase settled without any
\* keeps its one mail (qr_worker.go:131-139).
ImplementsMailDelivery == Delivery!DeliverySpec

\* Once workers are no longer cut off from the broker, every completed purchase is
\* mailed to its buyer, through failures of the mail server and whatever happened
\* before, provided that the broker kept the message and no worker waits for ever
\* for a server that hangs, with messages pushed to it behind.
EveryPurchaseMailed ==
    /\ \A w \in Workers : <>[]up[w]
    /\ \A w \in Workers : []<>(pc[w] # "hung")
    => \A p \in Purchases : p \in published ~> mails[p] > 0 \/ p \in lost

\* "It blocks until the context is cancelled or the channel is closed"
\* (qr_worker.go:55): a worker that is told to stop, or whose channel is lost,
\* ends, unless the mail server hangs (email_sender.go:188).
StopsUnlessMailHangs ==
    \A w \in Workers : cancelled[w] \/ ~up[w] ~> pc[w] \in {"exited", "hung"}
=============================================================================
