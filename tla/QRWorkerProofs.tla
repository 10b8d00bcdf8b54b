--------------------------- MODULE QRWorkerProofs ---------------------------
(***************************************************************************)
(* Theorems about QRWorker for any purchases, workers and faults: the      *)
(* messages are neither lost nor multiplied by what happens to workers,    *)
(* what is settled was mailed, and a second mail has a fault behind it.    *)
(***************************************************************************)
EXTENDS QRWorker, FiniteSetTheorems, TLAPS

\* the purchases whose message still has to be handled
Live == published \ (settled \cup lost)

\* What a worker holds came from the queue, and the broker knows of all that
\* waits behind the delivery in hand.
HoldingInv ==
    \A w \in Workers :
        /\ ~up[w] => buffer[w] = {}
        /\ up[w] => job[w] \notin buffer[w]
        /\ \A p \in Purchases : job[w] = p => p \in published

\* the copy of a live message is in the queue or with one worker
CopyInv ==
    \A p \in Purchases :
        /\ waiting[p] <= 1
        /\ \A w \in Workers : p \in InFlight(w) => waiting[p] = 0
        /\ \A v, w \in Workers : p \in InFlight(v) /\ p \in InFlight(w) => v = w
        /\ p \in Live <=> waiting[p] = 1 \/ \E w \in Workers : p \in InFlight(w)

\* a delivery to be acknowledged was mailed
MailedInv == \A w \in Workers : pc[w] = "ack" => mails[job[w]] > 0

\* A purchase that nothing disturbed is handled on an open channel, and once
\* mailed it is settled, or in the hands of the worker that mailed it.
UndisturbedInv ==
    \A p \in Purchases \ disturbed :
        /\ \A w \in Workers : job[w] = p => up[w]
        /\ mails[p] > 0 => \/ p \in settled
                           \/ \E w \in Workers : job[w] = p /\ pc[w] \in {"ack", "hung"}

QueueInv == TypeOK /\ HoldingInv /\ CopyInv
MailInv == MailedInv /\ UndisturbedInv /\ SettledWasMailed /\ SecondMailOnlyAfterFault

-----------------------------------------------------------------------------
(* Types                                                                   *)

LEMMA InitTypeOK == Init => TypeOK
  BY QRWorkerAssumption DEF Init, TypeOK, Handling

LEMMA InFlightPublished ==
  ASSUME QueueInv, NEW w \in Workers, NEW p \in Purchases, p \in InFlight(w)
  PROVE  p \in Live
  BY DEF QueueInv, CopyInv

\* the purchase in hand
LEMMA JobInHand ==
  ASSUME QueueInv, NEW w \in Workers, pc[w] \in Handling
  PROVE  job[w] \in Purchases /\ job[w] \in published
  BY DEF QueueInv, TypeOK, HoldingInv

LEMMA MailOutType ==
  ASSUME TypeOK, NEW p \in Purchases
  PROVE  /\ MailOut(p) \in [Purchases -> 0 .. MaxMails]
         /\ MailOut(p)[p] > 0
         /\ \A q \in Purchases \ {p} : MailOut(p)[q] = mails[q]
         /\ MailOut(p)[p] >= mails[p]
         /\ mails[p] = 0 => MailOut(p)[p] = 1
  <1>1. mails \in [Purchases -> 0 .. MaxMails] /\ MaxMails \in Nat \ {0}
    BY QRWorkerAssumption DEF TypeOK
  <1>2. MailOut(p) = [mails EXCEPT ![p] = IF mails[p] < MaxMails THEN mails[p] + 1 ELSE mails[p]]
    BY DEF MailOut
  <1> QED BY <1>1, <1>2

LEMMA TakenBackType ==
  ASSUME TypeOK, NEW w \in Workers
  PROVE  TakenBack(w) \in [Purchases -> Nat]
  BY DEF TypeOK, TakenBack

LEMMA NextTypeOK == QueueInv /\ [Next]_vars => TypeOK'
  <1> SUFFICES ASSUME QueueInv, [Next]_vars PROVE TypeOK'
    OBVIOUS
  <1>0. TypeOK
    BY DEF QueueInv
  <1> USE QRWorkerAssumption, <1>0 DEF Handling, process, queue
  <1>1. ASSUME NEW p \in Purchases, Publish(p) PROVE TypeOK'
    BY <1>1 DEF Publish, TypeOK
  <1>2. ASSUME NEW w \in Workers, NEW p \in Purchases, Push(w, p) PROVE TypeOK'
    BY <1>2 DEF Push, TypeOK
  <1>3. ASSUME NEW w \in Workers, NEW p \in Purchases, Take(w, p) PROVE TypeOK'
    BY <1>3 DEF Take, TypeOK
  <1>4. ASSUME NEW w \in Workers, Send(w) PROVE TypeOK'
    <2>1. mails' \in [Purchases -> 0 .. MaxMails]
      BY <1>4, JobInHand, MailOutType DEF Send
    <2> QED BY <1>4, <2>1 DEF Send, TypeOK
  <1>5. ASSUME NEW w \in Workers, SendFails(w) PROVE TypeOK'
    <2>1. pc[w] \in Handling
      BY <1>5 DEF SendFails, SessionFails
    <2>2. job[w] \in Purchases /\ job[w] \in published
      BY <2>1, JobInHand
    <2>3. mails' \in [Purchases -> 0 .. MaxMails]
      BY <1>5, <2>2, MailOutType DEF SendFails, SessionFails, MaybeMailed, TypeOK
    <2>4. waiting' \in [Purchases -> Nat]
      BY <1>5, <2>2 DEF SendFails, Requeue, TypeOK
    <2> QED BY <1>5, <2>2, <2>3, <2>4 DEF SendFails, Done, TypeOK
  <1>6. ASSUME NEW w \in Workers, Ack(w) PROVE TypeOK'
    <2>1. job[w] \in Purchases /\ job[w] \in published
      BY <1>6, JobInHand DEF Ack
    <2> QED BY <1>6, <2>1 DEF Ack, Done, TypeOK
  <1>7. ASSUME NEW w \in Workers, Hang(w) PROVE TypeOK'
    <2>1. mails' \in [Purchases -> 0 .. MaxMails]
      BY <1>7, JobInHand, MailOutType DEF Hang, MaybeMailed, TypeOK
    <2> QED BY <1>7, <2>1 DEF Hang, TypeOK
  <1>8. ASSUME NEW w \in Workers, Disconnect(w) \/ Return(w) \/ Crash(w) PROVE TypeOK'
    <2>1. waiting' \in [Purchases -> Nat]
      BY <1>8, TakenBackType DEF Disconnect, Return, Crash, CloseChannel
    <2>2. Held(w) \subseteq published
      BY DEF Held, QueueInv, HoldingInv, TypeOK
    <2>3. CASE Disconnect(w)
      BY <2>1, <2>2, <2>3 DEF Disconnect, CloseChannel, TypeOK
    <2>4. CASE Return(w)
      BY <2>1, <2>2, <2>4 DEF Return, CloseChannel, TypeOK
    <2>5. CASE Crash(w)
      BY <2>1, <2>2, <2>5 DEF Crash, CloseChannel, TypeOK
    <2> QED BY <1>8, <2>3, <2>4, <2>5
  <1>9. ASSUME NEW w \in Workers, Stop(w) \/ Start(w) PROVE TypeOK'
    BY <1>9 DEF Stop, Start, TypeOK
  <1>10. CASE BrokerRestart
    <2>1. UNION {Held(w) : w \in Workers} \subseteq published
      BY DEF Held, QueueInv, HoldingInv, TypeOK
    <2> QED BY <1>10, <2>1 DEF BrokerRestart, TypeOK
  <1>11. CASE UNCHANGED vars
    BY <1>11 DEF vars, TypeOK
  <1> QED BY <1>1, <1>2, <1>3, <1>4, <1>5, <1>6, <1>7, <1>8, <1>9, <1>10, <1>11
          DEF Next, HandleMessage

-----------------------------------------------------------------------------
(* The copies of a message                                                 *)

LEMMA InitQueueInv == Init => QueueInv
  <1> SUFFICES ASSUME Init PROVE QueueInv
    OBVIOUS
  <1>1. HoldingInv
    BY QRWorkerAssumption DEF Init, HoldingInv
  <1>2. CopyInv
    BY QRWorkerAssumption DEF Init, CopyInv, InFlight, Live
  <1> QED BY <1>1, <1>2, InitTypeOK DEF QueueInv

\* a step that moves no copy
LEMMA CopiesKept ==
  ASSUME CopyInv, UNCHANGED <<waiting, published>>, Live' = Live,
         \A w \in Workers, p \in Purchases : p \in InFlight(w)' <=> p \in InFlight(w)
  PROVE  CopyInv'
  BY DEF CopyInv

LEMMA PublishQueueInv ==
  ASSUME QueueInv, NEW p \in Purchases, Publish(p)
  PROVE  HoldingInv' /\ CopyInv'
  <1> USE DEF QueueInv, TypeOK
  <1>1. /\ waiting'[p] = waiting[p] + 1 /\ p \notin Live
        /\ \A q \in Purchases \ {p} : waiting'[q] = waiting[q] /\ (q \in Live' <=> q \in Live)
        /\ p \in Live'
        /\ \A w \in Workers : InFlight(w)' = InFlight(w)
    BY DEF Publish, Live, InFlight, process
  <1>2. waiting[p] = 0 /\ \A w \in Workers : p \notin InFlight(w)
    BY <1>1 DEF CopyInv
  <1>3. CopyInv'
    BY <1>1, <1>2 DEF CopyInv
  <1>4. HoldingInv'
    BY DEF Publish, HoldingInv, process
  <1> QED BY <1>3, <1>4

LEMMA PushQueueInv ==
  ASSUME QueueInv, NEW w \in Workers, NEW p \in Purchases, Push(w, p)
  PROVE  HoldingInv' /\ CopyInv'
  <1> USE DEF QueueInv, TypeOK
  <1>1. waiting[p] = 1 /\ \A v \in Workers : p \notin InFlight(v)
    BY DEF Push, CopyInv
  <1>2. /\ waiting'[p] = 0 /\ Live' = Live
        /\ \A q \in Purchases \ {p} : waiting'[q] = waiting[q]
        /\ InFlight(w)' = InFlight(w) \cup {p}
        /\ \A v \in Workers \ {w} : InFlight(v)' = InFlight(v)
    BY <1>1 DEF Push, Live, InFlight, process
  <1>3. CopyInv'
    BY <1>1, <1>2 DEF CopyInv
  <1>4. HoldingInv'
    <2>1. job[w] # p
      BY <1>1 DEF Push, InFlight
    <2> QED BY <2>1 DEF Push, HoldingInv, process
  <1> QED BY <1>3, <1>4

LEMMA TakeQueueInv ==
  ASSUME QueueInv, NEW w \in Workers, NEW p \in Purchases, Take(w, p)
  PROVE  HoldingInv' /\ CopyInv'
  <1> USE DEF QueueInv, TypeOK, Handling
  <1>1. up[w] /\ p \in buffer[w] /\ job[w] = NoPurchase
    BY DEF Take, HoldingInv
  <1>2. /\ UNCHANGED <<waiting, published>> /\ Live' = Live
        /\ \A v \in Workers, q \in Purchases : q \in InFlight(v)' <=> q \in InFlight(v)
    BY <1>1, QRWorkerAssumption DEF Take, Live, InFlight
  <1>3. CopyInv'
    BY <1>2, CopiesKept
  <1>4. HoldingInv'
    <2>1. p \in published
      BY <1>1 DEF CopyInv, InFlight, Live
    <2> QED BY <1>1, <2>1 DEF Take, HoldingInv
  <1> QED BY <1>3, <1>4

\* steps between the receipt of a message and its outcome, and the like
LEMMA QuietQueueInv ==
  ASSUME QueueInv, NEW w \in Workers,
         Send(w) \/ Hang(w) \/ Stop(w) \/ Start(w) \/ UNCHANGED vars
  PROVE  HoldingInv' /\ CopyInv'
  <1> USE DEF QueueInv, TypeOK, Handling, queue, process
  <1>1. UNCHANGED <<waiting, buffer, job, published, settled, lost>>
    BY DEF Send, Hang, Stop, Start, vars
  <1>2. /\ \A v \in Workers : up'[v] # up[v] => buffer[v] = {} /\ job[v] = NoPurchase
        /\ \A v \in Workers : up[v] => up'[v]
    BY DEF Send, Hang, Stop, Start, vars, HoldingInv
  <1>3. \A v \in Workers, q \in Purchases : q \in InFlight(v)' <=> q \in InFlight(v)
    BY <1>1, <1>2, QRWorkerAssumption DEF InFlight
  <1>4. CopyInv'
    BY <1>1, <1>3, CopiesKept DEF Live
  <1>5. HoldingInv'
    BY <1>1, <1>2 DEF HoldingInv
  <1> QED BY <1>4, <1>5

\* On an open channel the copy goes back to the queue; on a lost one it is there
\* already.
LEMMA SendFailsQueueInv ==
  ASSUME QueueInv, NEW w \in Workers, SendFails(w)
  PROVE  HoldingInv' /\ CopyInv'
  <1> USE DEF QueueInv, TypeOK
  <1>1. /\ pc[w] \in Handling
        /\ job' = [job EXCEPT ![w] = NoPurchase]
        /\ waiting' = Requeue(w)
        /\ UNCHANGED <<buffer, up, published, settled, lost>>
    BY DEF SendFails, SessionFails, Done, Handling
  <1>2. job[w] \in Purchases
    BY <1>1, JobInHand
  <1>3. HoldingInv'
    BY <1>1, QRWorkerAssumption DEF HoldingInv
  <1>4. CASE up[w]
    <2>1. /\ job[w] \in InFlight(w) /\ waiting[job[w]] = 0 /\ job[w] \in Live
          /\ \A v \in Workers \ {w} : job[w] \notin InFlight(v)
      BY <1>2, <1>4 DEF InFlight, CopyInv
    <2>2. /\ Live' = Live
          /\ waiting'[job[w]] = 1
          /\ \A q \in Purchases \ {job[w]} : waiting'[q] = waiting[q]
      BY <1>1, <1>2, <1>4, <2>1 DEF Requeue, Live
    <2>3. /\ \A v \in Workers \ {w} : InFlight(v)' = InFlight(v)
          /\ \A q \in Purchases : q \in InFlight(w)' <=> q \in InFlight(w) /\ q # job[w]
      BY <1>1, <1>2, <1>4, QRWorkerAssumption DEF InFlight, HoldingInv
    <2> QED BY <1>2, <1>3, <2>1, <2>2, <2>3 DEF CopyInv
  <1>5. CASE ~up[w]
    <2>1. waiting' = waiting /\ Live' = Live
      BY <1>1, <1>2, <1>5 DEF Requeue, Live
    <2>2. \A v \in Workers, q \in Purchases : q \in InFlight(v)' <=> q \in InFlight(v)
      BY <1>1, <1>5 DEF InFlight
    <2> QED BY <1>1, <1>3, <2>1, <2>2, CopiesKept
  <1> QED BY <1>4, <1>5

\* The copy of an acknowledged message is gone, and so is its claim to one.
LEMMA AckQueueInv ==
  ASSUME QueueInv, NEW w \in Workers, Ack(w)
  PROVE  HoldingInv' /\ CopyInv'
  <1> USE DEF QueueInv, TypeOK, queue
  <1>1. /\ pc[w] \in Handling
        /\ job' = [job EXCEPT ![w] = NoPurchase]
        /\ UNCHANGED <<waiting, buffer, up, published, lost>>
    BY DEF Ack, Done, Handling
  <1>2. job[w] \in Purchases
    BY <1>1, JobInHand
  <1>3. HoldingInv'
    BY <1>1, QRWorkerAssumption DEF HoldingInv
  <1>4. CASE up[w]
    <2>1. /\ job[w] \in InFlight(w) /\ waiting[job[w]] = 0
          /\ \A v \in Workers \ {w} : job[w] \notin InFlight(v)
      BY <1>2, <1>4 DEF InFlight, CopyInv
    <2>2. \A q \in Purchases : q \in Live' <=> q \in Live /\ q # job[w]
      BY <1>1, <1>4 DEF Ack, Live
    <2>3. /\ \A v \in Workers \ {w} : InFlight(v)' = InFlight(v)
          /\ \A q \in Purchases : q \in InFlight(w)' <=> q \in InFlight(w) /\ q # job[w]
      BY <1>1, <1>2, <1>4, QRWorkerAssumption DEF InFlight, HoldingInv
    <2> QED BY <1>1, <1>2, <1>3, <2>1, <2>2, <2>3 DEF CopyInv
  <1>5. CASE ~up[w]
    <2>1. Live' = Live
      BY <1>1, <1>5 DEF Ack, Live
    <2>2. \A v \in Workers, q \in Purchases : q \in InFlight(v)' <=> q \in InFlight(v)
      BY <1>1, <1>5 DEF InFlight
    <2> QED BY <1>1, <1>3, <2>1, <2>2, CopiesKept
  <1> QED BY <1>4, <1>5

\* A channel that closes gives every copy it held back to the queue.
LEMMA CloseQueueInv ==
  ASSUME QueueInv, NEW w \in Workers, CloseChannel(w),
         UNCHANGED <<published, settled, lost>>,
         job' \in {job, [job EXCEPT ![w] = NoPurchase]}
  PROVE  HoldingInv' /\ CopyInv'
  <1> USE DEF QueueInv, TypeOK
  <1>1. /\ buffer' = [buffer EXCEPT ![w] = {}]
        /\ up' = [up EXCEPT ![w] = FALSE]
        /\ \A p \in Purchases :
              waiting'[p] = IF p \in InFlight(w) THEN waiting[p] + 1 ELSE waiting[p]
    BY DEF CloseChannel, TakenBack
  <1>2. /\ InFlight(w)' = {}
        /\ \A v \in Workers \ {w} : InFlight(v)' = InFlight(v)
    BY <1>1 DEF InFlight
  <1>3. \A p \in Purchases :
           IF p \in InFlight(w) THEN waiting'[p] = 1 ELSE waiting'[p] = waiting[p]
    BY <1>1 DEF CopyInv
  <1>4. Live' = Live
    BY DEF Live
  <1>5. CopyInv'
    BY <1>2, <1>3, <1>4 DEF CopyInv
  <1>6. HoldingInv'
    BY <1>1, QRWorkerAssumption DEF HoldingInv
  <1> QED BY <1>5, <1>6

LEMMA BrokerRestartQueueInv ==
  ASSUME QueueInv, BrokerRestart
  PROVE  HoldingInv' /\ CopyInv'
  <1> USE DEF QueueInv, TypeOK
  <1>1. /\ Live' = {}
        /\ \A w \in Workers : InFlight(w)' = {}
        /\ \A p \in Purchases : waiting'[p] = 0
    BY DEF BrokerRestart, Live, InFlight
  <1>2. CopyInv'
    BY <1>1 DEF CopyInv
  <1>3. HoldingInv'
    BY DEF BrokerRestart, HoldingInv
  <1> QED BY <1>2, <1>3

LEMMA NextQueueInv == QueueInv /\ [Next]_vars => QueueInv'
  <1> SUFFICES ASSUME QueueInv, [Next]_vars PROVE QueueInv'
    OBVIOUS
  <1>1. TypeOK'
    BY NextTypeOK
  <1>2. HoldingInv' /\ CopyInv'
    <2>1. ASSUME NEW p \in Purchases, Publish(p) PROVE HoldingInv' /\ CopyInv'
      BY <2>1, PublishQueueInv
    <2>2. ASSUME NEW w \in Workers, NEW p \in Purchases, Push(w, p) \/ Take(w, p)
          PROVE  HoldingInv' /\ CopyInv'
      BY <2>2, PushQueueInv, TakeQueueInv
    <2>3. ASSUME NEW w \in Workers, HandleMessage(w) \/ Hang(w) \/ Stop(w) \/ Start(w)
          PROVE  HoldingInv' /\ CopyInv'
      BY <2>3, QuietQueueInv, SendFailsQueueInv, AckQueueInv DEF HandleMessage
    <2>4. ASSUME NEW w \in Workers, Disconnect(w) \/ Return(w) \/ Crash(w)
          PROVE  HoldingInv' /\ CopyInv'
      <3>1. /\ CloseChannel(w)
            /\ UNCHANGED <<published, settled, lost>>
            /\ job' \in {job, [job EXCEPT ![w] = NoPurchase]}
        BY <2>4 DEF Disconnect, Return, Crash
      <3> QED BY <3>1, CloseQueueInv
    <2>5. CASE BrokerRestart
      BY <2>5, BrokerRestartQueueInv
    <2>6. CASE UNCHANGED vars
      <3>1. /\ UNCHANGED <<waiting, buffer, job, up, published, settled, lost>>
        BY <2>6 DEF vars, queue, process
      <3> QED BY <3>1 DEF QueueInv, HoldingInv, CopyInv, InFlight, Live
    <2> QED BY <2>1, <2>2, <2>3, <2>4, <2>5, <2>6 DEF Next
  <1> QED BY <1>1, <1>2 DEF QueueInv

THEOREM QueueInvariance == Spec => []QueueInv
  BY InitQueueInv, NextQueueInv, PTL DEF Spec

\* Through redeliveries, lost channels and crashes the broker and the workers
\* together keep one copy of a message until it is settled (qr_worker.go:131-139).
THEOREM CopiesAreOne == Spec => []OneLiveCopy
  <1>1. ASSUME QueueInv PROVE OneLiveCopy
    <2> SUFFICES ASSUME NEW p \in Purchases
                 PROVE  waiting[p] + Cardinality(Holders(p)) = IF p \in Live THEN 1 ELSE 0
      BY DEF OneLiveCopy, Live
    <2>1. waiting[p] \in Nat /\ waiting[p] <= 1
      BY <1>1 DEF QueueInv, TypeOK, CopyInv
    <2>2. CASE Holders(p) = {}
      <3>1. Cardinality(Holders(p)) = 0
        BY <2>2, FS_EmptySet
      <3>2. p \in Live <=> waiting[p] = 1
        BY <1>1, <2>2 DEF QueueInv, CopyInv, Holders
      <3> QED BY <2>1, <3>1, <3>2
    <2>3. ASSUME NEW w \in Holders(p)
          PROVE  waiting[p] + Cardinality(Holders(p)) = IF p \in Live THEN 1 ELSE 0
      <3>1. Holders(p) = {w}
        BY <1>1, <2>3 DEF QueueInv, CopyInv, Holders
      <3>2. Cardinality(Holders(p)) = 1
        BY <3>1, FS_Singleton
      <3>3. p \in Live /\ waiting[p] = 0
        BY <1>1, <2>3 DEF QueueInv, CopyInv, Holders
      <3> QED BY <3>2, <3>3
    <2> QED BY <2>2, <2>3
  <1> QED BY <1>1, QueueInvariance, PTL

\* The variables keep their types: a worker has a purchase in hand exactly while
\* it handles one.
THEOREM WorkerTypeCorrect == Spec => []TypeOK
  BY QueueInvariance, PTL DEF QueueInv

-----------------------------------------------------------------------------
(* The mails                                                               *)

LEMMA InitMailInv == Init => MailInv
  BY QRWorkerAssumption DEF Init, MailInv, MailedInv, UndisturbedInv, SettledWasMailed,
     SecondMailOnlyAfterFault

\* A purchase in hand that nothing disturbed is in nobody else's hands, and not
\* settled.
LEMMA UndisturbedAlone ==
  ASSUME QueueInv, UndisturbedInv, NEW w \in Workers, NEW p \in Purchases \ disturbed,
         job[w] = p
  PROVE  /\ up[w] /\ p \notin settled
         /\ \A v \in Workers : job[v] = p => v = w
  <1>1. \A v \in Workers : job[v] = p => up[v] /\ p \in InFlight(v)
    BY DEF UndisturbedInv, InFlight
  <1> QED BY <1>1 DEF QueueInv, CopyInv, Live

\* The first mail of an undisturbed purchase is the only one so far.
LEMMA FirstMail ==
  ASSUME QueueInv, MailInv, NEW w \in Workers, pc[w] = "send",
         job[w] \notin disturbed
  PROVE  mails[job[w]] = 0
  <1>1. job[w] \in Purchases
    BY JobInHand DEF Handling
  <1>2. mails[job[w]] \in Nat
    BY <1>1, QRWorkerAssumption DEF QueueInv, TypeOK
  <1>3. ~(mails[job[w]] > 0)
    BY <1>1, UndisturbedAlone DEF MailInv, UndisturbedInv
  <1> QED BY <1>2, <1>3

LEMMA SendMailInv ==
  ASSUME QueueInv, MailInv, NEW w \in Workers, Send(w)
  PROVE  MailInv'
  <1>1. /\ pc[w] = "send" /\ pc' = [pc EXCEPT ![w] = "ack"] /\ pc = [v \in Workers |-> pc[v]]
        /\ mails' = MailOut(job[w])
        /\ UNCHANGED <<job, up, settled, disturbed>>
        /\ job[w] \in Purchases
    BY JobInHand DEF Send, Handling, QueueInv, TypeOK
  <1>2. /\ mails'[job[w]] > 0
        /\ \A q \in Purchases \ {job[w]} : mails'[q] = mails[q]
        /\ mails[job[w]] = 0 => mails'[job[w]] = 1
    BY <1>1, MailOutType DEF QueueInv
  <1>3. MailedInv'
    <2> SUFFICES ASSUME NEW v \in Workers, pc'[v] = "ack" PROVE mails'[job'[v]] > 0
      BY DEF MailedInv
    <2>1. CASE v = w \/ job[v] = job[w]
      BY <1>1, <1>2, <2>1
    <2>2. CASE v # w /\ job[v] # job[w]
      <3>1. pc[v] = "ack" /\ job[v] \in Purchases
        BY <1>1, <2>2, JobInHand DEF Handling
      <3> QED BY <1>1, <1>2, <2>2, <3>1 DEF MailInv, MailedInv
    <2> QED BY <2>1, <2>2
  <1>4. UndisturbedInv'
    <2>1. \A p \in Purchases \ disturbed : \A v \in Workers :
             job[v] = p /\ pc[v] \in {"ack", "hung"} => v # w
      BY <1>1
    <2> QED BY <1>1, <1>2, <2>1 DEF MailInv, UndisturbedInv
  <1>5. SettledWasMailed'
    <2>1. settled \subseteq Purchases
      BY DEF QueueInv, TypeOK
    <2> QED BY <1>1, <1>2, <2>1 DEF MailInv, SettledWasMailed
  <1>6. SecondMailOnlyAfterFault'
    <2>1. job[w] \notin disturbed => mails'[job[w]] = 1
      BY <1>1, <1>2, FirstMail
    <2> QED BY <1>1, <1>2, <2>1 DEF MailInv, SecondMailOnlyAfterFault
  <1> QED BY <1>3, <1>4, <1>5, <1>6 DEF MailInv

\* A session that fails may leave a mail, but then the purchase is disturbed.
LEMMA SendFailsMailInv ==
  ASSUME QueueInv, MailInv, NEW w \in Workers, SendFails(w)
  PROVE  MailInv'
  <1>1. /\ pc[w] \in {"send", "hung"} /\ pc' = [pc EXCEPT ![w] = "idle"]
        /\ job' = [job EXCEPT ![w] = NoPurchase]
        /\ mails' \in {mails, MailOut(job[w])}
        /\ disturbed' = disturbed \cup {job[w]}
        /\ UNCHANGED <<up, settled>>
    BY DEF SendFails, SessionFails, Done, MaybeMailed
  <1>2. /\ job \in [Workers -> Purchases \cup {NoPurchase}] /\ settled \subseteq Purchases
        /\ pc = [v \in Workers |-> pc[v]]
        /\ job[w] \in Purchases
    BY <1>1, JobInHand DEF QueueInv, TypeOK, Handling
  <1>3. /\ \A q \in Purchases \ {job[w]} : mails'[q] = mails[q]
        /\ mails[job[w]] > 0 => mails'[job[w]] > 0
    <2>1. MailOut(job[w])[job[w]] > 0 /\ \A q \in Purchases \ {job[w]} : MailOut(job[w])[q] = mails[q]
      BY <1>2, MailOutType DEF QueueInv
    <2> QED BY <1>1, <2>1
  <1>4. MailedInv'
    <2> SUFFICES ASSUME NEW v \in Workers, pc'[v] = "ack" PROVE mails'[job'[v]] > 0
      BY DEF MailedInv
    <2>1. v # w /\ pc[v] = "ack" /\ job'[v] = job[v]
      BY <1>1, <1>2
    <2>2. job[v] \in Purchases /\ mails[job[v]] > 0
      BY <2>1, JobInHand DEF Handling, MailInv, MailedInv
    <2> QED BY <1>3, <2>1, <2>2
  <1>5. UndisturbedInv'
    <2> SUFFICES ASSUME NEW p \in Purchases \ disturbed'
                 PROVE  /\ \A v \in Workers : job'[v] = p => up'[v]
                        /\ mails'[p] > 0 =>
                              \/ p \in settled'
                              \/ \E v \in Workers : job'[v] = p /\ pc'[v] \in {"ack", "hung"}
      BY DEF UndisturbedInv
    <2>1. p \in Purchases \ disturbed /\ p # job[w] /\ mails'[p] = mails[p]
      BY <1>1, <1>3
    <2>2. \A v \in Workers : job'[v] = p <=> job[v] = p
      BY <1>1, <1>2, <2>1, QRWorkerAssumption
    <2>3. \A v \in Workers : job[v] = p => pc'[v] = pc[v]
      BY <1>1, <1>2, <2>1
    <2> QED BY <1>1, <2>1, <2>2, <2>3 DEF MailInv, UndisturbedInv
  <1>6. SettledWasMailed'
    BY <1>1, <1>2, <1>3 DEF MailInv, SettledWasMailed
  <1>7. SecondMailOnlyAfterFault'
    BY <1>1, <1>3 DEF MailInv, SecondMailOnlyAfterFault
  <1> QED BY <1>4, <1>5, <1>6, <1>7 DEF MailInv

LEMMA HangMailInv ==
  ASSUME QueueInv, MailInv, NEW w \in Workers, Hang(w)
  PROVE  MailInv'
  <1>1. /\ pc[w] = "send" /\ pc' = [pc EXCEPT ![w] = "hung"] /\ pc = [v \in Workers |-> pc[v]]
        /\ mails' \in {mails, MailOut(job[w])}
        /\ UNCHANGED <<job, up, settled, disturbed>>
        /\ job[w] \in Purchases /\ settled \subseteq Purchases
    BY JobInHand DEF Hang, MaybeMailed, Handling, QueueInv, TypeOK
  <1>2. /\ \A q \in Purchases \ {job[w]} : mails'[q] = mails[q]
        /\ mails[job[w]] > 0 => mails'[job[w]] > 0
        /\ mails[job[w]] = 0 => mails'[job[w]] \in {0, 1}
    <2>1. /\ MailOut(job[w])[job[w]] > 0
          /\ \A q \in Purchases \ {job[w]} : MailOut(job[w])[q] = mails[q]
          /\ mails[job[w]] = 0 => MailOut(job[w])[job[w]] = 1
      BY <1>1, MailOutType DEF QueueInv
    <2> QED BY <1>1, <2>1
  <1>3. MailedInv'
    <2> SUFFICES ASSUME NEW v \in Workers, pc'[v] = "ack" PROVE mails'[job'[v]] > 0
      BY DEF MailedInv
    <2>1. pc[v] = "ack" /\ job'[v] = job[v]
      BY <1>1
    <2>2. job[v] \in Purchases /\ mails[job[v]] > 0
      BY <2>1, JobInHand DEF Handling, MailInv, MailedInv
    <2> QED BY <1>2, <2>1, <2>2
  <1>4. UndisturbedInv'
    BY <1>1, <1>2 DEF MailInv, UndisturbedInv
  <1>5. SettledWasMailed'
    BY <1>1, <1>2 DEF MailInv, SettledWasMailed
  <1>6. SecondMailOnlyAfterFault'
    <2>1. job[w] \notin disturbed => mails'[job[w]] \in {0, 1}
      BY <1>1, <1>2, FirstMail
    <2> QED BY <1>1, <1>2, <2>1 DEF MailInv, SecondMailOnlyAfterFault
  <1> QED BY <1>3, <1>4, <1>5, <1>6 DEF MailInv

LEMMA AckMailInv ==
  ASSUME QueueInv, MailInv, NEW w \in Workers, Ack(w)
  PROVE  MailInv'
  <1>1. /\ pc[w] = "ack" /\ pc' = [pc EXCEPT ![w] = "idle"] /\ pc = [v \in Workers |-> pc[v]]
        /\ job' = [job EXCEPT ![w] = NoPurchase]
        /\ job \in [Workers -> Purchases \cup {NoPurchase}]
        /\ settled' = IF up[w] THEN settled \cup {job[w]} ELSE settled
        /\ UNCHANGED <<up, mails, disturbed>>
    BY DEF Ack, Done, QueueInv, TypeOK
  <1>2. MailedInv'
    BY <1>1 DEF MailInv, MailedInv
  <1>3. SettledWasMailed'
    BY <1>1 DEF MailInv, MailedInv, SettledWasMailed
  <1>4. SecondMailOnlyAfterFault'
    BY <1>1 DEF MailInv, SecondMailOnlyAfterFault
  <1>5. UndisturbedInv'
    <2> SUFFICES ASSUME NEW p \in Purchases \ disturbed
                 PROVE  /\ \A v \in Workers : job'[v] = p => up'[v]
                        /\ mails[p] > 0 =>
                              \/ p \in settled'
                              \/ \E v \in Workers : job'[v] = p /\ pc'[v] \in {"ack", "hung"}
      BY <1>1 DEF UndisturbedInv
    <2>1. CASE p = job[w]
      <3>1. up[w] /\ p \in settled'
        BY <1>1, <2>1, UndisturbedAlone DEF MailInv
      <3>2. \A v \in Workers : job'[v] # p
        BY <1>1, <2>1, UndisturbedAlone, QRWorkerAssumption DEF MailInv
      <3> QED BY <3>1, <3>2
    <2>2. CASE p # job[w]
      <3>1. \A v \in Workers : job'[v] = p <=> job[v] = p
        BY <1>1, <2>2, QRWorkerAssumption
      <3>2. \A v \in Workers : job[v] = p => pc'[v] = pc[v]
        BY <1>1, <2>2
      <3>3. p \in settled <=> p \in settled'
        BY <1>1, <2>2
      <3> QED BY <1>1, <3>1, <3>2, <3>3 DEF MailInv, UndisturbedInv
    <2> QED BY <2>1, <2>2
  <1> QED BY <1>2, <1>3, <1>4, <1>5 DEF MailInv

\* what is handed to a worker came over an open channel
LEMMA TakeMailInv ==
  ASSUME QueueInv, MailInv, NEW w \in Workers, NEW p \in Purchases, Take(w, p)
  PROVE  MailInv'
  <1>1. /\ pc[w] = "idle" /\ pc' = [pc EXCEPT ![w] = "send"] /\ pc = [v \in Workers |-> pc[v]]
        /\ job' = [job EXCEPT ![w] = p]
        /\ job \in [Workers -> Purchases \cup {NoPurchase}]
        /\ job[w] = NoPurchase
        /\ up[w]
        /\ UNCHANGED <<up, mails, settled, disturbed>>
    BY DEF Take, QueueInv, TypeOK, HoldingInv, Handling
  <1>2. \A v \in Workers \ {w} : job'[v] = job[v] /\ pc'[v] = pc[v]
    BY <1>1
  <1>3. MailedInv'
    BY <1>1, <1>2 DEF MailInv, MailedInv
  <1>4. UndisturbedInv'
    <2> SUFFICES ASSUME NEW q \in Purchases \ disturbed
                 PROVE  /\ \A v \in Workers : job'[v] = q => up[v]
                        /\ mails[q] > 0 =>
                              \/ q \in settled
                              \/ \E v \in Workers : job'[v] = q /\ pc'[v] \in {"ack", "hung"}
      BY <1>1 DEF UndisturbedInv
    <2>1. /\ \A v \in Workers : job[v] = q => up[v]
          /\ mails[q] > 0 =>
                \/ q \in settled
                \/ \E v \in Workers : job[v] = q /\ pc[v] \in {"ack", "hung"}
      BY DEF MailInv, UndisturbedInv
    <2>2. \A v \in Workers : job[v] = q => v # w
      BY <1>1, QRWorkerAssumption
    <2> QED BY <1>1, <1>2, <2>1, <2>2
  <1> QED BY <1>1, <1>3, <1>4 DEF MailInv, SettledWasMailed, SecondMailOnlyAfterFault

\* A channel that closes cuts the handling of what its worker has in hand.
LEMMA CloseMailInv ==
  ASSUME QueueInv, MailInv, NEW w \in Workers, Disconnect(w) \/ Return(w) \/ Crash(w)
  PROVE  MailInv'
  <1>1. /\ UNCHANGED <<mails, settled>>
        /\ job \in [Workers -> Purchases \cup {NoPurchase}]
        /\ pc = [v \in Workers |-> pc[v]] /\ up = [v \in Workers |-> up[v]]
        /\ up' = [up EXCEPT ![w] = FALSE]
        /\ job' \in {job, [job EXCEPT ![w] = NoPurchase]}
        /\ pc' \in {pc, [pc EXCEPT ![w] = "exited"]}
        /\ job' # job => pc' # pc
    BY DEF Disconnect, Return, Crash, CloseChannel, QueueInv, TypeOK
  <1>2. /\ disturbed \subseteq disturbed'
        /\ \A p \in Purchases \ disturbed' : job[w] # p
    <2>1. CASE Return(w)
      BY <2>1, QRWorkerAssumption DEF Return, QueueInv, TypeOK, Handling
    <2>2. CASE Disconnect(w) \/ Crash(w)
      BY <2>2, QRWorkerAssumption DEF Disconnect, Crash, Held
    <2> QED BY <2>1, <2>2
  <1>3. \A v \in Workers \ {w} : job'[v] = job[v] /\ pc'[v] = pc[v] /\ up'[v] = up[v]
    BY <1>1
  <1>4. MailedInv'
    <2> SUFFICES ASSUME NEW v \in Workers, pc'[v] = "ack" PROVE mails[job'[v]] > 0
      BY <1>1 DEF MailedInv
    <2>1. pc[v] = "ack" /\ job'[v] = job[v]
      <3>1. CASE v # w
        BY <1>3, <3>1
      <3>2. CASE v = w
        <4>1. pc' = pc
          BY <1>1, <3>2
        <4> QED BY <1>1, <4>1
      <3> QED BY <3>1, <3>2
    <2> QED BY <2>1 DEF MailInv, MailedInv
  <1>5. UndisturbedInv'
    <2> SUFFICES ASSUME NEW q \in Purchases \ disturbed'
                 PROVE  /\ \A v \in Workers : job'[v] = q => up'[v]
                        /\ mails[q] > 0 =>
                              \/ q \in settled
                              \/ \E v \in Workers : job'[v] = q /\ pc'[v] \in {"ack", "hung"}
      BY <1>1 DEF UndisturbedInv
    <2>1. /\ \A v \in Workers : job[v] = q => up[v]
          /\ mails[q] > 0 =>
                \/ q \in settled
                \/ \E v \in Workers : job[v] = q /\ pc[v] \in {"ack", "hung"}
      BY <1>2 DEF MailInv, UndisturbedInv
    <2>2. job[w] # q /\ job'[w] # q
      BY <1>1, <1>2, QRWorkerAssumption
    <2> QED BY <1>3, <2>1, <2>2
  <1>6. SettledWasMailed'
    BY <1>1 DEF MailInv, SettledWasMailed
  <1>7. SecondMailOnlyAfterFault'
    BY <1>1, <1>2 DEF MailInv, SecondMailOnlyAfterFault
  <1> QED BY <1>4, <1>5, <1>6, <1>7 DEF MailInv

LEMMA StartMailInv ==
  ASSUME QueueInv, MailInv, NEW w \in Workers, Start(w)
  PROVE  MailInv'
  <1>1. /\ pc[w] = "exited" /\ pc' = [pc EXCEPT ![w] = "idle"] /\ pc = [v \in Workers |-> pc[v]]
        /\ up' = [up EXCEPT ![w] = TRUE] /\ up = [v \in Workers |-> up[v]]
        /\ UNCHANGED <<job, mails, settled, disturbed>>
    BY DEF Start, QueueInv, TypeOK
  <1>2. MailedInv'
    BY <1>1 DEF MailInv, MailedInv
  <1>3. UndisturbedInv'
    BY <1>1 DEF MailInv, UndisturbedInv
  <1> QED BY <1>1, <1>2, <1>3 DEF MailInv, SettledWasMailed, SecondMailOnlyAfterFault

LEMMA BrokerRestartMailInv ==
  ASSUME QueueInv, MailInv, BrokerRestart
  PROVE  MailInv'
  <1>1. /\ UNCHANGED <<pc, job, mails, settled>>
        /\ disturbed' = disturbed \cup UNION {Held(v) : v \in Workers}
    BY DEF BrokerRestart
  <1>2. \A q \in Purchases \ disturbed' : \A v \in Workers : job[v] # q
    BY <1>1, QRWorkerAssumption DEF Held
  <1>3. UndisturbedInv'
    <2>1. \A q \in Purchases \ disturbed' : mails[q] > 0 => q \in settled
      BY <1>1, <1>2 DEF MailInv, UndisturbedInv
    <2> QED BY <1>1, <1>2, <2>1 DEF UndisturbedInv
  <1> QED BY <1>1, <1>3 DEF MailInv, MailedInv, SettledWasMailed, SecondMailOnlyAfterFault

LEMMA NextMailInv == QueueInv /\ MailInv /\ [Next]_vars => MailInv'
  <1> SUFFICES ASSUME QueueInv, MailInv, [Next]_vars PROVE MailInv'
    OBVIOUS
  <1>1. ASSUME UNCHANGED <<process, mails, settled, disturbed>> PROVE MailInv'
    BY <1>1 DEF process, MailInv, MailedInv, UndisturbedInv, SettledWasMailed,
       SecondMailOnlyAfterFault
  <1>2. ASSUME NEW p \in Purchases, Publish(p) PROVE MailInv'
    BY <1>1, <1>2 DEF Publish
  <1>3. ASSUME NEW w \in Workers, NEW p \in Purchases, Push(w, p) \/ Take(w, p)
        PROVE  MailInv'
    BY <1>1, <1>3, TakeMailInv DEF Push
  <1>4. ASSUME NEW w \in Workers, HandleMessage(w) \/ Hang(w) PROVE MailInv'
    BY <1>4, SendMailInv, SendFailsMailInv, AckMailInv, HangMailInv DEF HandleMessage
  <1>5. ASSUME NEW w \in Workers, Disconnect(w) \/ Return(w) \/ Crash(w) PROVE MailInv'
    BY <1>5, CloseMailInv
  <1>6. ASSUME NEW w \in Workers, Stop(w) PROVE MailInv'
    BY <1>6 DEF Stop, MailInv, MailedInv, UndisturbedInv, SettledWasMailed,
       SecondMailOnlyAfterFault
  <1>7. ASSUME NEW w \in Workers, Start(w) PROVE MailInv'
    BY <1>7, StartMailInv
  <1>8. CASE BrokerRestart
    BY <1>8, BrokerRestartMailInv
  <1>9. CASE UNCHANGED vars
    BY <1>1, <1>9 DEF vars
  <1> QED BY <1>2, <1>3, <1>4, <1>5, <1>6, <1>7, <1>8, <1>9 DEF Next

THEOREM MailInvariance == Spec => [](QueueInv /\ MailInv)
  <1>1. Init => QueueInv /\ MailInv
    BY InitQueueInv, InitMailInv
  <1>2. (QueueInv /\ MailInv) /\ [Next]_vars => (QueueInv /\ MailInv)'
    BY NextQueueInv, NextMailInv
  <1> QED BY <1>1, <1>2, PTL DEF Spec

\* Acknowledging comes after mailing on every path of HandleMessage, so no
\* message leaves the broker for good before its buyer was sent a mail
\* (qr_worker.go:131-139).
THEOREM SettledWereMailed == Spec => []SettledWasMailed
  BY MailInvariance, PTL DEF MailInv

\* A buyer with two mails owes them to a session that failed late, a lost
\* channel, a killed worker or a restarted broker: the only ways in which the
\* same message is handled twice (qr_worker.go:134, 139).
THEOREM SecondMailsHadFaults == Spec => []SecondMailOnlyAfterFault
  BY MailInvariance, PTL DEF MailInv

-----------------------------------------------------------------------------
(* The workers implement MailDelivery                                      *)

LEMMA OpenIsLive == Delivery!Open = Live
  BY DEF Delivery!Open, Live

LEMMA OneMoreMailIsMailOut == \A p : Delivery!OneMoreMail(p) = MailOut(p)
  BY DEF Delivery!OneMoreMail, MailOut

\* What a worker has in hand is open, or its channel was lost meanwhile.
LEMMA HeldIsOpen ==
  ASSUME QueueInv, MailInv, NEW w \in Workers, job[w] # NoPurchase
  PROVE  /\ job[w] \in Purchases
         /\ up[w] => job[w] \in Live
         /\ ~up[w] => job[w] \in disturbed
  <1>1. job[w] \in Purchases
    BY DEF QueueInv, TypeOK
  <1>2. up[w] => job[w] \in InFlight(w)
    BY DEF InFlight
  <1> QED BY <1>1, <1>2, InFlightPublished DEF MailInv, UndisturbedInv

\* A worker that starts a session may mail: the buyer has none yet, or the
\* handling was disturbed before.
LEMMA SendersMayMail ==
  ASSUME QueueInv, MailInv, NEW w \in Workers, pc[w] = "send"
  PROVE  Delivery!Mailable(job[w])
  BY JobInHand, FirstMail DEF Handling, Delivery!Mailable

\* cutting the handling of what w holds
LEMMA CutStep ==
  ASSUME QueueInv, MailInv, NEW w \in Workers,
         disturbed' = disturbed \cup Held(w),
         UNCHANGED <<mails, published, settled, lost>>
  PROVE  [Delivery!DeliveryNext]_(Delivery!mailVars)
  <1>1. CASE Held(w) \subseteq disturbed
    BY <1>1 DEF Delivery!mailVars
  <1>2. CASE ~(Held(w) \subseteq disturbed)
    <2>1. job[w] # NoPurchase /\ Held(w) = {job[w]} /\ job[w] \notin disturbed
      BY <1>2 DEF Held
    <2>2. job[w] \in Purchases /\ job[w] \in Delivery!Open
      BY <2>1, HeldIsOpen, OpenIsLive DEF QueueInv, TypeOK
    <2>3. Delivery!Cut(job[w])
      BY <2>1, <2>2 DEF Delivery!Cut
    <2> QED BY <2>2, <2>3 DEF Delivery!DeliveryNext
  <1> QED BY <1>1, <1>2

LEMMA SendFailsStep ==
  ASSUME QueueInv, MailInv, NEW w \in Workers, SendFails(w)
  PROVE  [Delivery!DeliveryNext]_(Delivery!mailVars)
  <1>1. pc[w] \in {"send", "hung"}
    BY DEF SendFails, SessionFails
  <1>2. job[w] # NoPurchase
    BY <1>1 DEF QueueInv, TypeOK, Handling
  <1>3. job[w] \in Purchases /\ job[w] \in Delivery!Open \cup disturbed
    BY <1>2, HeldIsOpen, OpenIsLive DEF QueueInv, TypeOK
  <1>4. mails' = mails \/ (Delivery!Mailable(job[w]) /\ mails' = Delivery!OneMoreMail(job[w]))
    BY SendersMayMail, OneMoreMailIsMailOut DEF SendFails, SessionFails, MaybeMailed
  <1>5. Delivery!Fail(job[w])
    BY <1>3, <1>4 DEF SendFails, Delivery!Fail
  <1> QED BY <1>3, <1>5 DEF Delivery!DeliveryNext

LEMMA MailStep ==
  ASSUME QueueInv, MailInv, NEW w \in Workers, Send(w) \/ Hang(w)
  PROVE  [Delivery!DeliveryNext]_(Delivery!mailVars)
  <1>1. /\ pc[w] = "send"
        /\ mails' = mails \/ mails' = Delivery!OneMoreMail(job[w])
        /\ UNCHANGED <<published, settled, disturbed, lost>>
    BY OneMoreMailIsMailOut DEF Send, Hang, MaybeMailed
  <1>2. job[w] \in Purchases
    BY <1>1, JobInHand DEF Handling
  <1>3. CASE mails' = mails
    BY <1>1, <1>3 DEF Delivery!mailVars
  <1>4. CASE mails' = Delivery!OneMoreMail(job[w])
    <2>1. Delivery!Mail(job[w])
      BY <1>1, <1>4, SendersMayMail DEF Delivery!Mail
    <2> QED BY <1>2, <2>1 DEF Delivery!DeliveryNext
  <1> QED BY <1>1, <1>3, <1>4

LEMMA AckStep ==
  ASSUME QueueInv, MailInv, NEW w \in Workers, Ack(w)
  PROVE  [Delivery!DeliveryNext]_(Delivery!mailVars)
  <1>1. /\ pc[w] = "ack"
        /\ settled' = IF up[w] THEN settled \cup {job[w]} ELSE settled
        /\ UNCHANGED <<mails, published, disturbed, lost>>
    BY DEF Ack
  <1>2. CASE ~up[w]
    BY <1>1, <1>2 DEF Delivery!mailVars
  <1>3. CASE up[w]
    <2>1. job[w] # NoPurchase
      BY <1>1 DEF QueueInv, TypeOK, Handling
    <2>2. job[w] \in Purchases /\ job[w] \in Delivery!Open
      BY <1>3, <2>1, HeldIsOpen, OpenIsLive
    <2>3. mails[job[w]] > 0
      BY <1>1 DEF MailInv, MailedInv
    <2>4. Delivery!Settle(job[w])
      BY <1>1, <1>3, <2>2, <2>3 DEF Delivery!Settle
    <2> QED BY <2>2, <2>4 DEF Delivery!DeliveryNext
  <1> QED BY <1>2, <1>3

LEMMA BrokerRestartStep ==
  ASSUME QueueInv, MailInv, BrokerRestart
  PROVE  [Delivery!DeliveryNext]_(Delivery!mailVars)
  <1> DEFINE S == (UNION {Held(w) : w \in Workers}) \ disturbed
  <1>1. S \subseteq Delivery!Open
    <2> SUFFICES ASSUME NEW w \in Workers, NEW p \in Held(w) \ disturbed
                 PROVE  p \in Delivery!Open
      OBVIOUS
    <2>1. job[w] # NoPurchase /\ p = job[w]
      BY DEF Held
    <2> QED BY <2>1, HeldIsOpen, OpenIsLive DEF QueueInv, TypeOK
  <1>2. disturbed' = disturbed \cup S
    BY DEF BrokerRestart
  <1>3. lost' = lost \cup Delivery!Open
    BY DEF BrokerRestart, Delivery!Open
  <1>4. Delivery!LoseAll
    BY <1>1, <1>2, <1>3 DEF BrokerRestart, Delivery!LoseAll
  <1> QED BY <1>4 DEF Delivery!DeliveryNext

LEMMA NextDelivers ==
  QueueInv /\ MailInv /\ [Next]_vars => [Delivery!DeliveryNext]_(Delivery!mailVars)
  <1> SUFFICES ASSUME QueueInv, MailInv, [Next]_vars
               PROVE  [Delivery!DeliveryNext]_(Delivery!mailVars)
    OBVIOUS
  <1>1. ASSUME UNCHANGED <<mails, published, settled, disturbed, lost>>
        PROVE  [Delivery!DeliveryNext]_(Delivery!mailVars)
    BY <1>1 DEF Delivery!mailVars
  <1>2. ASSUME NEW p \in Purchases, Publish(p)
        PROVE  [Delivery!DeliveryNext]_(Delivery!mailVars)
    <2>1. Delivery!Request(p)
      BY <1>2 DEF Publish, Delivery!Request
    <2> QED BY <2>1 DEF Delivery!DeliveryNext
  <1>3. ASSUME NEW w \in Workers, NEW p \in Purchases, Push(w, p) \/ Take(w, p)
        PROVE  [Delivery!DeliveryNext]_(Delivery!mailVars)
    BY <1>1, <1>3 DEF Push, Take
  <1>4. ASSUME NEW w \in Workers, HandleMessage(w) \/ Hang(w)
        PROVE  [Delivery!DeliveryNext]_(Delivery!mailVars)
    BY <1>4, MailStep, SendFailsStep, AckStep DEF HandleMessage
  <1>5. ASSUME NEW w \in Workers, Disconnect(w) \/ Crash(w)
        PROVE  [Delivery!DeliveryNext]_(Delivery!mailVars)
    BY <1>5, CutStep DEF Disconnect, Crash
  <1>6. ASSUME NEW w \in Workers, Stop(w) \/ Return(w) \/ Start(w)
        PROVE  [Delivery!DeliveryNext]_(Delivery!mailVars)
    BY <1>1, <1>6 DEF Stop, Return, Start
  <1>7. CASE BrokerRestart
    BY <1>7, BrokerRestartStep
  <1>8. CASE UNCHANGED vars
    BY <1>1, <1>8 DEF vars
  <1> QED BY <1>2, <1>3, <1>4, <1>5, <1>6, <1>7, <1>8 DEF Next

\* For any number of workers and purchases and any faults, the workers keep what
\* MailDelivery promises a buyer (qr_worker.go:131-139).
THEOREM WorkersImplementMailDelivery == Spec => ImplementsMailDelivery
  <1>1. Init => Delivery!DeliveryInit
    BY DEF Init, Delivery!DeliveryInit
  <1> QED BY <1>1, NextDelivers, MailInvariance, PTL
          DEF Spec, ImplementsMailDelivery, Delivery!DeliverySpec

-----------------------------------------------------------------------------
(* What MailDelivery means for a buyer                                     *)

DeliveryInv ==
    /\ mails \in [Purchases -> 0 .. MaxMails]
    /\ \A p \in Purchases : mails[p] > 1 => p \in disturbed
    /\ published \subseteq Purchases
    /\ settled \subseteq published
    /\ disturbed \subseteq published
    /\ \A p \in settled : mails[p] > 0

\* a purchase settled without a disturbance has one mail, and keeps to that
KeepsItsOneMail ==
    \A p \in settled \ disturbed :
        /\ p \in settled' \ disturbed'
        /\ mails[p] = 1 /\ mails'[p] = 1

LEMMA OneMoreMailType ==
  ASSUME DeliveryInv, NEW p \in Purchases
  PROVE  /\ Delivery!OneMoreMail(p) \in [Purchases -> 0 .. MaxMails]
         /\ Delivery!OneMoreMail(p)[p] > 0
         /\ mails[p] = 0 => Delivery!OneMoreMail(p)[p] = 1
         /\ \A q \in Purchases \ {p} : Delivery!OneMoreMail(p)[q] = mails[q]
  <1>1. mails \in [Purchases -> 0 .. MaxMails] /\ MaxMails \in Nat \ {0}
    BY QRWorkerAssumption DEF DeliveryInv
  <1> QED BY <1>1 DEF Delivery!OneMoreMail

LEMMA DeliveryStepInv ==
  ASSUME DeliveryInv, [Delivery!DeliveryNext]_(Delivery!mailVars)
  PROVE  DeliveryInv' /\ KeepsItsOneMail
  <1> USE DEF DeliveryInv, KeepsItsOneMail
  <1>0. MaxMails \in Nat \ {0}
    BY QRWorkerAssumption
  <1>1. \A p \in settled \ disturbed : mails[p] = 1
    BY <1>0
  <1>2. ASSUME NEW p \in Purchases, Delivery!Request(p)
        PROVE  DeliveryInv' /\ KeepsItsOneMail
    BY <1>1, <1>2 DEF Delivery!Request
  <1>3. ASSUME NEW p \in Purchases, Delivery!Mail(p)
        PROVE  DeliveryInv' /\ KeepsItsOneMail
    BY <1>1, <1>3, OneMoreMailType DEF Delivery!Mail, Delivery!Mailable
  <1>4. ASSUME NEW p \in Purchases, Delivery!Fail(p)
        PROVE  DeliveryInv' /\ KeepsItsOneMail
    BY <1>1, <1>4, OneMoreMailType
       DEF Delivery!Fail, Delivery!Mailable, Delivery!Open
  <1>5. ASSUME NEW p \in Purchases, Delivery!Cut(p) \/ Delivery!Settle(p)
        PROVE  DeliveryInv' /\ KeepsItsOneMail
    BY <1>1, <1>5 DEF Delivery!Cut, Delivery!Settle, Delivery!Open
  <1>6. CASE Delivery!LoseAll
    BY <1>1, <1>6 DEF Delivery!LoseAll, Delivery!Open
  <1>7. CASE UNCHANGED Delivery!mailVars
    BY <1>1, <1>7 DEF Delivery!mailVars
  <1> QED BY <1>2, <1>3, <1>4, <1>5, <1>6, <1>7 DEF Delivery!DeliveryNext

\* The promise is what a buyer wants of it: once a purchase is settled without a
\* disturbance, its one mail is the only one there will ever be.
THEOREM DeliveryKeepsOneMail ==
  Delivery!DeliverySpec => [][KeepsItsOneMail]_(Delivery!mailVars)
  <1>1. Delivery!DeliveryInit => DeliveryInv
    BY QRWorkerAssumption DEF Delivery!DeliveryInit, DeliveryInv
  <1>2. DeliveryInv /\ [Delivery!DeliveryNext]_(Delivery!mailVars)
        => DeliveryInv' /\ [KeepsItsOneMail]_(Delivery!mailVars)
    BY DeliveryStepInv
  <1> QED BY <1>1, <1>2, PTL DEF Delivery!DeliverySpec

\* The workers as they are: a purchase settled without a disturbance was mailed
\* once, and no later redelivery, failure or restart adds a mail or a doubt
\* (qr_worker.go:131-139).
THEOREM SettledPurchasesMailedOnce == Spec => [][KeepsItsOneMail]_(Delivery!mailVars)
  BY WorkersImplementMailDelivery, DeliveryKeepsOneMail, PTL DEF ImplementsMailDelivery
=============================================================================
