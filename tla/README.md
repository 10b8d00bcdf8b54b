# A verification of the QR ticketing API

TLA+ models of the ticketing services in `src/` (Go), the TLC configurations that
check them and the theorems TLAPS proves about them.  Paths below are relative to
`src/`.

## 1. The system

Three processes share a MySQL database, a Redis cache and a RabbitMQ broker.

| component | state it keeps | operations | talks to |
|---|---|---|---|
| **Ticket API**: `cmd/ticket-api`, `internal/ticket` | MySQL tables `events`, `purchases`, `tickets` | create event, purchase, cancel ticket, look a ticket up, consume `ticket.used` | publishes `ticket.created`, `ticket.cancelled`, `purchase.completed`; serves `/tickets/lookup` to the validator |
| **Validator API**: `cmd/validator-api`, `internal/validator` | one Redis record per ticket (`active`, `used`, `cancelled`) | validate a scanned token; consume `ticket.created`, `ticket.cancelled` | publishes `ticket.used`; asks the Ticket API over HTTP when Redis has no record |
| **QR worker**: `cmd/qr-worker`, `adapter/qr_worker.go`, `adapter/email_sender.go` | none | consume `purchase.completed`, mail the QR codes | SMTP, without a timeout |
| **RabbitMQ topology**: `platform/rabbitmq` | a topic exchange and four queues | publish, deliver, Ack, Nack with requeue | all three processes; one AMQP channel per process, shared by its publisher and consumers, never reopened |
| **Rate limiter**: `platform/middleware/ratelimit.go` | map client address -> token bucket | get bucket, allow, evict | in front of every route of the Validator API |
| **Token verification**: `platform/middleware/auth.go` | the cached public keys of the user pool | let a request through or answer 401, 403; refresh the keys | in front of the handlers; fetches the JWKS over HTTP |
| **Process life cycle**: the three `main.go` | connections, the channel, the server | start, set up the topology, stop on SIGTERM | the broker and the databases |

What is hard here:

* **No transactions.**  A purchase is 3 + 2n calls (rows, publishes, the event
  row) and a reply, made one by one; every other handler is a read, a decision on the copy and
  an unconditional write.  Requests run in goroutines and interleave anywhere.
* **Two stores for one fact.**  Whether a ticket is used is in a MySQL row and in
  a Redis record, joined by three queues with redelivery and no order between them.
* **Failure.**  A call may fail before or after its effect; a lost AMQP channel
  is never reopened; a process that ends cuts its handlers off (also on SIGTERM:
  `ListenAndServe` returns when `Shutdown` begins and `main` returns with it); the
  broker takes back what was not acknowledged; messages are transient and
  unconfirmed.
* **Shutdown.**  While the handlers still run, the deferred calls of `main` close the
  channel and then the database under them.
* **No prefetch limit.**  The broker pushes everything to one QR worker at once, where it
  waits behind a mail session that may take for ever.
* **Shared objects**: the key cache, whose write lock is held over an HTTP request,
  and the rate limiter, whose buckets are used after the lock is released.

What makes each part correct: a purchase never sells beyond the capacity, keeps
the order row / announcement / completion and does not refuse a buyer who fits; an
admitted ticket is not admitted again; a used or cancelled record stays so; each
store calls a ticket used or cancelled only if the other gave a reason; no
announcement or admission is lost without a fault that loses it; a purchase message
is neither lost nor multiplied, and a buyer who gets two mails owes them to a fault;
what is published is routed; stopping a process does no more than the faults it
survives anyway; the limiter is a bucket per client; the key cache never goes back,
finds published keys and forgets retired ones.

## 2. Modules

| module | models | its state and actions |
|---|---|---|
| `PurchaseService` | `TicketService.Purchase`, `POST /events`, the tables they write | the tables (`capacity`, `sold`, `purchases`, `tickets`), what was published (`announced`, `completed`), and per request the next call and its in-memory copy.  One action per call, one twin per way it can fail |
| `PurchaseOverlap` | `PurchaseService` with a history variable: the events whose count a purchase wrote from a stale copy | `overwritten`, which no step reads; it implements `BoxOffice` |
| `BoxOffice` | the sale of an event: orders that fit are sold, what is sold is delivered, and of an event whose book was overwritten no more is promised than a count within the capacity | abstract |
| `TicketIssue` | what Purchase promises about one ticket's effects and their order | abstract; `PurchaseService` implements it, `TicketSystem` is built from its steps |
| `TicketAPI` | the ticket-api process around `PurchaseService`: connections, `SetupTopology`, serving, SIGTERM, the deferred calls, the end | `phase` says how far `main` has come, `declared` and `bound` what is set up; the steps of requests depend on it; `TicketAPI` implements `PurchaseService` |
| `Broker` | the three queues between the two APIs | copies waiting per queue and code |
| `TicketService` | the `status` column, `CancelTicket`, `SyncTicketUsed` and its consumer | the row; per cancel request and for the consumer: next call and code |
| `ValidatorService` | the Redis records, `ValidateTicket` (fast path, fallback), both consumers | the record; per scan and per consumer: next call and code; the answer |
| `TicketSystem` | the life of a ticket over both services | composes the three above over one `queue` and the lookup; adds history variables |
| `CancellationHistory` | `TicketSystem` with a history variable: the codes with a `ticket.cancelled` the validator may put back for ever | `doomed`, which no step reads; only for `SystemFair` |
| `TicketLedger` | what the two services promise about one ticket: row and record only move forward, and neither claims what the other did not do first | abstract; `TicketSystem` implements it |
| `QRWorker` | the workers on the queue of `purchase.completed`: `StartConsuming`, `HandleMessage`, `sendMail`, `main` | copies waiting, what was pushed to each worker and what it has in hand, its channel and context, mails |
| `MailDelivery` | what a buyer may expect of the workers: a mail before the message is settled, a second one only after a disturbance of an open purchase | abstract; `QRWorker` implements it |
| `TokenBucket`, `RateLimiter` | the promise, and the map with mutex, eviction and buckets | `RateLimiter` implements `TokenBucket` |
| `KeyCache` | a request from `RequireAuth` / `RequireRole` through `Validate` and `keyCache.get` / `refresh` under the read-write lock | cached keys, lock, per request its step and answer |
| `MCPurchase`, `MCTicketAPI`, `MCTicketSystem` | symmetry sets for TLC | |
| `...Proofs` | the theorems | |

**Granularity.**  One action is one call whose effect others can see (a query, a
Redis command, a publish, an acknowledgement, a section under a mutex) with the local
computation up to the next such call.  The reply of a purchase that succeeds is an action of its
own, as the process may end between `purchase.completed` and the 201; the replies of the others follow
their failing call with nothing in between that anyone could tell.  An SQL statement, a Redis command and a
publish are taken as atomic and as made once: that go-redis sends a command again when the
answer to it was lost, so that a `SET` could be applied a second time and later, is outside the
model.  Where a call may fail (`"db"`, `"smtp"`, `"fetch"`),
its failing twin may or may not have had the effect.  An SMTP session is one action,
from `Dial` to the answer to `QUIT`, or it fails or hangs at any point of it: the mail is out
or not, according to whether the final dot of `DATA` was answered.  `SetupTopology`
goes queue by queue, since a start may end between two of them.

**Data left out.**  Names, prices, mail addresses, times and JSON are not modelled.
A ticket of a purchase is `<<request, i>>`; a code is a model value.  A quantity of
0 stands for all that are not positive.  A scan begins with a verified code: a bad
token changes nothing.  Refused cancel requests (404, 409) change nothing and
are no step.  Malformed messages, which the consumers drop, are never produced by the
publishers and are left out.  What a bearer token says beside its key is a free
choice of `Verify`: the tests of `Validate` and of the role are functions of the token.

**Assume/guarantee.**  `TicketSystem` lets tickets come into being by the steps of
`TicketIssue`; theorem `PurchaseImplementsTicketIssue` is what discharges this: every
step of `PurchaseService` is a step of `TicketIssue` or leaves its variables alone.
Only a completed ticket is scanned or cancelled, because only `purchase.completed`
and the reply after it disclose the code.

**Simplifications of the environment.**
The broker forgets order altogether, as consumers set no prefetch limit and requeue.
When a channel closes, what the client library had buffered and not handed out is
taken as dropped, and a delivery is "in hand" until it is acknowledged at the broker.  MySQL and Redis keep what they acknowledged.  A broker that
restarts (`"loss"` in `QRWorker`) keeps its durable queues without their transient
messages; one that is created anew (`BrokerRecreated`) has no exchange or queue
either, as it has no volume (`docker-compose.yml:25`).  A process is
started again by its operator, at any time, or never.  In `RateLimiter` one tick is
the time in which a bucket gains one token, and `rate.Limiter`, which computes its
tokens when asked, is taken to have been refilled at every tick; a client is whatever
`extractIP` says it is.  In `KeyCache` a
reply holds the key set published at some moment during the fetch, under the lock.

## 3. Runs

Passing runs:

| run | checks | instance |
|---|---|---|
| `PurchaseConcurrent` | `OverlapTypeOK SoldWithinCapacity SoldNeverOverstated RefusalIsTruthful CreatedIsWhole OversoldOnlyByOverwriting ImplementsTicketIssue ImplementsBoxOffice EveryCallCounts EveryPurchaseEnds` | `PurchaseOverlap`: 3 overlapping requests, 1 event, capacity to 3, quantity to 2, all faults |
| `TicketAPI` | `ProcessTypeOK ImplementsPurchaseService PublishedIsRouted` | 2 overlapping requests, any number of starts and stops, all faults |
| `SystemSafety` | `TypeOK LateScanRejected UsedOnlyIfAdmitted CancelledOnlyIfWithdrawn ImplementsTicketLedger` | 1 code, 2 scans, 2 cancel requests, every fault, also message loss |
| `SystemLookup` | `CreatedNotLost NoResurrection` | a lookup that works, so that the fallback admits; 2 scans, every fault but loss |
| `SystemFair` | `AdmissionNotLost AnnouncedReachesValidator AdmissionReported CancellationSettles ReportSettles` | `CancellationHistory`: 1 scan at a time, 2 cancel requests, failed calls and restarts, fair delivery |
| `RateLimiter` | `TypeOK ImplementsTokenBucket` | eviction just late enough |
| `QRWorker` | `TypeOK OneLiveCopy SettledWasMailed SecondMailOnlyAfterFault ImplementsMailDelivery EveryPurchaseMailed StopsUnlessMailHangs` | 2 purchases, 2 workers, mails counted to 2, every fault |
| `KeyCache` | `TypeOK PublishedKeyFound RetiredKeyRefused CacheNeverGoesBack EveryRequestAnswered` | 2 keys, 2 requests, 1 rotation, failing fetches and error replies |

Runs that exhibit a disagreement between the code and what its text says.  Each
ends in a counterexample:

| run | property | what happens | what is said |
|---|---|---|---|
| `FindOversell` | `NoOversell` | two purchases read the same sold count and both complete | `internal/ticket/event.go:129`: the capacity is "the maximum number of tickets that can be sold" |
| `FindOverlappingScans` | `AdmittedOnce` | two scans read `active`, both answer valid | `docs/openapi-validator-api.yaml:37`: `valid: false` if already used |
| `FindCancelOvertakes` | `CancelledScanRejected` | the cancellation is handled before the announcement and leaves no trace | same line: cancelled |
| `FindLookupRefused` | `FallbackAnswers` | the lookup has no bearer token, the route requires one: every fallback is refused | `README.md:29`: the validator queries the ticket service |

Other behaviour of the code that the passing properties have to step around, with
the line that causes it:

* a `ticket.cancelled` for a record already used or cancelled, and a `ticket.used`
  for a cancelled row, are requeued for ever (`rabbitmq_consumer.go:153`,
  `ticket_used_consumer.go:88`): the exceptions in `ReportSettles` and
  `CancellationSettles`.  The handler of `ticket.cancelled` writes `cancelled` itself, so that the
  second cannot be told by the record: `doomed` notes what leads to it, a scan that let the holder in, a
  second cancellation behind an open one, a handler cut off between its write and its Ack.
  Every other cancellation is acknowledged;
* a cancel request that read `emitted` overwrites a `used` written since
  (`internal/ticket/service.go:181`): why `AdmissionReported` ends in `Terminal`;
* an admission by the fallback is not recorded, because the lookup fills in event
  0 (`ticket_service_http_client.go:90`): why `LateScansRejected` assumes that the
  lookup is refused;
* a session that fails after the mail is out, or a fault between mail and Ack, mails the
  buyer again (`qr_worker.go:134`, `139`): `README.md:38` calls the consumers
  idempotent, but the mail is not, hence `SecondMailOnlyAfterFault` and not "at
  most one mail";
* a mail server that hangs holds its worker, what was pushed to it, and SIGTERM
  (`email_sender.go:188`): the exception in `StopsUnlessMailHangs` and the condition of
  `EveryPurchaseMailed`;
* `main` does not wait for `Shutdown` (`cmd/ticket-api/main.go:105`, "Graceful
  shutdown"; the validator is the same), so purchases in flight are cut or meet a closed
  database: `ImplementsPurchaseService` says that this is no worse than the faults
  `PurchaseConcurrent` has;
* requests that missed a key together fetch one after the other, with no second
  look under the lock (`auth.go:137`; `auth.go:189` speaks of a single refresh), and a JSON
  error document empties the cache (`auth.go:149`): the exceptions in the properties of
  `KeyCache`;
* a cached key has no age, so a retired one passes until some other token brings a
  refresh (`auth.go:128`): `RetiredKeyRefused` says that it does not pass after.

**Bounds.**  Codes are independent but for sharing a consumer, so one code shows
what there is, and the theorems hold for any number; two scans, two cancel requests or two refreshes are what a race
needs, three purchases give one that overlaps two others.  `MaxCapacity` 3 with
`MaxQuantity` 2 allows a sale that exactly fills, one that would overfill by one and
one that fits after a failed one.  `MaxInFlight` bounds the purchases served at once,
and all requests may be, `MaxBacklog` the `ticket.used` copies a new scan may add to,
`MaxMails` the mails counted, `MaxRotations` the key rotations.  The rate limiter
of the Validator API has burst 20 and eviction after 6000 ticks; the runs
scale this down and keep `Burst + MaxStall <= Stale`, the assumption under which an
evicted bucket is full.  No other counter is bounded.  Deadlock checking is off only for
`PurchaseService`, whose requests are finitely many without the process around them.

**Fairness.**  A goroutine that can make its next call makes it (weak fairness).
A delivery is under strong fairness per ticket or purchase, since the consumer is busy with
other messages in between.  A call that may fail is under strong fairness of its success: tried
for ever, it succeeds in the end.  `QRWorker` needs this of the mail server; of one
that hangs nothing is assumed, nor that it ever answers.  A worker's return from its loop is
strongly fair: `select` does not prefer deliveries over a cancelled context for ever.  The
lock of `KeyCache` is strongly fair, as `sync.RWMutex` is.  Arrivals, faults, starts, stops
and cancellations are under no fairness.  Nothing in the system restarts a
process that lost its channel, so `EveryPurchaseMailed` is conditional on every worker
being up from some point on (one that is cut off again and again could take the message each
time) and on none of them hanging for ever, and `SystemFair` runs without the
fault: that a consumer whose channel is lost hears of nothing until its process is started again is not
covered by any liveness property.  The other antecedent, `p \in lost`, is the restart of the broker.

## 4. Proofs

All theorems hold for every value of the constants that satisfies the named
assumptions; TLC evaluates the assumptions in every run.

* `PurchaseServiceProofs`, `PurchaseCountProofs`.  `CapacityRespected`: `sold` never
  passes the capacity.  Inductive, because every in-memory count that will be written was
  tested against the capacity, which never changes once set.  `SoldCovered`
  and `RefusalsTruthful`: a request between two calls has as many ticket rows
  as its loop counter (or one more), so the rows of an event cover any count its requests
  may write: a count is the one read plus the quantity, the rows of the requester are disjoint from those
  that covered the count it read.  `PurchaseImplementsTicketIssue`: the invariant ties
  `announced` and `completed` to `tickets` and the program counters; every action then
  maps to a step of `TicketIssue` or a stutter.  `IssueKeepsOrder` says what that is worth:
  whoever hears of a ticket finds its row, and nothing is taken back.
  `CreatedPurchasesWhole` adds to the invariant that a request has sent `purchase.completed`
  before its 201, and is then about to reply, has replied so, or was cut off.  `PublishedOnce`: as the invariant fixes what was announced by the loop
  counter, no publish repeats one, and each comes after what it speaks of: the interface
  on which `TicketSystem` and `QRWorker` build.
  `CallsRunOut`: `CallsLeft` is a variant that each call of a request lowers and nothing
  else touches.  It is the safety half of `EveryPurchaseEnds`; the other half is only
  that a goroutine goes on.
* `TicketAPIProofs`.  `APIImplementsPurchaseService`: with the channel of `PurchaseService` read as
  "open while the process runs", every step of the process maps to a step of
  `PurchaseService` under all faults, or to a stutter; the steps that need care are
  those of a request that meets a closed database, and the end of `main`, which is its
  `Restart`.  `PublishedAreRouted` rests on one invariant: while the channel of a
  serving process is open, all keys are bound, since a broker that loses them closes it.
  The other theorems carry over what was proved of `PurchaseService`, by the name
  `Proved`, an instance of its proof modules under the refinement: the theorems
  `API...` are about the process itself, with its starts, its SIGTERM and the requests
  that run on after it.
* `PurchaseOverlapProofs`, for any number of purchases in flight.  A write that is not stale adds the
  quantity of the purchase to the stored count, and the purchase has at most that many tickets: so the
  count goes on covering the tickets of all purchases that came as far as to write it and were not cut
  off before `purchase.completed` (`SoldCoversCounted`, the
  strengthening that is inductive), those of completed ones among them.  A stale write may break this,
  and its event is in `overwritten` from then on.  With `SoldWithinCapacity` this is
  `OnlyOverwritingOversells`: the lost update is the only way past the capacity.
  `OverlapImplementsBoxOffice` maps a fresh write to `Sell`, a stale one to `Overwrite` and the publish of
  `purchase.completed` to `Deliver`; `SoldFallsOnlyByOverwriting` follows from it.  That events do get
  oversold so is what `FindOversell` shows.
* `TicketSystemProofs`.  One inductive invariant, `SystemInv`, with one part per
  concern: types; records (`active` is only written for a record that is missing
  and not yet admitted, since a scan and the consumers can only find what was created);
  admissions; rows; uses backed by admissions; cancellations backed by rows; deliveries;
  reports.  Each action has one lemma per part it may disturb.
  The named theorems are its consequences.  `LateScansRejected` assumes
  `~LookupAuthenticated`, the code as it is (section 3 says why).
  `CreatedNeverLost` and `AdmissionsNeverLost` carry their condition on the faults.
  That two scans which overlap may both admit is no exception to `LateScansRejected`, which is
  about a scan that starts after the admission; `FindOverlappingScans` shows it.
  `SystemImplementsLedger` maps every action to
  a step of `TicketLedger` or a stutter, fault or not: one lemma per action, from `SystemInv` and one more part,
  `AnnouncedInv`: a ticket whose `ticket.created` is in the queue or in the consumer's hands
  was announced.  `SystemBooksAgree` is what the ledger
  is worth: a record has its announcement, a row that says used its admission, a record that
  says cancelled a row that is spent, and no step of either side is taken back.
* `QRWorkerProofs`.  `QueueInv` says where the one copy of a live message is: in the
  queue, behind the delivery in hand of one worker, or in hand on an open channel.  From it
  follow `CopiesAreOne` and `WorkerTypeCorrect`.  `MailInv` adds that a delivery to
  be acknowledged was mailed, and that a purchase nothing disturbed is mailed by the
  worker that has it in hand or settled already, hence `SettledWereMailed` and
  `SecondMailsHadFaults`.  `WorkersImplementMailDelivery` shows from both that the queue, the
  pushed deliveries, the channels and the workers together are a `MailDelivery`; the steps
  that need care are those of a worker cut off from the broker, which may still mail.
  `SettledPurchasesMailedOnce` is what a buyer wants of it and no state invariant says: a
  purchase settled undisturbed keeps its one mail, whatever fails later.
* `RateLimiterProofs`.  `LimiterImplementsTokenBucket`: an entry that is stale has been
  unseen longer than any request can still hold its bucket plus the time a refill
  takes, so eviction changes nothing; the invariant relates the tokens of a bucket to the
  age of its entry and the stall of its holders.  `RateBounded` adds two counters that
  start at any moment: in any window a client is served at most `Burst` and what the window
  refilled.  It speaks of windows and not of states, and no run checks it.
* `KeyCacheProofs`.  Only the holder of the write lock fetches and stores, hence what it
  stores is as new as the cache and holds any key that stayed published, or is what an
  error document left; what a request goes by is in a key set no older than the one cached
  when it arrived (`RetiredKeysRefused`).  `LockNeverOrphaned` and `RequestsNeverStartOver` are the
  safety half of `EveryRequestAnswered`: no path leaves the lock behind, and a request has
  five steps of its own, two of them under the lock, and never goes back.

Every invariant and action property of the passing runs is a theorem, and so are the
refinements.  The theorems about an abstract specification alone (`IssueKeepsOrder`,
`DeliveryKeepsOneMail`, `LedgerBooksAgree`) are there to show that it promises
enough: a weaker abstraction would fail them.

Only model-checked: what must happen in the end, since fairness and ENABLED are beyond the
prover: `EveryPurchaseEnds`, `AnnouncedReachesValidator`, `AdmissionReported`,
`CancellationSettles`, `ReportSettles`, `EveryPurchaseMailed`, `StopsUnlessMailHangs`,
`EveryRequestAnswered`.  For the first and the last their safety halves are theorems.  The
cardinalities of `OversoldOnlyByOverwriting`, `SoldNeverOverstated` and `RefusalIsTruthful` come from the library's
theorems on finite sets; nothing was proved by induction over data.

## 5. Not modelled

The HMAC signer, the QR generator, the MIME layout of the mail, configuration, the
connection pool, metrics, logging and dashboards: pure functions, or no behaviour
of their own.  Of `auth.go` the signature, issuer, expiry and role tests are a
free choice (pure); of `qr_worker.go` the QR codes that fail to generate and are skipped, which
its tests accept (`qr_worker_test.go:123`).  A crash of Redis that loses recent
writes depends on a save policy the repository does not set.

The start of the validator API is not modelled step by step: its `main` is that of
`TicketAPI` with Redis for MySQL and two consumers.  Its end is modelled by its effects: the deferred calls close the
channel (`ValidatorDisconnect`), calls on the closed Redis client fail (the twins
under `"db"`) and the process goes (`ValidatorRestart`), in any order.

## 6. Plan

Done: `PurchaseService` and its overlaps, with two abstract specifications; `Broker`, `TicketService`,
`ValidatorService`, their composition and the ledger it keeps; the rate limiter; the QR
workers with hangs, shutdown and broker restarts, as a mail delivery; token verification with the
key cache; the life cycle of ticket-api; the proofs of all of these.

Left:

1. to prove: the safety halves of the other liveness properties, above all that a message
   of `TicketSystem` is only requeued with its row or record unchanged (`AnnouncedReachesValidator`,
   `CancellationSettles`), and that a stopped worker of `QRWorker` comes closer to its return;
2. the start of the validator API as a module beside `TicketAPI`, with `ticket.used` in place of
   `PublishedIsRouted`'s two keys;
3. one instance that joins `PurchaseService` and `QRWorker`, up to the mail of a completed
   purchase: it is too large for the bounds of either, and the interface is narrow and proved
   on both sides, one `purchase.completed` per purchase (`PublishedOnce`, `QRWorker!Publish`);
4. the handlers behind the token and the limiter, which share no state with either.
