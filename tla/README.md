# A TLA+ development of the webhook engine

The engine accepts events over HTTP, stores each with an outbox record in one
transaction, relays the outbox to a stream, and lets a pool of workers deliver
every event to the tenant's endpoints with retries, a dead letter queue (DLQ)
and a replay API. This directory holds TLA+ models of its core, the TLC
configurations that check them on small instances, and proofs for the TLA+
proof system (TLAPS). Paths below are relative to the repository.

Contents: [components](#components) · [how they interact](#how-they-interact) ·
[what is hard](#what-is-hard) · [modules](#modules) · [runs](#runs) ·
[bounds](#bounds) · [fairness](#fairness) · [proofs](#proofs) ·
[disagreements found](#disagreements-between-code-and-documentation) ·
[what is left out](#what-is-left-out) · [plan](#plan) · [running](#running)

## Components

| component | source | state it keeps | operations | what makes it correct |
|---|---|---|---|---|
| ingestion API | `internal/api/handler.go`, `router.go` | none of its own | ingest, register an endpoint, list and replay the DLQ | an accepted event is stored once, a refused one not at all |
| idempotency guard | `internal/idempotency/guard.go` | one entry per tenant and key: a marker or a response, with a time to live | `AcquireLock`, `SetResponse`, `ReleaseLock` | one owner at a time; a cached response is not lost to a late release |
| repository | `internal/storage/postgres.go`, `memory.go` | events, outbox, attempts, endpoints | `CreateEventWithOutbox`, `FetchAndLockPendingOutbox`, `MarkOutboxPublished`, `RecordDeliveryAttempt`, `UpdateEventStatus`, `ReplayDLQEvents` | event and record are created together; only DLQ events are reopened |
| outbox relay | `internal/outbox/relay.go` | the batch in hand | fetch, publish, mark; stops at the first error | no record is marked before its message is in the stream; records are published in the order of their ids as far as they are visible |
| stream queue | `internal/queue/stream.go` (Redis and in memory) | messages, last-delivered id, pending entries list (PEL) | `PublishEvent`, `ReadEvents`, `AckEvent`, `AutoClaim` | each message is given out once, in order, and stays pending until acknowledged |
| worker pool | `internal/worker/pool.go` | goroutines, their batches, claim counts | `workerLoop`, `pelRecoveryLoop`, `processMessage`, `Start`, `Stop`, `Shutdown` | no event is acknowledged before it is final |
| dispatcher | `internal/dispatcher/client.go` | none | POST, verdict, record the attempt, update the status | a status is backed by an attempt on record |
| signatures, SSRF filter | `internal/dispatcher/hmac.go`, `ssrf.go` | idle connections | sign, verify; look up, dial, filter addresses | no retry carries a stale signature; no connection goes to a blocked address |
| retry scheduler | `internal/retry/scheduler.go` | none | `CalculateBackoff`, `IsRetryable` | a pass ends within the sum of its timeouts and capped delays |
| live stream | `internal/api/stream.go` | registered channels, 64 attempts each | `Broadcast`, `ServeHTTP` | a slow dashboard stalls no worker and costs no other dashboard an attempt |
| server | `cmd/server/main.go` | the root context | start with its fallbacks, graceful shutdown | the process ends, the stores are closed under nobody, what was in flight is taken up again after a restart |
| dashboard | `web/src` | the feed (200 attempts), the DLQ list and its selection | connect, pause, select, replay, switch tenants | what is replayed is what is shown, and of the tenant it is asked for |
| SDKs | `sdk/go`, `sdk/typescript` | none | one request per call (send, register, list, replay); verify signatures | a fresh delivery verifies, an old one does not |
| mock receiver | `cmd/mockreceiver` | requests counted by event, a buffer of requests | success, flaky, poison and slow routes; inspection | a flaky destination is delivered within the retry budget |
| soak | `cmd/soak` | counters of events and attempts | load, abandoned messages, deadline, audit | an audit without loss has seen every event |
| chaos | `cmd/chaos`, `tests` | counters | scripted scenarios | they are the repository's own tests |
| telemetry | `internal/telemetry/metrics.go` | counters | observe | nothing reads them |

## How they interact

```
client ── POST /events ──> API ── guard (Redis) ── AcquireLock .. SetResponse
                            │
                            └── PostgreSQL: events + outbox_events, one transaction
relay ── FetchAndLockPendingOutbox ──> XADD ──> MarkOutboxPublished
workers ── XREADGROUP ──> processMessage ──> POST to endpoints ──> attempts, status ──> XACK
reclaimer ── XAUTOCLAIM ──> claim ceiling, then the same processMessage ──> XACK
dispatcher ── attempt callback ──> SSEBroker ──> dashboards
dispatcher ── DialContext, Control ──> receivers (mock receiver, SDK verification)
DLQ API <── dashboard, SDK ── ReplayDLQEvents: DLQ -> PENDING with a new outbox record
main ── Start, signal, server.Shutdown, rootCancel, join relay, Stop, close stores
```

PostgreSQL and Redis outlive the process. The in-memory queue, the claim
counts, the batches and every goroutine do not. All calls of the relay and the
pool carry `rootCtx`, which `main` cancels when it shuts down.

## What is hard

* **Acknowledgement.** `workerLoop` acknowledges whatever `processMessage` did.
  That no event is lost depends on every way out of `processMessage`.
* **Ids and commits.** An outbox id is drawn at the `INSERT` and the record is
  visible at the `COMMIT`. Handlers commit in any order, so the relay may
  publish a later id before an earlier one can be seen.
* **Two stores.** The relay writes to Redis and then to PostgreSQL. Either
  write may fail, or succeed and lose its answer, and the process may die in
  between.
* **Takeover.** A pass over a message may last through several backoffs, each
  longer than the idle time after which the reclaimer takes the message over.
  Then two goroutines work on one event and write its one status.
* **Shutdown.** The context is cancelled under passes in flight; the
  acknowledgement that follows an aborted pass must fail with the rest.
* **Reopening.** A replay reopens an event whose old message may still be in
  somebody's hands.
* **One key, many requests.** The lock of the guard has no owner, its release
  and its cached response may be lost, and it may expire under its request.
* **Waiting.** A reader of the in-memory queue leaves the mutex before it waits;
  `Broadcast` holds a read lock while handlers wait for the write lock; replays
  wait for each other's rows.
* **Views.** The dashboard's requests overlap and their answers arrive in any
  order, also after the user has gone to another tenant.
* **Time.** A pass may last as long as all its timeouts and backoffs, while
  signatures grow old and the records of a host change.
* **Stopping.** `Stop` may be called twice, or with a stream open that never
  ends.

`PROJECT.json` lists each of these hazards at its line with the properties that
watch it.

## Modules

| module | what it is |
|---|---|
| `WebhookEngine` | repository, relay, stream, workers, reclaimer, dispatcher, shutdown, crash and restart: the delivery pipeline in one state machine |
| `DeliveryPromise` | abstract: what a client may observe of an event's status and the evidence for it |
| `ConsumerGroup` | abstract: a stream with one consumer group and its pending entries |
| `IngestGuard` | requests with one idempotency key against guard and unique key |
| `MemoryStreamQueue` | the in-memory queue with its mutex and notification channel |
| `SSEBroker` | the live stream of attempts with its RWMutex and bounded channels |
| `DLQConsole` | dashboards and programs that list and replay dead letters, with the replay's transaction statement by statement, next to the workers |
| `ServerLifecycle` | `main` from start to exit, and `Start`, `Stop` and `Shutdown` of the pool with other callers |
| `Egress` | the retry loop in time: signature, lookup and dial, timeout, receivers, backoff |
| `SoakAudit` | the soak test with its injector, its counters and its audit |
| `MCWebhookEngine`, `MCIngestGuard`, `MCMemoryStreamQueue`, `MCSSEBroker`, `MCDLQConsole`, `MCEgress` | what TLC needs: symmetry sets, and constants that are functions or sets of sequences |
| `WebhookEngineProofs`, `ZeroLossProofs` (both on `WebhookEngine`), `IngestGuardProofs`, `MemoryStreamQueueProofs`, `SSEBrokerProofs`, `DLQConsoleProofs`, `ServerLifecycleProofs`, `EgressProofs` | theorems and their proofs |

`WebhookEngine` composes the components around the delivery of an event,
because the properties that matter span all of them. It implements
`DeliveryPromise` (property `KeepsPromise`) and its stream implements
`ConsumerGroup` (`KeepsGroup`); `MemoryStreamQueue`, which replaces Redis in the
fallback, implements the same `ConsumerGroup`. That is why `WebhookEngine` can
treat both queues alike and differ only in what a crash leaves of them
(`DurableQueue`).

The other modules take one part of that pipeline in more detail and the rest
of it coarsely: `DLQConsole` has a replay in many steps and a worker's pass in
two; `Egress` has one delivery with time and without the queue;
`ServerLifecycle` has only whether goroutines and requests run.

### WebhookEngine and the code

* An event is `status[e]` (`NONE` before ingestion). Outbox records are a
  sequence in the order of their ids. A message is its position in the stream.
* A transaction of the API has two steps. `CreateEventWithOutbox` and
  `ReplayDLQEvents` (one turn of its loop) write a record: the id is drawn, the
  record is `UNCOMMITTED` and nobody sees it. `Commit` makes the events PENDING
  and their records visible; `Rollback` leaves the ids unused (`ABORTED`), also
  when the process died with the transaction open. Transactions of different
  events overlap and end in any order. Until then the row of the event is
  `Locked`: a second replay of it and `UpdateEventStatus` wait. Which open
  records of replays belong to one transaction is left open, so every division
  of them is covered; the statements of one replay are in `DLQConsole`.
* `late` of a record is history: the later ids that a relay had in hand, or had
  published, when the record was committed (`Fetched`).
* `pc[c]` follows a consumer through `workerLoop` or `pelRecoveryLoop` and
  `processMessage`: `next` (between two messages), `fence` (the status check),
  `resolve` (the endpoints), `post`, `record`, `update` (the three steps of
  `Dispatch` that others can observe), `poison` (the claim ceiling) and `ack`.
  Each step is one call to another component; the process may die, be shut
  down or be overtaken before each.
* A call that may fail has a disjunct with `Fault(kind)`. Calls that write fail
  with and without their effect (a lost answer); where the code ignores the error
  (`UpdateEventStatus`, `AckEvent`), a lost answer is a success. `Faults` says
  which kinds may happen, `MaxFaults` how many in all.
* `Shutdown` sets `cancelled`; from then on every call fails (`Abort`,
  `RelayExit`, `AckEvent`'s second disjunct) and `Restart` waits for all
  goroutines as `main` does. `Crash` is `NewProcess` at any moment.
* `settled[c]` and `received` are history: no guard of the code reads them.
* Abstractions: one tenant; the payload and the signature are left out; time is
  left out, so an entry of the PEL may always have become idle; a network
  error, 408, 429 and 5xx are one answer, `TRANSIENT`; XADD's approximate
  trimming removes any number of messages up to the excess; claimed messages
  are processed in any order (the in-memory queue walks a map).

### IngestGuard and the code

`pc[r]` follows `HandleIngestEvent` from `AcquireLock` through the body, the
transaction and `SetResponse` or `ReleaseLock`. All calls use the request's
context: once the client is gone (`gone`), every call fails. An event is named
by the request that stored it, so that a response can be compared with the
table. `SharedGuard` and `Postgres` choose Redis or memory for the guard and
PostgreSQL or memory for the repository; in `Crash` what was in memory is gone.

### MemoryStreamQueue and the code

Every method is one critical section, except that `ReadEvents` checks its
context (`CheckContext`), looks under the mutex (`Take` or `Arm`) and waits
outside of it (`Wake`, `Timeout`, `Done`). The channel `notifyCh` is the number
of channels closed before it: a reader holds an open channel when `ch[c]` is
that number.

### DLQConsole and the code

* `calls`, `pc`, `next` and `touched` follow `HandleReplayDLQ` and
  `ReplayDLQEvents`: the check of the batch's size, one turn of the loop per id
  (`UpdateRow`), `Commit`. A row in `touched` is locked until the transaction
  ends. Under READ COMMITTED an `UPDATE` waits for a locked row that matched,
  and looks at it again: `UpdateRow` is disabled while `WaitsFor` holds and
  evaluates `Matches` when it runs. `BreakDeadlock` is PostgreSQL's detection of
  a circle of such waits.
* `StatementFails` and `Crash` roll back; `CommitFails` leaves it open whether
  the commit was done.
* `lists` are the dashboard's requests on their way; `TakeList` takes any that
  is answered, for `useDLQ` does not number its requests. A replay that was
  answered 200 asks for a list with the tenant it was made with. `selected`,
  `loading` and `replaying` are the hook's state; the guards of the buttons are
  those of `DLQManager.tsx`.
* Records stand for outbox record, message and pending entry together; a worker
  takes one up (`Take`) and writes a final status (`Finish`) at any later time,
  perhaps with a second worker at the same record.

### ServerLifecycle and the code

`pc` is the place of `main`; `stopper[c]` that of a caller of `Stop` or
`Shutdown` between the atomic flag, `p.cancel` and `wg.Wait`. `Start` sets its
flag, assigns `p.cancel` and launches goroutines in separate steps, so that a
caller may come in between. `main` is one of the callers; the others may call at
any moment or never. A request uses the store when it answers; a live stream is
a request that only its client ends.

### Egress and the code

* A pass is the retry loop for one endpoint: `Dispatch` signs and starts the
  timeout, `Lookup` is the check of `DialContext`, `Dial` the dialer's own
  lookup with `Control`, `Reuse` an idle connection, `Reply` the answer that
  `client.Do` returns; `Outcome` is the verdict of `Dispatch` with the end of a
  turn of the loop in `processMessage`.
* `Tick` moves all timers. It waits for work that takes no time (`Urgent`):
  a due timer, the program's own steps, and receivers that are not `Patient`.
* The backoff is any value up to `Cap(attempt + 1)`, as full jitter has it.
* Receivers are the four routes of the mock receiver, and one that verifies
  with the SDK. Two passes on one event share the counter of `FlakyState`.
* Left out: redirects, clocks that differ (so `VerifySignature` never meets a
  timestamp of the future, `sdk/go/webhookclient/signature.go:60`), and a context that is cancelled
  during a pass (that is `Abort` of `WebhookEngine`).

### SoakAudit and the code

The in-memory repository and queue, the relay, workers and reclaimer of the
soak test, with its load generator, the injector that publishes an event itself
and reads it as `crashed-worker`, the destination that refuses every n-th
request, the callback's counters and the audit. `Deadline` cancels the one
context everything but the load generator's requests runs with.

### SSEBroker and the code

A `Broadcast` takes the read lock, tries each client with a non-blocking send
and unlocks; `ServeHTTP` waits for the write lock to register and, deferred, to
unregister. A waiting writer keeps new readers out, as in Go's `RWMutex`. A
write to a client may block for ever, since the write deadline is disabled.

## Runs

Runs that pass:

| run | asks | shows |
|---|---|---|
| `engine_delivery` | `TypeOK`, `NoEventStranded`, `QuarantineNeedsFailures`, `EventuallyFinal` | under crashes, shutdowns and every failed or half-answered call but the lossy ones (see `SafeDeployment`), a PENDING event is always carried by a pending outbox record, an unread message or a pending entry; the claim ceiling of a slow but healthy event is never reached before as many failures as it allows; and under fair scheduling every PENDING event is DELIVERED or in the DLQ in the end, whatever answers receivers give |
| `engine_promise` | `KeepsPromise`, `DeliveredWasAccepted` | with every kind of failure, a trimmed stream and the in-memory queue, statuses change as `DeliveryPromise` allows, and DELIVERED is backed by a 2xx answer and an attempt on record |
| `engine_stream` | `PublishedInOrder`, `PublishedIsInStream`, `DuplicatesArePaidFor`, `GroupIsExclusive`, `KeepsGroup` | transactions commit in any order, and one relay publishes in the order of the ids it can see: a record is overtaken only by those that were in its hands, or published, when the record was committed; it marks nothing that is not in the stream, and every duplicate is paid for by a failure; two workers never hold one message; the stream is a `ConsumerGroup` |
| `guard` | `TypeOK`, `AcceptedAgree`, `OneOwner`, `RefusalsAreHonest`, `CachedIsStable` | all 202s for one key name one stored event; a 400 or 409 stored nothing; a 500 has a cause; until a lock expires under its owner one request at a time is past the guard; a cached response is removed by expiry only, although locks expire early, are released late and have no owner |
| `memory_queue` | `TypeOK`, `WaitersMissNothing`, `EveryMessageIsGiven`, `KeepsGroup` | no wake-up is lost between the look at the stream and the wait; messages are given out without the help of a deadline; the queue is a `ConsumerGroup` |
| `live_stream` | `TypeOK`, `NoCollateralLoss`, `BroadcastReturns`, `GoneIsUnregistered` | dashboards that stop reading stall no worker and cost no other dashboard an attempt; their channels are unregistered once they are gone; the client map does not change under a broadcast |
| `dlq_console` | `TypeOK`, `ReopenedOnce`, `ReopenedIsCarried`, `AllOrNothing`, `TenantsApart`, `ReplaysAnswered` | replays of the same dead letters at once, from stale lists and with ids twice reopen each once; a reopened event is carried by a record even when a late worker writes over it; a failed replay leaves nothing; a dashboard that shows the list of the tenant it left reopens nothing with it; the selection stays on the screen; and every replay is answered, deadlocks in the database included |
| `server_lifecycle` | `TypeOK`, `DrainedMeansDone`, `ClosedUnderNobody`, `ShutdownEnds` | when a `Stop` that came after `Start` has drained the pool, nothing of the pool is left; the stores are closed after relay and pool are gone, and a request meets a closed store only after the 15 seconds; after a signal the process ends although live streams stay open and others call `Stop` at any moment |
| `egress` | `TypeOK`, `DialedIsAllowed`, `NeverStale`, `FlakyIsDelivered`, `PassEndsInTime`, `EveryPassEnds` | no connection is opened to a restricted address although DNS records change between check and use; no delivery is refused as too old; two passes that share the flaky counter both succeed within five attempts; a pass ends, and within the sum of its timeouts and capped backoffs |

Runs that end in a counterexample are listed
[below](#disagreements-between-code-and-documentation). Every property of a
passing run is broken by a mutant: a definition marked `Mutant:` that puts a
plausible bug in the place of a definition of the model (an acknowledgement
that ignores the context, `SET` without `NX`, a send without a default case, a
batch that is not in order).

## Bounds

* `engine_delivery`: one event, one endpoint, a worker and the reclaimer, one
  failure of any of seven kinds, two outbox records (so one replay), a retry
  budget of two, so that the retry loop is taken, a ceiling of two. Events
  interact only through the stream and the relay, which `engine_stream` checks
  with two. `ZeroLoss` removes these bounds for `NoEventStranded`.
* `engine_promise`: two endpoints, one registered late, one failure of any kind
  and a stream of one message. Two endpoints are enough for one pass to write
  the status twice, in either order, while the reclaimer does the same.
* `engine_stream`: two events, so that their transactions overlap and the first
  id may be committed last, after the second was fetched or published; two
  records in one batch, so that a batch can break off in the middle, two workers that read one message at a time, one failure.
* `guard`: three valid requests and an invalid one, two failures and two
  expiries: enough for a lock to expire, to be taken over, and to be released
  by its first owner.
* `memory_queue`: three messages in batches of two, two readers and a claimer.
* `live_stream`: two workers that broadcast one attempt each to two dashboards
  with room for one, so that either attempt may be the one that is dropped.
* `dlq_console`: two dead letters of one tenant and a page of one, so that a
  list is cut off; one dashboard and one program, two replays at once of one or
  two ids in either order, with an id twice, and of more than the API accepts;
  one failure; each event may be dead-lettered twice. Two calls and two rows are
  what a circle of waits needs. The second tenant has no events of its own: the
  stale list is the case that matters.
* `server_lifecycle`: two workers and the reclaimer, a request and a live
  stream, two callers besides `main`: one may win the flag and one lose it.
* `egress`: two passes, five attempts as in the default policy, a cap that the
  second backoff reaches, timeout and tolerance of one tick, one lost request
  or one change of DNS. `longestPass` is the sum the code allows; the largest
  `elapsed` reaches it.
* `v_soak`: one event of each producer, a worker and the reclaimer. The
  destination's 3 and 6 stand for the code's larger periods.

`MaxFaults`, `MaxOutbox`, `MaxExpiries`, `MaxMessages`, `MaxAttempts`,
`MaxReplays`, `MaxLists` and `MaxDead` bound counters that the code does not bound; the other numbers are parameters of the
code. Symmetry is used for events, endpoints, workers and requests where only
safety is checked and no property names one of them.

`CHECK_DEADLOCK FALSE` stands in the two runs whose system may stop: when all
readers' contexts are done, and when the bounded broadcasts are over. In the
engine the relay polls for ever, and a cancelled process can always restart;
`Terminated`, `Quiet`, `Stopped`, `AllOver` and `Exited` say in the other
modules exactly when nothing is left to do, so that any other stop is an error.

## Fairness

* `WebhookEngine`: weak fairness for each goroutine (the Go scheduler), for the
  claim of each pending entry (XAUTOCLAIM walks the whole PEL by its cursor and
  starts over, so an entry that stays is reached), for the end of each
  transaction (its handler commits or rolls back, and PostgreSQL rolls back when
  the connection is gone; which of the two is left open), and for the restart of a
  server that was shut down (its supervisor). Clients, failures and crashes have
  none; answers of receivers are free, for the retry budget bounds them.
* `MemoryStreamQueue`: weak fairness for each reader's steps, none for the
  timer: a message reaches a waiting reader through the channel, not because
  its deadline passed.
* `SSEBroker`: weak fairness for broadcasts, for a lock that stays free and for
  the failure of a write to a client that is gone; strong fairness for the
  `Done` case of `select`, which chooses at random among its ready cases. None
  for writes to a client that is there.
* `DLQConsole`: weak fairness for the handlers and for the requests for lists:
  PostgreSQL serves statements and ends circles of waits. None for users and
  workers.
* `ServerLifecycle`: weak fairness for `main`, for `Stop` once it was called, for
  the relay, and for the pool's goroutines once their context is done: every
  call they make carries it. None for clients, signals, or callers' choice to
  call.
* `Egress`: weak fairness for time, for the steps of a pass and for the receivers
  that answer at once. None for the slow receivers and the network.

## Proofs

Checked by TLAPS for every value of the constants that satisfies
`ConstantsAssumption` of the module. Every invariant and every action property
of the passing runs is stated by a theorem:

| theorem | states | under |
|---|---|---|
| `WebhookEngineProofs!TypeCorrect` | `Spec => []TypeOK` | – |
| `WebhookEngineProofs!DeliveredIsAccepted` | `Spec => []DeliveredWasAccepted` | – |
| `WebhookEngineProofs!PromiseIsKept` | `Spec => KeepsPromise` | – |
| `WebhookEngineProofs!OneWorkerPerMessage` | `Spec => []GroupIsExclusive` | – |
| `WebhookEngineProofs!CeilingNeedsFailures` | `Spec => []QuarantineNeedsFailures` | – |
| `ZeroLossProofs!ZeroLoss` | `Spec => []NoEventStranded` | `SafeDeployment` |
| `ZeroLossProofs!PublishBeforeMark` | `Spec => []PublishedIsInStream` | `DurableQueue` |
| `ZeroLossProofs!OutboxOrder` | `Spec => []PublishedInOrder` | `DurableQueue` |
| `ZeroLossProofs!DuplicatesNeedFailures` | `Spec => []DuplicatesArePaidFor` | `SingleRelay` |
| `ZeroLossProofs!StreamIsGroup` | `Spec => KeepsGroup` | `DurableQueue`, `MaxLen = 0` |
| `IngestGuardProofs!GuardType` | `Spec => []TypeOK` | – |
| `IngestGuardProofs!AcceptedOnce` | `Spec => []AcceptedAgree` | `Postgres` |
| `IngestGuardProofs!CachedStays` | `Spec => CachedIsStable` | `Postgres` |
| `IngestGuardProofs!LockIsExclusive` | `Spec => []OneOwner` | – |
| `IngestGuardProofs!RefusalsAreTrue` | `Spec => []RefusalsAreHonest` | – |
| `MemoryStreamQueueProofs!QueueType` | `Spec => []TypeOK` | – |
| `MemoryStreamQueueProofs!NoLostWakeup` | `Spec => []WaitersMissNothing` | – |
| `MemoryStreamQueueProofs!QueueIsGroup` | `Spec => KeepsGroup` | – |
| `SSEBrokerProofs!BrokerType` | `Spec => []TypeOK` | – |
| `SSEBrokerProofs!SlowClientsAreAlone` | `Spec => []NoCollateralLoss` | – |
| `DLQConsoleProofs!ConsoleType` | `Spec => []TypeOK` | – |
| `DLQConsoleProofs!ReplayIsIdempotent` | `Spec => []ReopenedOnce` | – |
| `DLQConsoleProofs!ReplayIsCarried` | `Spec => []ReopenedIsCarried` | – |
| `DLQConsoleProofs!ReplayIsAtomic` | `Spec => []AllOrNothing` | – |
| `DLQConsoleProofs!ReplayIsTenantScoped` | `Spec => []TenantsApart` | – |
| `ServerLifecycleProofs!ServerType` | `Spec => []TypeOK` | – |
| `ServerLifecycleProofs!PoolIsDrained` | `Spec => []DrainedMeansDone` | – |
| `ServerLifecycleProofs!StoreIsClosedLast` | `Spec => []ClosedUnderNobody` | – |
| `EgressProofs!EgressType` | `Spec => []TypeOK` | – |
| `EgressProofs!NoRestrictedDial` | `Spec => []DialedIsAllowed` | – |
| `EgressProofs!SignaturesStayFresh` | `Spec => []NeverStale` | – |
| `EgressProofs!PassIsBounded` | `Spec => []PassEndsInTime` | – |
| `EgressProofs!FlakyDelivers` | `Spec => []FlakyIsDelivered` | `Passes = {w, r}`, `MaxRetries >= 5` |

### The engine

**TypeCorrect.** `TypeOK` does not say that a consumer at a step of a pass has a
message, or that a relay that marks has a record of its batch. `WhereOK` does,
and `TypeInv == TypeOK /\ WhereOK` is inductive. Lemmas on `Append` and
`MarkRecord` come first; then one lemma per action.

**DeliveredIsAccepted** and **PromiseIsKept** rest on `EvidenceInv`: what a
consumer is about to write into `events.status` is backed by the answer it got
(`record`) and by the attempt on record (`update`). Attempts are never removed,
so the evidence survives whoever else writes the status in between. For the
refinement, `HandInv` says that relays hold and have published committed
records only, and `KnownInv` that committed records and messages are of events
that were ingested, that an open transaction's record is of an event that is
new or in the DLQ, and that no two open records are of one event: what a
transaction found is still so when it commits, because the row is locked. Every step of the engine that changes a status or an attempt is then
a step of `DeliveryPromise`; all others are stutters.

**OneWorkerPerMessage.** `GroupInv`: what anybody holds, and what is pending or
was counted, lies at or before `lastDelivered`, and a read gives out only what
lies behind it.

**CeilingNeedsFailures.** `CountInv`: a message was claimed once more than
something failed at most, and, while the process runs and no pass of the
reclaimer has it in hand, no more often than that. A claim may only be repeated
because a pass did not end with its acknowledgement, and every way to that end
is a failure or a shutdown. `PoisonInv` ties the step `poison` to the count that
led there.

**ZeroLoss.** `NoEventStranded` is not inductive. A pending entry carries
nothing once a consumer is about to acknowledge it, and a pending record
carries nothing once a relay is about to mark it. `Live` leaves those two out,
and `PendingIsLive` is inductive with `FlowInv`: a consumer acknowledges only
when it has seen or written a final status of its event, or when the context is
done, in which case the acknowledgement fails. `HandInv` is needed as well: a
record that has just been committed is in no relay's hands, so nobody is about
to mark it. `SafeDeployment` names exactly
what the code needs: Redis and not the in-memory queue, a stream that is not
trimmed, an endpoint registered before the first event, and no lost repository
call in a pass. Without any one of them TLC finds an event that is lost; for
the repository call that is the run `v_failed_call_acked`. No assumption bounds
crashes, shutdowns, lost answers, workers, relays or replays.

**PublishBeforeMark.** `PublishInv`: a record is in the stream from the moment a
relay is about to mark it. **OutboxOrder.** A commit may make visible a record
with a smaller id than those a relay has fetched, and no relay can do better;
what can be asked is that nothing else overtakes it. `BatchInv`: a record that is
older than one of a relay's batch is in that batch too, or published, or has the
other one in `late` (no batch `Skips` it), and the record about to be
marked is the oldest of the batch. A commit keeps it because `late` is all that
is `Fetched` at that moment. With `PublishInv`, a record that enters the stream
finds all older ones there but those it overtakes. Neither assumes a single
relay; both assume `DurableQueue`, for a crash empties the queue in memory and
leaves the records marked.

**DuplicatesNeedFailures.** `PaidInv`: the stream is no longer than the number
of records marked PUBLISHED, plus one for a message whose record is about to be
marked, plus the failures; and whatever the relay has in its batch is still
PENDING. Which records are marked does not matter, so commits out of order do
no harm, and a rolled-back record is never counted. It assumes `SingleRelay`; with two
relays it is false, which is the run `v_skip_locked`.

**StreamIsGroup.** The steps of the stream map to those of `ConsumerGroup` one
by one. The mapping needs `DurableQueue` (the in-memory queue is lost in a
crash; what it promises until then is `QueueIsGroup`) and `MaxLen = 0` (a
trimmed message is given to nobody).

### The guard and the queue in memory

**AcceptedOnce** rests on `AgreeInv`: a cached response names the one stored
event, and so does a request about to cache. The unique key of PostgreSQL, not
the lock, is what makes it true. **CachedStays** follows from it: a second
response is the same, and a release removes markers only.
**LockIsExclusive** rests on `OwnerInv`: while a request is past the guard and no
lock has expired under its owner (`~Overrun`), the entry is its marker and no
other request is past the guard. **RefusalsAreTrue** adds `BlameInv`: a request
whose event is in the table is on its way to a 202 or to a 500 that something
excuses, and until something fails or expires a table that is not empty shows
in the guard, so no second request comes to the unique key.

**NoLostWakeup.** `WaitInv`: no reader holds a channel of the future, and none
waits before the group exists. A publication replaces the channel, so nobody
waits on the open one; a batch is given out only while something is unread,
when by the invariant nobody waits. **QueueIsGroup** maps `Take` to `Give`,
`Ack` to `Done`, `Arm` to `Join` when it created the group, and everything else
to `Add` or a stutter.

### The live stream

`TypeOK` says that only registered channels are yet to be sent to, which is not
inductive: it rests on the lock. `ReaderInv` says that a broadcast has clients
left only while it holds the read lock, and the map changes only while nobody
does. **SlowClientsAreAlone** is inductive together with the two: a feed only
grows, and a worker's next attempt exempts it until it has the lock.

### Dead letters

`LockInv`: the rows that a transaction has updated are, as committed, dead
letters of its own tenant, and no two transactions have updated the same row.
So a commit reopens dead letters only, each once (**ReplayIsIdempotent**), of
its tenant (**ReplayIsTenantScoped**), with the records it wrote
(**ReplayIsCarried**). `GrantInv`: a call that has not ended has reopened
nothing, which makes every way out but the commit harmless
(**ReplayIsAtomic**). A worker may write its own verdict on an event that a
replay has reopened; that it cannot on a row that is locked is what keeps
`LockInv`. `ViewOK` bounds what a dashboard shows by the page of
`HandleListDLQ`, and with it what "Replay all" sends.

### The server process

`ServerInv`: no caller that is in time, and no relay, is there before `Start` has
launched every goroutine (`OrderInv`), so a wait group at zero after that means
that all have exited (**PoolIsDrained**); and once the HTTP server is shut down
nobody is served who has not outlasted the grace period (`GraceInv`), from which
**StoreIsClosedLast** follows.

### Egress

`AgeInv`: the age of a signature and what is left of the timer add up to
`Timeout` at most, and `ConstantsAssumption` has `Timeout <= Tolerance`, as it is
with the 10 seconds of the dispatcher's client (`dispatcher/client.go:37`) and
the 300 that the documentation gives `VerifySignature` (`README.md:270`). So
**SignaturesStayFresh**. `TimeInv` is the
same for the whole pass: what has elapsed, with the timer, is at most
`longestPass[attempt]`. `StateOK` says that a kept connection leads to an
address that was dialed, so that reusing it dials nothing new.

`longestPass` and `interval` are recursive functions. That such a function
satisfies its equation is an induction over its argument. The induction rules of
the library have an operator as a parameter, so `EgressProofs` goes by sets
instead: `LeastElement` says that a set of numbers that is not empty has a least
member (from the well-foundedness of `<`), and `Recursion` derives that a first
value and a function of steps define a function on `Nat`, with the least number
for which there is no beginning of one. `IntervalFacts`, `LongestFacts` and
`LongestGrows` follow in the same way.

**FlakyDelivers** is a counting argument. With no failure so far and a host that
resolves, each third request gets the 200, and a pass that has it makes no
further request (`FlakyInv`: `count \div 3` is at most the number of passes that
have theirs). A pass without one has had at most the 500s of the receiver,
which are four before the second 200. It holds for two passes (a worker and the
reclaimer on one event) and from five attempts on, the default of
`DefaultBackoffPolicy`; with four attempts it is false.

### Only model-checked

* `EventuallyFinal`, `EveryMessageIsGiven`, `BroadcastReturns`,
  `GoneIsUnregistered`, `ReplaysAnswered`, `ShutdownEnds` and `EveryPassEnds`:
  liveness under fairness is out of the provers' reach.
* The runs that show a violation; `SoakAudit` is there for one of them only.

## Disagreements between code and documentation

| run | property | what happens |
|---|---|---|
| `v_failed_call_acked` | `NoEventStranded` | one failed repository call in a pass, and the event is PENDING for ever: the message is acknowledged all the same |
| `v_skip_locked` | `DuplicatesArePaidFor` | two relays publish one record without any failure: `FOR UPDATE SKIP LOCKED` runs outside a transaction |
| `v_soak` | `ZeroLossIsReal` | the audit reports no loss although an event was never sent: attempts are compared with events, one event is published by the injector and by the relay and counted twice, and a negative loss becomes 0 |

Seen while modelling and not a run of their own:

* an event of a tenant without an active endpoint is acknowledged and stays
  PENDING (`pool.go:264-266`); an event in the in-memory fallback is lost in a
  crash although its record is PUBLISHED (`main.go:93-96`); a message trimmed
  from the stream before it was read is lost (`stream.go:85-88`). These are the
  other conjuncts of `SafeDeployment`;
* records may be published out of the order of their ids, when transactions
  commit out of that order (`postgres.go:197-212`). What
  `docs/technical-deep-dive.md:106` claims is that a late one is not skipped,
  which is so (`ZeroLoss`), and it owes that to the selection by status;
* the zombie fence is checked once per pass, so a worker in its backoff sends
  an event that the reclaimer has delivered (`pool.go:240-248`);
* the last endpoint decides the one status of an event: one that refused it for
  good is masked by one that accepts it (`client.go:146-150`);
* with PostgreSQL a duplicate key is answered 500, for `ErrDuplicateKey` is
  returned by the in-memory repository only (`postgres.go:184-195`);
* a response that could not be cached leaves the marker behind a 202, and
  retries are answered 409 (`handler.go:210-212`);
* the claim counts of the poison-pill ceiling are lost with the process that the
  message crashes (`pool.go:57`, `207-210`), while
  `docs/technical-deep-dive.md:156-157` has them stop a crash loop;
* a client that goes away leaves its lock for the whole time to live, for
  `ReleaseLock` is called with the request's context (`handler.go:132-134`,
  `183-185`);
* a second caller of `Stop` or `Shutdown` returns at once, before the pool is
  drained, and one that comes before `Start` has assigned `p.cancel` cancels
  nothing (`pool.go:310-330`); `main` is the only caller in the server;
* a shutdown cancels the requests in flight, where the hardening design of
  2026-08-20 (line 43) says "ensuring in-flight HTTP requests finish before
  process termination";
* `useDLQ` does not order its requests: after a switch of tenants the old list
  may be shown under the new name (`useDLQ.ts:41`), and the button that replays
  one event is never disabled (`DLQManager.tsx:238-250`). The tenant in the
  `UPDATE` is what keeps a replay of that list harmless
  (`TenantsApart`); that the wrong list is shown no property forbids;
* the SDK's `ListDLQ` is "with pagination" (`client.go:115`), but
  `HandleListDLQ` ignores limit and offset;
* the first backoff is computed for attempt 2, so its cap is twice
  `InitialInterval` (`pool.go:290-294`);
* the "Draining remaining queue entries" of the soak test drains nothing, for
  the deadline has cancelled pool and relay, and its injector counts events it
  could not create; the chaos program's third scenario reports two ingested
  events for one (`cmd/chaos/main.go:373`).

## What is left out

* Time in `WebhookEngine`, `IngestGuard`, `MemoryStreamQueue` and
  `ServerLifecycle`: `MinIdleDuration`, TTLs and deadlines are nondeterministic
  there. `Egress` has time, for one event.
* Payloads, HMAC values, the parsing of the signature header, JSON and HTTP
  headers: data that no state depends on.
* The table of restricted networks: `Restricted` is a constant.
* Validation of endpoints, tenants and URLs, routing, CORS: single checks without
  state. A URL that passed `Endpoint.Validate` (`domain/endpoint.go:27`) is
  parsed again by `http.NewRequestWithContext`, so `Dispatch`'s early return
  without an attempt (`client.go:82-85`) is left out.
* `useEventStream`: one browser's list of the last 200 attempts, which a timer
  reconnects after an error. It has one connection and one timer at a time, all
  on one thread; what a connection loses is the subject of `SSEBroker`.
* SDK calls other than `ReplayDLQ`: one request each, without state or retries.
* The mock receiver's buffer of requests and its inspection routes; the chaos
  program, whose scenarios are sequences of the engine's operations.
* Telemetry, logging, reading of the configuration.
* A record whose publish fails for ever blocks the records behind it: failures
  are bounded in the model.
* The creation of the consumer group is assumed to succeed in `WebhookEngine`;
  `Start` drops its error (`pool.go:101`), and every read would fail until a
  restart.

## Plan

Done, in this order: `WebhookEngine` with `DeliveryPromise`; its type
correctness and zero loss; `IngestGuard`; `MemoryStreamQueue` with
`ConsumerGroup`; `SSEBroker`; `DLQConsole`; `ServerLifecycle`; `Egress`;
`SoakAudit`. The models are complete as far as the code carries state that
several actors share.

Then the proofs: type correctness and zero loss, the guard, the queue in memory
and its refinement; evidence, promise, exclusiveness and ceiling of the engine,
its relay and its stream; the server process, egress, dead letters, refusals and
the live stream. All safety properties that the runs check are proved.

Next:

1. weaken what theorems assume: `SafeDeployment` conjunct by conjunct (which
   events an unregistered endpoint or a lost repository call can strand, and no
   others), and `StreamIsGroup` for a trimmed stream against a group that may
   forget;
2. `FlakyDelivers` for any number of passes, with the attempts it then takes.

## Running

```
tlc -config engine_delivery.cfg MCWebhookEngine.tla
tlc -config guard.cfg MCIngestGuard.tla
tlc -config memory_queue.cfg MCMemoryStreamQueue.tla
tlc -config live_stream.cfg MCSSEBroker.tla
tlc -config dlq_console.cfg MCDLQConsole.tla
tlc -config server_lifecycle.cfg ServerLifecycle.tla
tlc -config egress.cfg MCEgress.tla
tlc -config v_soak.cfg SoakAudit.tla
tlapm WebhookEngineProofs.tla      # and the other modules *Proofs.tla
```
