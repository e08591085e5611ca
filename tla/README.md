# A formal model of ApiCortex

TLA+ modules for the parts of ApiCortex whose correctness depends on order,
failure and concurrency; TLC configurations that check them on small instances;
and TLAPS proofs of what matters most for every size of the instance.

    tlc -workers 2 -config MCBatcher.cfg MCBatcher.tla    # any run of the table below
    tlapm ServiceProofs.tla                               # the proofs of one module

`PROJECT.json` lists the runs, the properties, for each property a mutant of the
code that breaks it, the source lines behind every definition, the hazards and
the findings.

## 1. The system

ApiCortex watches HTTP APIs. Five programs share two PostgreSQL databases (core
and Timescale) and a Kafka cluster.

| Part | State it keeps | Operations | What is hard |
|---|---|---|---|
| **Ingest buffer** `ingest-service/internal/buffer/batcher.go` | channel of events, channel of batches, lock, goroutines | `TryEnqueue`, collector, publishers, `Stop` | check-then-send under a lock, full channels, shutdown from both ends, partial failure of two sinks |
| **Active poller** `ingest-service/internal/poller/poller.go`, `store.go` | one goroutine and status per target, the map of runners | `Start`, `AddOrUpdateTarget`, `RemoveTarget`, `Reconcile`, `Wait`, `runTarget` | reconcile in many small critical sections, cancelled runners that still poll and report |
| **Ingest main** `ingest-service/cmd/server/main.go` | context, sync goroutine, HTTP server | start, target sync, signal, shutdown | order of the shutdown, goroutines nobody waits for |
| Ingest handler, middleware | rate limiters, caches of keys and organisations, live tracker | ingest, list | stale cache entries, limiters dropped while in use |
| **Inference worker** `ml-service/workers/inference_worker.py`, `app/kafka/consumer.py` | position, committed offset, failure counts, pending alert deliveries | poll, store, predict, alert, commit, retry, dead-letter | at-least-once, asynchronous callbacks, redelivery, offsets that cover others |
| Feature engineering, predictor | rolling windows per endpoint | ingest, predict | late events, window boundaries |
| **Job queue** `control-plane/app/services/job_service.py`, `job_worker.py`, `routers/contracts.py` | the `jobs` table, one task per process | enqueue, claim, mark, clean up; claim/complete/fail over HTTP | claims by many, crashes between transactions, retries counted in one place and decided in another |
| **Alert subscriber** `control-plane/app/services/alert_subscriber.py` | its thread, the group's offset, `notifications` | dispatch, commit, restart | inserts and commits that fail, the end of the topic as first position |
| **Tracking policy** `telemetry_tracking_subscriber.py`, `routers/testing.py`, `api_service.py` | one endpoint row, the raw topic, sessions | count, pause, resume, test | three writers of one row, a row read before an await |
| **Ingest key** `ingest_key_service.py`, `orgvalidator/validator.go`, `settings/page.tsx` | the hash in the database, the validator's cache, the key shown on a page | rotate, validate | a slow lookup that overwrites a newer one, an answer that is lost after its commit |
| **Session** `frontend/lib/api-client.ts`, `proxy.ts`, login page, `routers/auth.py` | three cookies, one shared promise | request, refresh, retry, redirect, login, logout | several requests refused at once, late answers after a logout, cookies the script cannot clear |
| **Pages of the console** `frontend/app/(dashboard)`, `Topbar.tsx` | a query cache shared by the pages, copies in their own state, what the browser saved | fetch, change, invalidate, poll, send | refetches that join earlier ones, answers out of order, state that outlives a page |
| API, contract and plan services | core tables | create, upload, sync | check-then-act on quotas and unique rows |
| API test executor (Rust) | none | execute | timeouts only |
| TUI manager (Go), dbmanage, DataGen | processes; schemas; files | start/stop | start/stop races |

How they interact. Callers of the ingest service (HTTP handlers and poll
runners) share the buffer; the buffer writes each batch to the raw Kafka topic
and, if configured, to Timescale. The inference worker and the control plane's
tracking subscriber read that topic in consumer groups of their own; the
inference worker writes telemetry and predictions and produces alerts, which the
alert subscriber turns into notifications. The tracking policy switches
`monitoring_enabled` of an endpoint off; the poller reads that flag at its next
sync. Uploads in the control plane enqueue jobs that its own worker task runs.
The console talks to the control plane only. Its pages share one session and one
React Query cache; the top bar polls the notifications that the alert subscriber
writes. An owner rotates the ingest key on the settings page: the control plane
stores the hash, and the ingest service reads it, and caches it for a TTL, when
the next event arrives.

What makes each modelled part correct:

* *buffer*: a call is all-or-nothing; nobody blocks in `TryEnqueue`; memory is
  bounded; an event is settled exactly once and in order; `Stop` drains.
* *poller*: one live runner per target; the running set converges to the wanted
  one; every cancelled runner ends; a stale report does no lasting harm.
* *ingest service*: whatever was accepted is settled at exit; the process ends.
* *job queue*: one runner per job; retries are bounded; committed work is not
  repeated; a saved spec's job settles unless a named exception applies.
* *inference worker*: a message committed as handled has all its effects; the
  committed offset passes nothing untried and does not go back; dead letters
  come only after the retries; a partition is never held up.
* *alert subscriber*: the committed offset passes no alert that was not tried.
* *tracking policy*: an endpoint that stays out of order ends up paused, however
  its writers overwrite each other's counts.
* *ingest key*: a rotation takes effect within the TTL; a page shows the key that
  works, not an earlier one of its own.
* *session*: one refresh at a time; the CSRF header matches the cookie it travels
  with; a logout is final; no request goes round in circles.
* *pages*: a page shows what its own operations did; changes do not undo each
  other; the top bar and the predictions converge; a filter shows what it
  selects; header rows can be told apart; a counter stops at its number.

## 2. The modules

| Module | Models | Uses |
|---|---|---|
| `EventDelivery` | what the buffer promises: events queued once and settled once, all-or-nothing answers, a stop that ends empty | |
| `Batcher` | `batcher.go`, one action per channel or I/O operation | `EventDelivery` (refinement) |
| `BatcherProofs` | types, the lock, bounds, conservation, the drained stop; no event is held or settled twice; the sinks agree; the order of events; `Batcher` implements `EventDelivery`; a measure of the steps left | `Batcher`, `TLAPS` |
| `Poller`, `PollerProofs` | `poller.go` and the sync loop of `main.go` | |
| `IngestService` | `main.go`: handlers, runners, buffer and shutdown together | `Batcher`, `Poller` as instances |
| `ServiceProofs` | the service runs the buffer and the poller, and keeps what is proved of them; what its exit and its shutdown keep | `IngestService`; `BatcherProofs`, `PollerProofs` as instances |
| `JobQueue`, `JobQueueProofs` | `job_service.py`, `job_worker.py`, job routes | |
| `InferenceWorker`, `InferenceProofs` | `inference_worker.py`, `consumer.py` | |
| `AlertSubscriber` | `alert_subscriber.py` | |
| `TrackingPolicy` | `telemetry_tracking_subscriber.py`, `execute_test`, `update_endpoint`: the writers of one row | |
| `IngestKey` | settings page, `ingest_key_service.py` and `validator.go` together | |
| `Session` | `api-client.ts`, `proxy.ts`, login, logout, auth routes | |
| `Catalogue` | `apis/page.tsx`, `apis/[domainId]/page.tsx`, the queries of the tester, `query-provider.tsx` | |
| `Account` | `settings/page.tsx`, `profile/page.tsx` | |
| `TopBar` | the notifications of `Topbar.tsx` and their routes | |
| `Insights` | `predictions/page.tsx`, `telemetry/page.tsx` | |
| `Tester` | `testing/page.tsx` | |
| `Dashboard` | `useCountUp`, the queries and the health badge of `dashboard/page.tsx` | |
| `Frame` | the frame around the pages: `Sidebar.tsx`, `DashboardLayout.tsx`, `Breadcrumb.tsx`, the rest of `Topbar.tsx`, the links of the pages | |
| `Console` | what users of the console do, side by side: ingest key, alerts, tester, catalogue, account, dashboard and frame | `IngestKey`; the others as instances |
| `ConsoleProofs` | the ingest key and the alerts | `Console`, `TLAPS` |
| `PagesProofs` | the dashboard, the catalogue, the account and the tester | `Console`, `TLAPS` |
| `Shell` | what goes on by itself, side by side: session, top bar, insights and tracking policy | `Session`; the others as instances |
| `ShellProofs` | the session, the pages that only read, and the menu of the top bar | `Shell`, `TLAPS` |
| `MC...` | constants and, where a system may stop, its termination | the module of that name |

`Shell` and `Console` put modules side by side that share no state. The
variable `part` says which of them a behaviour is about; the others rest in their
initial state or at 0, so the state spaces add up instead of multiplying, and a
property of a part speaks only of the behaviours of that part. Some parts of
`Console` look at the same module from another page (`domains` and `domain` at
`Catalogue`, `team` and `person` at `Account`) or with other data (`counts` and
`health` at `Dashboard`); the proofs use no such restriction but the part itself.

The `MC` modules of the services add a `Terminated` step, a stutter in the states
where the system may really stop, so that deadlock checking stays on; the parts
of `Shell` never stop. In the run of `Console` the user may do no more than the bounds
allow and then nothing is left to happen, so that run does not check deadlock.
Operators whose comment begins with "Slip:" are not part of a specification:
they are the plausible programming mistakes that `PROJECT.json` puts in the
place of the operator below them, to show that the properties can fail.

### Batcher

`eventCh`, `closed`, `flushCh`, `flushClosed` are the two channels; `mutex` is
`enqueueMu`; `call[c]` and `sent[c]` are the local state of `TryEnqueue`;
`collector`, `batch`, `out` belong to `runCollector`; `worker[w]`, `held[w]` to
`runPublisher`. `acked`, `failed`, `stored` record what the outside saw. A
goroutine is uninterrupted between two operations on a channel, the lock or the
network, so each action is one such operation with the code behind it: the
capacity check with the lock, one action per send, the receive with the append
and the decision to flush, the send to `flushCh`, the publish, the write. A
send on the closed channel is `EnqueuePanic`; the deferred `Unlock` runs and the
events already sent stay.

An event is `<<call, number>>`. `PublishBatch` succeeds or fails (a lost
acknowledgement is a failure: the code treats it as one); `WriteBatch` stores
its whole batch or nothing, since it is one transaction, and either way the
batch is done. `flushInterval` is abstracted: the ticker may fire whenever the
collector is in its select, and a tick on an empty batch, which does nothing, is
left out.

### Poller

A target is a key and a configuration, the latter standing for
`fingerprintTarget`. Runners are numbered as they start. `ReadKeys`,
`RemoveTarget`, `AddOrUpdateTarget` are separate actions, because `Reconcile`
takes `p.mu` once for each. A runner that is cancelled in its delay may still
wake, for Go's select picks any ready case (and the delay may be zero). `Report`
writes into whatever runner the map holds for the key, as `runTarget` does;
`reporter` keeps who wrote. `ListOk` fails under a cancelled context, but what
it had read before the cancellation is still reconciled. Two details are not
modelled: a static path without a leading slash, whose key differs between
`mergeTargets` and `Reconcile`, and the content of an event.

### IngestService

The two modules are instantiated, and their variables shared by name. A request
is one `TryEnqueue` call, and so is each poll of a runner; `main` walks through
`Shutdown` (which may time out), `Wait`, `Stop`, return. A panic of a handler is
recovered by `RecoverMiddleware`, one of a runner ends the process
(`main = "crashed"`).

### JobQueue

One action per transaction: that is the grain at which PostgreSQL interleaves
them, and `FOR UPDATE SKIP LOCKED` makes the claim one. `due` is the claim query:
the pending rows whose `run_at` has passed, in that order. A worker claims the first
of all, an HTTP client the first of its organisation (`ClaimNext(j, S)`). `job[w]` and `seen[w]`
are the `Job` object of a worker's session. The worker handles a job without an
await, so at most one job is with a worker at any time. A database error while a
job is handled breaks the session; the except clause runs into the same session
and the exception ends the task for good, which is `WorkerDies`. `taken` and
`stray` are history: a *stray* mark is an HTTP complete or fail of a job that the
HTTP side had not claimed. The code allows it, and the properties except it.

### InferenceWorker

`Kind[m]` says what a message holds, which decides the path through `_handle_message`;
`Alerts[m]` how many of its rows may be risky. How many are, `risky`, each try finds
anew: the feature windows keep what an earlier try put in and drop events that come
too late (`feature_engineering.py:321`). `missing` holds the alerts that have not
arrived, of the try at hand and of those that handled a message; a try that is given
up (`GiveUpTry`) is owed nothing. `predicted` means a prediction for each feature row
there was, maybe none. The steps of `_handle_message` are the values of `pc`. A call
that is retried is one step with one outcome; `Raise` is the outcome "failed in the
end", where a write or commit may have taken effect without its answer. Alerts wait in
`outbox` until the producer is polled and the callback runs (`OnAlertDelivery`);
`errors` is the list that callbacks and failed produces share across messages.
`CountFailure` is `_handle_processing_failure` below the limit: it returns, and the
consumer is *not* moved back. `Assign` is the broker's part of a rebalance or start:
continue at the committed offset or, with none, at the end of the topic.

### AlertSubscriber

An alert is its offset. `Dispatch` is `_dispatch` with its insert, which may fail
and is then logged (`dropped`); `Commit` follows in a step of its own, so a crash
in between makes the alert come again. An exception of the commit ends the thread
for good (`thread = "died"`), the process goes on. Without a committed offset a
start begins at the end of the topic: what was raised before is `unseen`.

### TrackingPolicy

`row` is the endpoint's `monitoring_enabled`, `consecutive_error_count` and
`auto_paused`. The three sessions that write it, of the subscriber, of a test and
of the user, read it in one step and write in another, and SQLAlchemy writes only
the columns that were changed, so each session keeps what it saw and what it made
of it, and `Written` overwrites column by column. Between the two steps of a test
lies the call of the executor. A batch in the topic is the sequence of outcomes of
one message; the subscriber commits the row, then the offset, and a crash in
between makes it count the batch again. `Publish` is the poller, which works only
while the row says so; later events of a paused endpoint are bounded apart.

### IngestKey

A key is the number of the rotation that made it and stands for its hash.
`rotate_ingest_key` is read, commit and answer in three steps, `ValidateIngestKey`
takes the time, looks into the cache, queries, stores and compares, so lookups of
several requests overlap, with each other and with a rotation. The clock is the
ingest service's; the organisation of a key does not matter to the properties.

### Session

The jar holds `access`, `refresh` and the number of `csrf`. A request keeps the
header and the cookie it left with (`header`, `sentWith`), since both may be
replaced while it is on its way. `RefreshAuth` joins the call in flight
(`promise`); `carried` says whether that call took the refresh cookie along.
`tries` are the three delays of `refreshAuthWithRetry`. An answer that sets or
removes cookies does so when it arrives. `leaving` is `window.location.href` before
the browser follows it, where `proxy.ts` decides again. `member` is the
membership on the server: a refresh of a user who lost it fails with a 500.

### Catalogue

The cache is per query key: `data`, `fetch` with the answer on its way, `invalid`.
`invalidateQueries` starts over what is in flight, and an operation ends when the
refetch it awaits has arrived. Most query functions make one request (`Answer`). The
tester's makes one for the APIs and then one for the endpoints of each
(`AnswerEndpoints`), so its parts are read at different moments, and an error of the
latter shows an API without endpoints in a query that succeeds
(`testing/page.tsx:277`). A page invalidates its own key and no other;
`elsewhere` holds the keys that an operation on another key made wrong. Import,
tracking, delete with its cascade and the dialogs that must not close with an
operation under way are operations of the two pages.

### Account

Both pages copy what their query gives into state of their own (`shown`) in an
effect that runs when the data differ, and change that copy, not the cache, when a
request succeeds. A query function makes its requests one after the other, so an
answer grows in parts (`Got`). `doubtful` are the items of which nothing certain can be said:
overlapping changes of one item, a lost answer, data read too early.

### TopBar, Insights, Tester, Dashboard, Frame

`TopBar`: a load is served at one moment and arrives at a later one; so is a mark,
which changes the list shown by then. `Insights`: predictions are grouped and filtered
by operators (`Group`, `Filtered`, `View`) and refetched by `Tick`; the route answers
with the newest `ListLimit` (`Newest`), and a failed refetch replaces the page.
`Tester`: the form is filled from defaults, link and saved state in that order; a
header row is its id. `Dashboard`: the value of a counter moves by frames from where
an animation began to its target; a target that changes cancels the frame. The health
badge is computed from the metrics at once. `Frame`: a path is a sequence of segments,
of which the entries, links, crumbs and the search field make the next one; the
browser keeps the pages before. What the frame keeps (search text, sheet, collapsed
bar, identity) outlives a change of page and is lost when the dashboard is left.
Nothing is claimed of it: it says from where to where the other pages' behaviours can
go on, and its identity is asked for once.

## 3. The runs

| Run | Instance | What it shows |
|---|---|---|
| `batcher` | calls of 2, 1 and 0 events, capacity 2, batches of 2, `flushCh` of 1, 2 publishers, with Timescale | `SendNeverBlocks`, `AllOrNothing`, `SinksAgree`, `OrderKept`, `StopDrains`; `StopCompletes`, `EventsSettle`; `ImplementsDelivery` |
| `poller` | a static and a database target, 2 configurations, 3 runners, 2 edits | `OneRunnerPerTarget`, `StaleReportIsLast`; `RunnersEnd`, `Converges` |
| `ingest_service` | one 2-event request, one target, one runner that polls once, capacity 2, batches of 1 | `ExitSettles`; `QuietStopIsSafe`, `ShutdownEnds` |
| `job_queue` | a good and a bad job of two organisations, 2 workers, 2 attempts, 1 fault | `OneRunnerPerJob`, `RetriesBounded`, `SyncedIsFinal`; `SpecsSettle` |
| `inference_worker` | messages normal (up to 2 alerts), invalid, normal (up to 1 alert), 404; 1 retry, 3 faults | `HandledIsComplete`, `CrashLosesNothing`, `DeadLetterAfterRetries`; `CommitsAdvance`, `MessagesEnd` |
| `shell` | session: a poll and the logout, 3 tokens; top bar: 1 of 2 notifications, 2 loads, 1 mark in flight, 2 marks, 1 failure; insights: 2 ranges, 3 predictions in lists of 2, 1 failure; tracking: threshold 2, 1 message waiting, 1 test, 1 edit, 1 fault, messages ok, fail, ok-fail | `OneRefresh`, `CsrfMatches`, `LogoutSticks`, `ShowsTheSelection`; `RequestsSettle`, `ShowsNewest`, `AutoRefreshRecovers`, `FailingIsPaused` |
| `console` | key: 1 page, 2 callers, TTL 1, 2 rotations; 3 alerts and 3 starts; tester: history of 2, 3 sends, 3 rows; catalogue: 1 API with 1 endpoint, 2 operations on the list or 1 beside the tester, and 2 on a domain's page; account: 2 members, and the profile on both pages, 2 requests; dashboard: 2 APIs with quiet metrics, and 3 metrics without APIs; frame: 1 domain, 3 texts, 1 page back, 1 change of a name | `VerdictIsCurrent`, `ShownKeyIsCurrent`, `AlertsAreNotSkipped`, `RowIdsUnique`, `HistoryIsRecent`, `ShowsOwnWrites`, `ShowsWhatIsStored`, `CountSettles` |
| `batcher_at_least_once` | as `batcher` | violated: README's "at-least-once" |
| `graceful_shutdown` | as `ingest_service` | violated: README's "Graceful shutdown" |
| `job_retry` | as `job_queue` | violated: the design document's "retry / dead-letter via status" |
| `failed_is_retried` | as `inference_worker` | violated: the settings' failure handling |
| `redirect` | the session of `shell` | violated: the client's "redirected to login after cookies are cleared" |

**Why the bounds are enough.** In `batcher` the two non-empty calls do not fit
together, so a refusal, a wait for the lock and a panic all occur; `FlushCap = 1` with
two publishers fills `flushCh`; one batch is full and one partial. Batches are
published by two workers at once, in either order. In `poller` three runners are a
static one, a database one and its replacement; two edits change a target during a
sync and between two. The bound on starts would stop `StartTarget` only after three
starts, which two edits cannot exceed. In `ingest_service` the single request is cut
in two by the closing channel, and the single runner is the one that the late sync
starts. In `job_queue` `MaxAttempts` is 2 instead of 5: the first failure backs off,
the second gives up; with an organisation for each job, an HTTP claim may pass over
the first due row; one fault can be the crash, the database error or the lost upload,
at any point. In `inference_worker` three faults allow a failure, a restart and a
second failure (which is what a dead letter takes with one retry), or any three
others. In `shell` two requests are enough to share a refresh and for one of them to
be the logout; three tokens tell the cookie of a request, the one before and the one
after apart. Two loads overtake each other and the mark between them; with a limit of
1 and two rows the list moves on. Three predictions make two groups, one of them
mixed, and a list of two drops the first. With a threshold of 2 the test, the
subscriber and a repeated message can each supply the last failure and the message
"ok-fail" takes the count to 0 and back within one session. In `console` two callers
are a slow lookup and a newer one, the clock passes the TTL after a rotation; three
sends overflow a history of two; two operations overlap in every order, only one of
them once the tester is open, of which nothing is claimed and which invalidates no
other query; the third row is one restored. Three starts and three alerts put an alert
before, between and after the starts. Each bound is a constant, named in a guard.

**Fairness.** The goroutines, tasks and threads are weakly fair: the Go scheduler
and the event loop run whoever can run, timers fire, and every network call has a
deadline (10 s `pubCtx`, the request timeout of a target, the 15 s of `Shutdown`,
the alert delivery timeout). Two cases need more or get less. `ListOk` is strongly fair: a sync that
is repeated for ever eventually reads the database. Nothing is assumed of those
who owe nothing: users, HTTP clients, the restart of a control-plane process, and
the broker's delivery reports. A stopped inference worker is started again, which
its supervisor does. In the browser, requests are answered or fail, delays end and
a redirect is followed; the interval of the top bar fires; that of the predictions too,
and there a fetch is answered and arrives *strongly* fairly: `Tick` restarts a
fetch in flight every 30 s, and not every answer is later than that. In
`TrackingPolicy` the poller polls while the row is monitored, the subscriber, a test
under way and an edit under way go on, and the control plane is restarted; nobody
is obliged to begin a test or an edit.

**Exceptions inside properties.** `SpecsSettle` names what may keep a job from
settling: no job was enqueued, an orphaned running row, a stray mark, no worker
left. Each is reachable, and the first two are findings or hazards of their own.
`CrashLosesNothing` excepts messages that failed (see the finding) and those
jumped over before the group's first commit. `HandledIsComplete` speaks of the alerts
of the try that handled the message: those of an earlier try may have been others, and
may be lost. `QuietStopIsSafe` says exactly
when a shutdown cannot panic: no sync past its listing when `main` comes to `Wait`.
`AlertsAreNotSkipped` excepts inserts that failed and what was raised before the
first commit. `LogoutSticks` speaks of a logout that was answered with no refresh in
flight (`out`): one that overlaps a refresh may lose to it. `ShowsOwnWrites` speaks
of the keys that operations invalidate (`OwnKeys`), and not of the tester's, whose
data only age and may lack endpoints after an error; it leaves
out those that an operation on another key changed (`elsewhere`), `ShowsWhatIsStored`
the `doubtful` items, `CountSettles` a counter whose last frame was cancelled by a
target that came back (`lost`), and `FailingIsPaused` a subscriber whose thread has
died. All of these are reachable.

## 4. What is proved

The theorems hold for every value of the constants that satisfies the assumption
of the module, which TLC evaluates too: `BatcherAssumption` (any calls and sizes,
non-empty publishers and batches of at least one, which `NewBatcher` enforces),
`PollerAssumption`, `JobQueueAssumption`, `InferenceWorkerAssumption` (any numbers;
only a normal message has alerts), `SessionAssumption` (the logout is one of the
mutating requests, there is a token), `IngestKeyAssumption` (a TTL of at least one).
`ConsoleAssumption` (a history of at least one entry, the names of the two forms are
no members). `ServiceAssumption` says of the calls the service makes what `BatcherAssumption` and
`PollerAssumption` ask for. `ShellAssumption`: 24h is one of the ranges, and the score of
a prediction is between 0 and 10 tenths, as a probability is (`predictor.py:40`).
`AlertSubscriber`, `Catalogue`, `Dashboard` and `TopBar` assume nothing.
Two theorems, `BufferRunsDown` and `ShutdownGoesOn`, have a hypothesis besides,
`IsFiniteSet(Workers)`: they count the batches that the publishers hold, and
`FLUSH_WORKERS` is a number.

| Theorem | Statement |
|---|---|
| `TypeCorrect` | `Spec => []TypeOK` |
| `CallInvariant` | `Spec => []CallInv` |
| `NeverBlocks` | `Spec => []SendNeverBlocks` |
| `PhaseInvariant` | `Spec => []PhaseInv` |
| `MemoryIsBounded` | `Spec => []MemoryBounded` |
| `ConserveInvariant` | `Spec => []ConserveInv` |
| `StopIsGraceful` | `Spec => []StopDrains` |
| `CallsAreAtomic` | `Spec => []AllOrNothing` |
| `HeldOnce` | `Spec => [](ApartInv /\ OnceInv)` |
| `SinksAreConsistent` | `Spec => []SinksAgree` |
| `OrderIsKept` | `Spec => []OrderKept` |
| `BufferImplementsDelivery` | `Spec => ImplementsDelivery` |
| `BufferRunsDown` | `IsFiniteSet(Workers) => (Spec => [](Work \in Nat) /\ [][RunsDown]_vars /\ []NotStuck)` |
| `PollerInvariant`, `PollerTypes` | `Spec => []IInv`, `Spec => []TypeOK` |
| `TargetHasOneRunner` | `Spec => []OneRunnerPerTarget` |
| `StaleReportsEnd` | `Spec => StaleReportIsLast` |
| `SyncsReconcile` | `Spec => []ReconcileDone` |
| `UnchangedRunsOn` | `Spec => [][UnchangedIsKept]_vars` |
| `CancelledEnd` | `Spec => [][CancelledRunsDown]_vars` |
| `ServiceRunsTheBuffer`, `ServiceRunsThePoller` | `Spec => B!Spec`, `Spec => P!Spec` (of `IngestService`) |
| `AcceptedIsSettled` | `Spec => []ExitSettles` |
| `QuietStopLives` | `Spec => QuietStopIsSafe` |
| `ServiceBufferKeeps` | `Spec =>` what is proved of `Batcher`, of the buffer of the service (`B!`) |
| `ServicePollerKeeps` | `Spec =>` what is proved of `Poller`, of the poller of the service (`P!`) |
| `ShutdownGoesOn` | `IsFiniteSet(Workers) => (Spec => []ShutdownNotStuck /\ [](B!Work \in Nat) /\ [][B!RunsDown]_B!vars)` |
| `QueueInvariant`, `QueueTypes` | `Spec => []IInv`, `Spec => []TypeOK` |
| `JobHasOneRunner` | `Spec => []OneRunnerPerJob` |
| `TriesAreBounded` | `Spec => []RetriesBounded` |
| `SyncHappensOnce` | `Spec => []SyncedIsFinal` |
| `JobsRunDown` | `Spec => []RankBounded /\ [][RunsDown]_vars` |
| `WorkerInvariant`, `WorkerTypes` | `Spec => []IInv`, `Spec => []TypeOK` |
| `HandledLeavesAll` | `Spec => []HandledIsComplete` |
| `CommitFollowsTries` | `Spec => []CrashLosesNothing` |
| `DeadLettersFailed` | `Spec => []DeadLetterAfterRetries` |
| `CommitsOnlyAdvance` | `Spec => CommitsAdvance` |
| `MessagesRunDown` | `Spec => []StepsBounded /\ [][RunsDown]_vars` |
| `ConsoleWorksTheKey` | `ConsoleSpec => Spec` (of `IngestKey`) |
| `NothingBehind` | `ConsoleSpec => [](part = "alerts" => AlertInv)` |
| `NoAlertSkipped` | `ConsoleSpec => []AlertsAreNotSkipped` |
| `ConsoleCountSettles` | `ConsoleSpec => []CountSettles` |
| `ConsoleShowsOwnWrites` | `ConsoleSpec => []ShowsOwnWrites` |
| `ConsoleShowsWhatIsStored` | `ConsoleSpec => []ShowsWhatIsStored` |
| `ConsoleRowIdsUnique` | `ConsoleSpec => []RowIdsUnique` |
| `ConsoleHistoryIsRecent` | `ConsoleSpec => []HistoryIsRecent` |
| `SessionTypes` | `Spec => []TypeOK` |
| `RefreshShared` | `Spec => []OneRefresh` |
| `CsrfKept` | `Spec => []CsrfMatches` |
| `LogoutFinal` | `Spec => []LogoutSticks` |
| `ShellKeepsSession` | `ShellSpec => [](TypeOK /\ OneRefresh /\ CsrfMatches /\ LogoutSticks)` |
| `RequestsRunDown` | `ShellSpec => []RankBounded /\ [][RunsDown]_vars` |
| `SelectionIsShown` | `ShellSpec => []ShowsTheSelection` |
| `MenuRunsDown` | `ShellSpec => [][MenuSettles]_shellVars` |
| `IngestKeyTypes` | `Spec => []TypeOK` |
| `RotationTakesEffect` | `Spec => []VerdictIsCurrent` |
| `ShownKeyCorrect` | `Spec => []ShownKeyIsCurrent` |

The argument. *SendNeverBlocks* is not inductive: that there is a slot now says
nothing of the next send. `CallInv` reserves the space: the holder of the lock
is the one caller that is sending, and what it still has to send fits into
what is free; the collector only makes room. *StopDrains* needs two
invariants. `PhaseInv` says what a stage that is over has left behind: a closing
collector has an empty channel and no batch, a publisher that is done saw
`flushCh` closed and empty, so after `Stop` every place is empty. `ConserveInv`
says that buffer, acknowledged and failed events are together exactly those
sent; with nothing in the buffer, all are settled. *AllOrNothing* reads `ConserveInv` per call,
with `CallInv` giving how many events a call in each state has sent. The lemmas
about `Range` of tails, appends and empty sequences are stated once, at the head
of the module's conservation part. The conjunction of the parts, `IInv`, is the
inductive invariant of `BatcherProofs`.

That an event is never settled twice needs more than conservation, which speaks of
unions of sets. `ApartInv` says that the six places between `eventCh` and the
verdict of a publish share no event, `OnceInv` that none is twice in the channel,
in two batches of `flushCh` or with two publishers. The step that needs an
argument is the send: the new event is fresh because `ConserveInv` equates what is
held or settled with what was sent before. `SinkInv` adds that a publisher that
writes to Timescale holds acknowledged events only, from which *SinksAgree*.

*OrderKept* is about the pipe: `flushCh`, the batch before it, the batch being filled
and `eventCh`, read as one sequence. `OrderInv` is the property, stated with the
places of that pipe, and a strengthening: behind an event of the call that is sending
there are only events of that call (`EndsIn`), for it holds the lock. The collector
and the publishers move events along the pipe or take the first batch out: each
such step maps the places of the new pipe into those of the old one, keeping their order
(`OrderStays`). A send adds one place at the end, and is the only step that adds to what is
to be kept; that the event is the next one of its call comes from `ConserveInv`.

The refinement reads an event's fate off these invariants: it is queued exactly
if it was sent and is not settled (`FatesAreStandings`), so the collector's moves
between channels and batches change nothing that the promise sees (`FatesStay`).
A send is `Admit`, the end of a call its answer, a publish `Settle` of the whole
batch (or a stutter, should the batch be empty), `StopClose` and `StopReturn` the two
ends of a stop; the latter needs `StopDrains` for "nothing is queued".

*Poller.* `MapInv` and `OwnInv` say the two halves of *OneRunnerPerTarget*: what the
map holds is started and not cancelled, and every such runner is in the map. They
survive because `RemoveTarget` and `AddOrUpdateTarget` cancel the old runner and
replace it in one critical section. `TodoInv` keeps a sync's list in step with the
map and the wanted targets, `EndInv` says that a runner ends only because it was
cancelled or the service stops; *StaleReportIsLast* follows from both. `SyncInv`
says how far a sync has come: it removes what is not wanted and nothing else, and of
the keys it has visited the running targets match the list. Hence *SyncsReconcile*
and *UnchangedRunsOn*, though runners end and rows change between the steps of a sync.

*Ingest service.* The theorems about the components carry over: each step of the service
is one of the buffer, or leaves it alone, and the same of the poller. Only one step needs
an invariant for that: a runner's `TryEnqueue` is a call of the buffer because a
runner that polls has counted its poll (`CallerInv`). *ExitSettles* then follows
from `MainInv`, by which `main` exits behind `Stop` only, from `StopDrains`, and from
`CallInv`, by which an accepted call has sent all its events. *QuietStopIsSafe* is a
property of what follows a state, so it needs a predicate that, once true, stays true:
`Quiet` holds when `main` comes to `Wait` with no sync past its listing. A listing
fails under a cancelled context, so no runner is started any more; while `main` waits,
the channel is open, and behind `Wait` every started runner is done. `B!TypeOK` and
`P!TypeOK` come from the components' theorems. `ServiceBufferKeeps` and
`ServicePollerKeeps` state the components' promises for the service itself, whose
own run checks them for one size of the buffer only.

*Job queue.* The three properties are inductive only together: `DueInv` (the due
rows are pending, each once) makes a claim exclusive, `RowInv` keeps unborn jobs
out of every place, `WorkInv` ties a worker's state to its job, `TakenInv` says
what an HTTP client holds, and `CountInv` that the attempt under way is counted
and allowed, so that a worker's decision on the attempts it read is still right
when it marks the row. Stray marks are excepted everywhere.

*Inference worker.* `PositionInv` says that everything up to the position was tried,
but for the message at hand, and that the committed offset is not ahead of a
running process: from it follow *CrashLosesNothing* and *CommitsAdvance*.
`RetryInv` compares the counts of a process with the failures of all. `ProgressInv`
says, per step of `_handle_message`, what of the message at hand is there;
`OutboxInv` that an alert in the outbox is of a try that failed or of the one at hand,
and that each alert the one at hand produced has arrived, has a callback to come, or has
left an error behind, whichever message the callbacks in between belonged to. An
empty outbox without errors therefore means that all arrived, which is what
`AlertsConfirmed` relies on. `HandledInv` says that what is handled is committed and
that the message at hand is not handled, `MissingInv` that only the try at hand misses
alerts: whatever it finds risky, then, no handled message is affected.

*Alert subscriber.* `NothingIsBehind`: neither the committed offset nor the position of a
running thread has an unsettled alert behind it, and neither is ahead of the topic,
so an alert raised later is not behind them.

*Session.* `SharedInv`: there is a call in flight exactly while there is the promise,
whoever waits for a refresh has it, and only a call in flight carries the cookie.
`BackoffInv`: a delay follows only the first two tries. `GoneInv`: after the logout
there is no cookie and no call under way that carries one, which is what could
bring the session back.

*Insights.* `ViewInv`: what is in the cache under a key, and what is on its way there, is
what the key asks for, since a fetch takes its window from the choice that is in the
key. The other half of *ShowsTheSelection* is about the page's functions alone: a
group has a greatest score (`GreatestScore`), which lies in one band, so the filters
divide the groups, and the events under them, and cardinalities add up (`ThreeParts`).

*Ingest key.* `StaleInv`: a hash that is not the current one was read before the last
rotation, by a request that began before it, so what it caches is over a TTL after
the rotation, whatever order the stores come in. `WaitInv`: a page waits for one
rotation at a time, those it was told of are over, and while it waits for one that
is committed, the current key is none it was told of.

*The console.* Each part of `Console` has an invariant about its own variables, and
a step of the console is one of the part or leaves it alone, so a part's invariant
`Inv` gives `ConsoleSpec => [](part = "..." => Inv)` for any number of everything.

*Dashboard.* `Settled`: a counter without a frame, and not `lost`, shows its target
*and* would start its next animation there. The second half is the strengthening:
without it the early return of the effect could leave a number in between. With
reduced motion it is kept for all counters, which matters when motion is allowed
again.

*Catalogue.* `DataIsCurrent` is the property made inductive by `Unheard`: data that
nobody refetches are what the server has, unless an operation was done and its
answer has not arrived. `ReadIsCurrent` says the same of an answer on its way. Both
speak of `OwnKeys`, whose answers are read at one moment. The
argument is that `Invalidate` marks the data and starts over what was in flight, so
that no answer older than the operation can arrive after it.

*Account.* `ShownInv`: of an item that is not `doubtful` and whose change the page has
heard of, what is shown is stored if the query is valid, and of an answer on its way
and what is shown one is. `RequestInv` ties a request to the page and says what it
`Carries`: what the page is about to be told is stored. `OneSave` is what the disabled
save buttons are for; two role changes of different members are independent because
`setMembers` takes the state it finds. This invariant was checked with TLC on more
than the run's instance (three requests for one member) before it was proved.

*Tester.* `RowInv`: all ids are below the counter, which `RestoreRows` lifts above the
largest id it took over. `HistoryInv`: the history is the newest of the last ones,
in order. Since the code sees only the shortened list and not what was sent, the
invariant is stated with the positions of the entries among the requests (`Places`):
either a request that no later one repeats is in the history, or the history is full
of newer ones. The step, `Remember`, first cuts, then takes the repetition out, then
cuts again; `RecentIsNewest` turns positions into the ranks that the property counts.
The lemmas about `Filtered` (what `Array.filter` keeps, and where) serve both.

**What the liveness rests on.** Liveness itself stays with TLC, but the argument
for it has two parts, and the provers can check the first: a measure that every step
lowers, or a list of who can move. (The second, that whoever can move does so at
last, is the fairness.)

| Liveness, checked by TLC | Safety half, proved |
|---|---|
| `EventsSettle`, `StopCompletes` | `BufferRunsDown`: the goroutines have `Work` steps before them, a send adds six, nobody adds any once `eventCh` is closed, and while an event is in the buffer, or `Stop` waits, a goroutine can move |
| `ShutdownEnds` | `ShutdownGoesOn`: the same of the service; while `main` waits for the runners, each can go on, and none waits for room or finds the channel closed |
| `RunnersEnd` | `CancelledEnd`: three steps at most |
| `Converges` | `SyncsReconcile`, `UnchangedRunsOn`: each sync reaches its list and disturbs no other target |
| `SpecsSettle` | `JobsRunDown`: a row changes at most `3 * MaxAttempts + 3` times |
| `MessagesEnd` | `MessagesRunDown`: at most `Alerts + 9` steps for a message |
| `RequestsSettle` | `RequestsRunDown`: at most eight moves of a request |
| `ShowsNewest` | `MenuRunsDown`: while the server keeps what it has, no further answer goes stale, and without stale answers, marks under way and failures the menu changes only to the newest list |

The exceptions are those of the liveness: stray marks over HTTP, a broker that is down,
answers that fail. `JobsRunDown` bounds what is done to a row, and so says that nothing
starts a job over; that a `running` row whose process died stays as it is, which is
finding 3, does not contradict it.

**Only model-checked.** Every invariant, action property and refinement that the passing runs
check is proved. What is not is the liveness: `StopCompletes`, `EventsSettle`,
`RunnersEnd`, `Converges`, `ShutdownEnds`, `SpecsSettle`, `MessagesEnd`,
`RequestsSettle`, `ShowsNewest`, `AutoRefreshRecovers`, `FailingIsPaused`. TLAPS has
no support here for fairness and `ENABLED`. Two of them have no safety half
either. `AutoRefreshRecovers` rests on the interval and on the strong fairness of the
answers: `Tick` starts a fetch over for ever, so no measure falls.
`FailingIsPaused` rests on the count of failures in a row, which
`TrackingPolicy` takes from a message by a fold over its outcomes: what that is for
every message needs induction over data. So there is no theorem about `TrackingPolicy`,
nor one about `Frame`, of which no run checks a property. `TypeOK` and
`MemoryBounded` of `Batcher` and `TypeOK` of the other modules with proofs are left
to the theorems where the runs do not list them. Facts about recursive definitions
cannot be proved by induction with the provers used, so no module that is proved
about contains a RECURSIVE operator.

## 5. What the violated runs say

1. A batch whose publish fails is dropped, though its call got a 202 and the
   README promises at-least-once (`batcher.go:164`).
2. A sync that outlives the signal can start a runner behind `Wait`; its send on
   the closed channel panics and ends the process with events pending
   (`main.go:164`). It takes a sync that listed its targets before the signal.
3. A job whose process dies while it runs stays `running` for ever
   (`job_service.py:49`).
4. A failed message is neither retried nor dead-lettered when another message
   follows: the next commit covers it (`inference_worker.py:216`).
5. A user whose membership was removed is sent to the login page and back, for ever:
   the cookies are HttpOnly, so the client cannot clear them (`api-client.ts:214`),
   `proxy.ts` takes the refresh cookie for a session, and the refresh itself ends
   in an unhandled `ValueError` (`routers/auth.py:103`).

## 6. Plan

What is left, in the order of its worth:

1. `Pipeline`: buffer, topic and inference worker together; how often an event is
   stored when both services write telemetry (there is no unique key,
   `timescale_writer.py:259`).
2. `RateLimiter` (a limiter dropped while a request holds it, `middleware.go:61`) and
   `LiveTracker`.
3. `ContractSync` (`contract_service.py:59`) and `ApiQuota` (`api_service.py:104`):
   check-then-act in the control plane.
4. `FeatureWindow`, `Backoff`: pure algorithms against reference definitions.
5. The end of the control plane, where a worker task that died re-raises its
   exception (`main.py:47`), and `ServiceManager` of the TUI (`manager.go:155`).

Theorems to come: the safety of what is added above, and what can be said of
`TrackingPolicy` for messages of one event.

Hazards that no property covers are listed in `PROJECT.json` with the reason.

## 7. What is not modelled

The remaining read-side routes, schemas, settings, logging, metrics and the swagger
page have no control of their own. OAuth with its state cookie and the contents of
tokens are left out of the session, the plan quota and the Timescale clean-up out of
the catalogue. That the tester can show an API without its endpoints is modelled, but nothing
is claimed of what it shows. `TrackingPolicy` leaves out the matching of urls to endpoints, the
second test route, and an endpoint that is deleted meanwhile. Of the pages, the
wording, the form fields, search and sorting of the tables, the synthetic
trends and averages and the clipboard are left out; the public pages and the UI kit
keep no state that anything depends on. The predictor and
explainer are numeric code around a trained model, the executor is stateless,
DataGen and the notebook run offline, the migrations run by hand. SQL, JSON,
compression and HTTP are replaced by their outcomes. `PROJECT.json` names the
reason for each component.
