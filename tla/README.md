# ACMS in TLA+

ACMS is a trading platform in three languages: a Rust core (order execution,
risk checks, market data ingestion), Go services (exchange connector, API
gateway, monitor) and a Python package (orchestrator, exchange adapters, REST
API, Redis, Kafka, database, AI training and serving). This directory holds
TLA+ models of the parts whose correctness depends on the order of events, the
configurations TLC checks them with, and proofs for TLAPS. Paths below are
relative to the root of the repository.

Reading order: the comment at the head of each module says which code it
models and what a step is; `PROJECT.json` maps each definition to source lines.

| module | models | checked by | proved in |
|---|---|---|---|
| `PositionTracker` | `PositionTracker::apply_fill` as a pure function | `engine_races` | lemmas of `ExecutionEngineProofs` |
| `ExecutionEngine` | the Rust execution engine under concurrent calls | `engine_*` | `ExecutionEngineProofs` |
| `AtomicEngine` | what the engine promises its callers | `engine_races` (refinement) | `ExecutionEngineProofs` |
| `GatewayBreaker` | the Go gateway's circuit breaker and its handlers | `network`, `breaker_unnoticed` | `GatewayBreakerProofs` |
| `RateLimiter` | the lock-free order limiter of the Rust risk hot path | `limiter_races` | `RateLimiterProofs` |
| `Orchestrator` | the life cycle of the Python orchestrator | `services`, `orchestrator_stopped` | `OrchestratorProofs` |
| `Connector` | the Go exchange connector: connections, their loops, shutdown | `network` | `FeedsProofs` |
| `Collector` | the Rust market data collector: start, stop, connection loops | `network` | `FeedsProofs` |
| `ModelServer` | life cycle of the inference server | `services` | `ServicesProofs` |
| `BatchInference` | batched predictions and the futures of their callers | `services` | `ServicesProofs` |
| `ABTesting` | A/B tests of model versions and their promotion | `services` | `ServicesProofs` |
| `TrainingConsumer` | training data from Kafka, its buffer, commits, crashes | `services`, `consumer_commits` | `ServicesProofs` |
| `GPUJobQueue` | training jobs on GPUs | `services` | `ServicesProofs` |
| `PredictionServing` | `ModelServer.predict` behind its cache | `serving` | `ServingProofs` |
| `ModelRouting` | the model registry of the AI orchestrator and its cache | `serving`, `serving_stale` | `ServingProofs` |
| `ModelTraining` | the trainer: epochs, early stopping, checkpoints, resumption | `learning*` | `LearningProofs` |
| `OnlineLearning` | the online learner: updates and rollback | `learning` | `LearningProofs` |

`MCExecutionEngine` and `MCRateLimiter` give the constants of one module their values
for TLC. `MCServices`, `MCServing`, `MCLearning` and `MCNetwork` each hold several
components that do not touch one another's state: a variable `part`, chosen once, says
which of them runs, so one run explores the sum of their state spaces and not the
product. The runs that end with a counterexample check a component's own module.

## 1. Inventory

What each component keeps, does and shares, what is hard about it, and what
makes it correct.

### Rust core (`rust/src`)

**Execution engine** (`execution/engine.rs`), modelled. State: orders (a
DashMap), `open_order_ids`, positions, fills and reports, each behind its own
RwLock. Operations: `submit_order`, `process_fill`, `cancel_order` and queries.
Called by Python through the PyO3 bridge, from any thread. Hard: every call takes
several locks one after the other; fills come late, in parts, too large and in
any order. Correct if statuses agree with fills, the open list with the
statuses, positions and profit with the fills, and each call looks atomic.

**Risk hot path** (`risk/hot_path.rs`). `RateLimiter` is modelled: two token
buckets in atomics, refilled by whoever comes by. Correct if orders stay within
both limits whatever the threads and the clock do. The checks around it are
not modelled (section 8).

**Collector** (`ingestion/collector.rs`), modelled. One task per exchange and
start, the shutdown flag, cancellation tokens, statuses and a channel of events.
Hard: `start` resets the flag that the tasks of an earlier start have yet to see, and
keeps only the newest token; a status and its event are two steps. Correct if every
cancelled task ends unless the exchange never answers an attempt to connect, and the
last status is the right one.

### Go services (`go`)

**API gateway** (`cmd/gateway`, `internal/middleware`). The circuit breaker per
backend is modelled: state under a mutex, and requests that ask it before and tell
it after a backend call. Hard: answers arrive after the breaker changed state or was
replaced by the admin reset, and some calls are recorded twice or not at all.
Correct if it opens after, and only after, a threshold of failed calls, never gets
stuck, and closes when the backend is back.

**Exchange connector** (`cmd/connector`), modelled. A goroutine per connection
that dials, reads and waits; HTTP handlers and the signal handler connect,
disconnect and shut down. Hard: two mutexes, one of them held through a
handshake; a socket closed by one goroutine while another reads it; entries that
are overwritten. Correct if each socket is closed once and by shutdown at the latest.

### Python package (`python/acms`)

**Orchestrator** (`orchestrator`), modelled. State: `state`, degradation level,
kill switch of the risk engine, exchange, `_task`. Operations: `start`, `stop`,
`pause`, `resume`, kill switch and its reset, and the trading loop that fetches,
checks risk and places orders. Hard: a cycle looks at the state once and then
awaits several times; `start` can be called when a loop still runs; `stop` awaits
in the middle. Correct if a halt holds at once for every loop, if what is paused
or stopped comes to rest, and if `stop` returns.

**Inference server** (`ai/inference/server.py`), modelled in three modules: its
life cycle, `predict` with Redis and a local fallback, and the batch engine.
Hard: versions and the default move while a call awaits Redis; batches are cut
and computed by tasks of their own; `start` awaits while `stop` is called. Correct if
an answer comes from the version asked for and is for the request, as far as the cache
key tells requests apart, every caller gets one while the engine runs, and the loops end.

**A/B tests** (`ai/inference/ab_testing.py`), modelled. Tests, their results, a
periodic check that promotes. Correct if a test whose results lead is decided.

**Model registry and routing** (`ai/integration/orchestrator.py`, `api_routes.py`,
`redis_cache.py`), modelled as far as requests see it. Hard: a version changes
while predictions of the old one are on their way to the cache, and a model answers in
the place of another. Correct if no stale prediction is served afterwards under the
model's own key but those; under the keys of others the code leaves them (section 5).

**Training data** (`ai/integration/kafka_consumer.py`), modelled. A consume loop with
backpressure and manual commits; a buffer flushed by its loop, when full and by
`stop`. Hard: offsets are committed while the messages are in the buffer (section 5);
the consume loop may end by an error with `_running` still set. Correct if one session
hands nothing on twice, what is buffered is flushed, and `stop` returns with an empty
buffer and both loops ended.

**GPU jobs** (`ai/monitoring/gpu_monitor.py`), modelled. Correct if devices list
exactly the jobs that run on them, and a pass leaves no job in the queue that fits where
it leaves room. The queue is strictly by priority: a low job may wait for ever.

**Trainer** (`ai/training/trainer.py`), modelled. Accumulated gradients, early
stopping, checkpoints written in place, resumption. Correct if no epoch is
skipped when a training is resumed, patience is exact, and files hold what their names say.

**Online learner** (`ai/training/online_learning.py`), modelled. Correct if a
rollback restores everything.

The other components, and why they have no module, are in section 8.

### How the parts interact

Market data goes exchange → collector or connector → Kafka → pipeline, training
consumer and strategies; the orchestrator turns signals into orders, asks the risk
engine and calls an exchange adapter; where the Rust core is used, the bridge
calls risk hot path and execution engine, which share nothing but the order.
The gateway stands before the REST API. Of the AI parts, the registry calls the
model runtime that is loaded with a model, the training consumer hands batches
to callbacks, and the trainer leaves files. None of the modelled components calls
into the state of another, so each is specified with its callers as the
environment: threads, requests, messages, or coroutines of the event loop.

## 2. Plan, and what is left of it

Done, in this order: the execution engine with its abstract specification, the
breaker, the limiter, the orchestrator, then serving, services, learning and the two
market data feeds, with proofs of every safety and action property of the passing runs
and of the refinement.

What a later extension would take up: the safety halves of the other liveness properties (as
`HalfOpenAdmits`, `ShutdownLeavesNoReader` and `RequestsAreHeld` are for theirs);
`RedisRateLimiter`, if its window is ever made to end; an abstract connection life cycle
that both feeds implement.

## 3. The models

### ExecutionEngine and AtomicEngine

A thread is in one call at a time. Its steps are the locks the code takes:

| code | actions |
|---|---|
| `submit_order`: insert, then push the id | `SubmitInsert`, `SubmitPush` |
| `process_fill`: order entry, position, fills, open list, reports | `FillUpdate`, `FillPosition`, `FillRecord`, `FillClose`, `FillReport` |
| `cancel_order`: order entry, open list | `CancelMark`, `CancelUnlist` |

`process_fill` and `cancel_order` hold the entry of their order (`DashMap::get_mut`)
throughout; `lock` says so. `submit_order` does not, which is where its races
come from. Decimals are exact rationals. The clients' part is arbitrary: any order
is submitted, filled (in any state, any quantity of `FillQuantities`) and cancelled
at any time; `MaxFills` bounds the fills.

Properties. `StatusMatchesFill`: status and filled quantity tell one story.
`PositionsReconcile`, `PnLReconciles`, `AverageIsVolumeWeighted`: positions,
profit and average price account for every fill, whatever the order in which
threads got to them. `ReportsInOrder`. `ImplementsAtomicEngine`: with the fills and
pushes under way counted in, each call takes effect at one instant, when it gets
hold of its order. `AtomicEngine` has the orders by themselves (`SpecOrders`) and with
the positions (`Spec`). `OpenListCoversActive`, `NoDuplicateOpenIds` and
`FilledIsFinal` are proved and no longer run. The sums in these properties are totals
of two lists: a value of each fill in the history, and one of each thread that is
between the update and the push of its fill.

### GatewayBreaker

Breaker methods run under a mutex and are operators (`Allow`, `RecordSuccess`,
`RecordFailure`). A request is `Forward`, then one of `Answered`, `ServerError`,
`Unreachable` (followed by `RecordUnwritten` in the gateway's handler) or `Aborted`.
The variable `handler`, one of `Handlers` chosen at the start, says which handler a
behaviour uses: `proxyToBackend`, which the gateway does, or `ProxyWithCircuitBreaker`,
which records each call once. `Reset` is the admin endpoint: it replaces the breaker
while requests wait, for the first handler only, as the second keeps the one it was made
with. `failedCalls` is a history variable: the calls that
failed since one succeeded, which the properties compare with what the breaker
counted. Time is counted from the last failure and stops mattering past the
timeout, so the state space is finite without a bound.

### RateLimiter

One step per access to an atomic (`ReadClock`, `LoadTimestamp`, `StampTimestamp`,
`AddTokens`, `TakeSecond`, `TakeMinute`, `Refund`). A `compare_exchange` loop that
retries until it succeeds is one step; the CAS on the refill timestamp, tried once
on a value read earlier, is a step of its own. `ClockMoves` sets the wall clock
forward by a tick or back by any amount. Tokens are counted in fixed-point units,
so fractions refill as in the code. `EndOfMonitoring` is a caller of
`available_tokens`, which refills one bucket and takes nothing.

`NothingLeaks`: no step makes tokens disappear except over the brim of a full
bucket, so a throttled order returns what it took. `WithinLimits`: orders let through
are within both limits, although several threads refill at once.

### Orchestrator

One step runs from one await to the next. `Start`, `StartFails`, `Pause`, `Resume`,
`TriggerKillSwitch` and `ResetKillSwitch` have no await. `stop` is `StopBegin`,
`StopLoopEnded`, `StopEnd`; the last is the end of `exchange.close()`, which may raise and
leave the state as it is. Each loop that `start` created is at one of the awaits
of `_main_loop`: sleep, candles, balance, an order (`Wake`, `Fetched`,
`EquityUpdated`, `OrderPlaced`); `CancelledError` is raised at whichever it is
at. `GoThrough` is the code between two awaits: the strategies that place
nothing, up to the next one that does, or up to the risk check that activates the
circuit breaker. Whether a strategy has an order and whether a loss limit is
exceeded are arbitrary. One simplification: at most one call of `stop` is under
way at a time.

`HaltedSendsNoOrder`: a halt is seen by every cycle under way, in loops `_task`
has forgotten too. `PauseTakesEffect`, `LoopsEnd`, `StopReturns`: liveness.

### Connector and Collector

`Connector`: a connection is an object and its goroutine. The goroutine is at the
head of its loop (`LoopTop`), in the handshake (`Connects`, `ConnectFails`), at the
head of `ReadLoop` (`ReadLoopTop`), in the read (`Receives`, `ReadFails`) or asleep
(`BackoffEnds`). A section under the connection's mutex is one step, but for `Connect`,
which keeps it through the handshake; the service's mutex is held over the steps
`DisconnectExchange` or `Shutdown`, `DisconnectsNext` for each connection, and
`Releases`. `SocketsAreOwned`: an open socket is the one its connection names, and an
idle loop holds none. `ConnectorStops`: shutdown ends every loop it can name;
`ShutdownLeavesNoReader` is its safety half.

`Collector`: `start` and `stop` in the steps their locks make (`Start`, `Spawn`; `Stop`,
`StopCancels`, `StopReports`), and each connection loop from await to await.
A status that was written and its event that was not yet sent are apart (`Writes`,
`Sends`). What waits for the exchange is apart too (`Exchanges`), as nothing makes it
answer. `CancelledLoopsEnd`: a loop whose token is cancelled ends, over a silent socket
too, unless it stays for good in an attempt to connect or to subscribe (`Unanswered`).
`EndedIsDisconnected`: once all loops have ended, status and last event say so.

### ModelServer, BatchInference, ABTesting, TrainingConsumer, GPUJobQueue

Everything in Python runs on one event loop, so a step is what a coroutine does
up to an await that really suspends it; each module's head names those.

- `ModelServer`: several callers of `start` and `stop`. `ServerLoopsEnd`: queue loops
  that `_server_task` has forgotten end by themselves.
- `BatchInference`: `PredictBatch` leaves requests and waits; `Cut` and `Dispatch` are the
  loop, `ProcessBatch` a task. Callers may be cancelled. `PredictionsAligned` says which
  row a request gets, `CallersAnswered` that it gets one, `RequestsAreHeld` that none is
  lost on the way.
- `ABTesting`: the evidence is reduced to who leads and whether it suffices; the
  periodic check is one step. A loop that a second `start` forgot makes one more pass
  after `stop` (`StrayEnds`). `LeadIsDecided`: a lead is acted on, unless an earlier test
  makes the check raise.
- `TrainingConsumer`: one partition, a log of `LogEnd` messages, buffer, three
  flushers, manual commits, errors, crash. `stop` waits for the flush loop it cancelled
  (`FlushLoopEnds`), for the final flush, and for the consume loop (`ConsumeLoopEnds`),
  which may have ended before (`PollRaises`). `FlushedOnce` is about one session, from
  start to the stop or crash that ends it: the next one reads again what was not
  committed, and a forced flush of the one before may still hold that. `ConsumerStops`:
  when `stop` returns, neither loop is left. `StoppedLeavesNothing`, `BufferIsFlushed`.
- `GPUJobQueue`: the monitor's pass is one step, reports and cancellations come
  between. `AssignmentsMatchJobs`; `LeavesNoFitJob`: a pass leaves no job waiting that a
  device it could read has room and a slot for, whatever waits before it.

### PredictionServing and ModelRouting

`PredictionServing`: `Predict` looks the request up (`GetReturns`), executes it and
stores the answer (`SetReturns`); Redis may fail at each. The cache key has a digest of
the input, and `Digest` says which inputs share one: the code hashes the bytes of the
features without their shape and dtype, and sorts a feature dictionary that the model gets
unsorted (`server.py:95`, `:97`, `:793`). `AnswersOwnRequest`: the answer comes from the
version asked for, and is for an input with the digest of the one sent.
`CachesKeepVersions` and `ActiveCountsCalls` are proved and not run.

`ModelRouting`: administrators register, deploy, retire and delete models while
callers are routed, to another model if the one asked for does not serve.
`InvalidatedWhenChanged`: once a deployment or retirement of a model is through, none of
its old predictions is in the cache under its own key, but those that were on their way
there, or whose removal failed. `FallbacksAreDropped`, the same under any key, does not
hold. Neither says anything of the predictions of a record that was deleted or replaced
by another registration: these operations drop nothing.

### ModelTraining and OnlineLearning

`ModelTraining`: a step is a batch, or what `fit` does between two points where a
crash makes a difference. `weights` says which epochs the model has seen and files
hold copies, so `NothingSkipped` can compare them. An epoch counts as seen when its
batches are through, also if NaN gradients kept the optimizer from every step of it.
The scheduler has no state here: `scheduler_state_dict` is saved (`trainer.py:470`) and
never loaded. `BestFileIsBest`, `KeepsNewest`,
`PatienceIsExact`.

`OnlineLearning`: a call is a step. The trigger, the strategy, the loss after
an update (a number or not) and whether it raises are open.
`RolledBackIsRestored`; `CurrentIsTheModels` is proved and not run.

## 4. Runs

| run | what it asks | bounds | states | result |
|---|---|---|---|---|
| `engine_races` | do concurrent calls keep status, position, profit and reports consistent, and look atomic? | 2 threads, a buy of 2 and a sell of 3 in one symbol, 3 fills of 1 or 3 at 2 prices | 485,797 | holds |
| `engine_lost_open` | are all active orders listed as open? | 2 threads, fills of 1 or 2 | | violated |
| `network` | does the breaker open exactly after its threshold, stay usable and recover? are sockets closed once, do loops end, is the last status right? | 3 requests, either handler, threshold 2, 3 half-open successes, timeout 2; 2 connections, 2 streams; 2 starts, 2 stops, 2 attempts | 56,649 | holds |
| `breaker_unnoticed` | does the breaker open behind the gateway's handler? | 3 requests, threshold 2 | | violated |
| `limiter_races` | are the limits kept when threads race and the clock jumps? | 2 threads, 2 orders a second and a minute, clock 0 to 4 | 1,346,015 | holds |
| `orchestrator_stopped` | is nothing sent once stopped? | 2 strategies, 2 starts | | violated |
| `services` | do halts hold, do the services keep their books, answer, pause and stop? | see below | 184,178 | holds |
| `consumer_commits` | is what was committed processed, or on its way? | 4 messages, 2 sessions | | violated |
| `serving` | do answers and caches follow the versions? | 2 clients, 2 versions, 1 cached entry; 2 callers, 2 models of 2 versions, 1 administrator | 2,233,067 | holds |
| `serving_stale` | does a changed model leave no old prediction under any key? | 1 caller for one of 2 models of 2 versions, 1 administrator | | violated |
| `learning` | do crash, resumption, patience and rollback do what they say? | 2 fits of 4 epochs of 3 batches, 2 to a step; 3 updates, 2 checkpoints | 1,640,239 | holds |
| `learning_poisoned` | does a gradient that is not a number cost one step? | 1 fit of 3 epochs | | violated |

Why the bounds are enough to be interesting.

- `engine_races`: two threads suffice for every pair of overlapping calls, on the same
  order or on two; three fills let an order be filled in parts, overfilled, filled
  again after a cancel, and a position opened, added to, closed and flipped.
- `network`: three requests let one call have started before it opened, one while
  half-open and one after it closed; three half-open successes is the code's number,
  threshold 2 stands for 5. With two streams the second connection may be for another
  stream or overwrite the first; three connections exceed ten million states. No symmetry,
  which would be unsound for `Recovers`.
- `limiter_races`: a period is two ticks for the second and eight for the minute:
  there are fractions of a second, whole seconds, more than one, and a minute bucket
  that is empty when the other is not.
- `services`: three starts of the orchestrator, with two strategies, give two orphaned loops
  besides the current one; three starts of the server by two callers, so that one loop is
  forgotten while another is stopped; three requests in batches of two, one of
  them without features; two tests, so that one can block the other; four messages
  of which one is filtered, buffer and backpressure of two, commits every second one
  and two sessions with a crash between; three jobs of two sizes and priorities for one
  device with room for two units and one job.
- `serving`: a request for the default version and two for a version of its own, with two
  inputs that share a digest (`OneDigest`) and one place in the cache, so that they compete
  for it and are given each other's answers. The theorem covers any `Digest`.
- `learning`: four epochs with patience 2 allow an improvement, a wait that is
  interrupted and one that runs out; three batches with two to a step leave gradients
  over at the end of an epoch; the second fit resumes from any file of the first.

Deadlock checking is off everywhere: all orders may be done, all fills used up, all
starts and stops made; none of these models is meant to run forever.

### Fairness

- The breaker: time passes, every request that waits ends (the HTTP clients have
  timeouts), and clients keep calling. The last is an assumption about the
  environment: without calls a breaker that is open stays open, as the code
  intends. `Recovers` says: if the backend is healthy from some time on, the breaker is
  closed from some time on.
- The orchestrator: the event loop runs what is ready, and calls of the exchange end,
  because the HTTP client of the adapters has a timeout of 30 s
  (`python/acms/exchanges/base.py`). Nobody has to call any operation.
- The other services: the event loop runs what is ready, sleeps end, training callbacks
  return, cancelled tasks end, the periodic check wakes up. Nobody has to call `stop`, to
  submit or to send a message, and of the GPU queue nothing is assumed.
- The connector: goroutines run, timers fire, and handshakes end or time out, as the Go
  dialer bounds them. The service's mutex is granted to `Shutdown` in the end although
  `ConnectExchange` may keep coming (strong fairness: Go's mutex hands over to a waiter that
  has starved for a millisecond). A socket may stay silent.
- The collector: tasks run and timers fire. `connect_async` (`collector.rs:225`) has no
  timeout and is outside the `select!` on the token, and so is the subscription
  (`:247`), so nothing is assumed of either: `CancelledLoopsEnd` excepts the loop that stays
  there for good.

## 5. What the code does not keep

Each of these is a run that TLC ends with a counterexample.

- `engine_lost_open`: `process_fill` does not look at the status. A fill that comes after
  a cancel makes the order PartiallyFilled, hence active again, but its id is no
  longer in `open_order_ids`.
- `breaker_unnoticed`: the gateway's `ErrorHandler` records a failure and writes no
  status; the handler behind it sees the initial 200 and records a success, which
  resets the count. A backend that refuses connections never opens the breaker.
- `orchestrator_stopped`: `stop` awaits `exchange.close()` and then sets STOPPED whatever
  happened meanwhile (`orchestrator/engine.py:104`). The trace: a start that fails leaves an
  exchange and the state ERROR, `stop` begins to close it, `start` makes a loop and sets
  RUNNING, the loop wakes and begins a cycle, `stop` sets STOPPED, and the cycle goes on to
  fetch, to balance and to place an order. A `start` when PAUSED is another way, which
  the trace does not show: it replaces `_task`, `stop` cancels the new loop, and the old
  one, in the middle of a cycle, is left.
- `consumer_commits`: every hundredth message commits, when it is in the buffer and no
  callback has seen it (`kafka_consumer.py:475`). A crash then loses what was buffered, although
  the module speaks of exactly-once processing (`:11`, `:507`) and of a commit after
  successful processing (`:474`). A message dropped under backpressure (`:446`), a batch
  whose callback raises (`:312`) or whose flush `stop` cancels (`:245`) is committed past
  as well.
- `serving_stale`: a request for a model that does not serve is answered by the first one
  that does (`integration/orchestrator.py:497`), and the answer is cached under the model
  asked for (`api_routes.py:291`). A new version of the answering model drops its own keys only
  (`redis_cache.py:476`), so the other key keeps serving the old one until it expires.
- `learning_poisoned`: when the norm of the gradients is not a number, the loop skips the
  step and keeps the gradients, so every later step of the training is skipped too.

These are in the models as the code has them, and the properties are stated so that
they hold beside them.

*Engine and orchestrator.* A fill that completes an order between the insert and the
push of `submit_order` finds no id to remove; the push then lists a filled order for
good (`engine.rs:253`). Resetting the kill switch makes an orchestrator RUNNING whose loop
has been stopped, and `start` then refuses to create one (`orchestrator/engine.py:338`).

*Feeds.* A loop whose connection was removed by `DisconnectExchange` dials anew. A
connection that a second `ConnectExchange` overwrote is named by nothing: shutdown does not
close it, and having no read deadline it lasts until a message or an error arrives. A
collector loop whose exchange never answers the handshake does not end when cancelled
(`collector.rs:225`). After a disconnect between `Connect` and the read, `ReadLoop` goes
round on a nil connection until the service's context ends. The handlers still accept
connects during shutdown. Starting the collector twice leaves a loop whose token was
overwritten; a stop followed quickly by a start resets the flag before that loop has seen
it. The Disconnected of an old loop may overwrite the Connected of a new one.

*Serving.* Answers that report an error are cached as empty predictions. The API's cache key
leaves out features and version, so a prediction of the old version that was under way at a
deployment is stored after the invalidation; a failure of Redis during invalidation is only
logged. Registering a model again or deleting it drops nothing from that cache. In the
inference server, inputs that differ in shape, dtype or the order of a feature dictionary
share a cache key and get each other's answers (`server.py:95`, `:97`, `:793`), and a
version called "latest" would share the key of the requests for none (`:93`). `delete_model`
removes the record before the task that retires the model looks for it. A record retired
during a predict goes back to SERVING when that returns. `predict` executes a request itself
while it stays queued. Requests without features shift the rows of a batch; futures that are
pending when the batch engine stops are never set. `ModelServer.stop` during `start` leaves
models READY.

*A/B tests.* The periodic check raises on a test with too few usable results and leaves those
behind it undecided; pausing and resuming revives a completed test; `_promote_winner` passes a
model id where a version is expected. A forgotten loop of the check, as one of the batch
engine, makes one more pass after `stop`.

*Training data and GPUs.* A consume loop that an error ended is not started anew, and
`_running` stays set (`kafka_consumer.py:485`). A stop and a start read messages again that
a forced flush of the stopped session still holds. The job queue is strictly by priority and
ages nothing, so an endless supply of urgent jobs starves the others (`gpu_monitor.py:230`).
A report of completion overrides a cancellation. Free memory is not reserved between two
assignments of one pass, a device that was OFFLINE stays so, and a stale temperature keeps
an unreadable one schedulable.

*Learning.* Resuming resets the best loss and the list of periodic files, so `best_model.pt`
may be overwritten by a worse epoch and more than `max_keep` files stay; a crash between an
epoch and its file repeats the epoch; `torch.save` writes in place; the learning-rate
schedule begins anew, as its saved state is never loaded; gradients left at the end of an
epoch carry over. In the online learner a loss that is not a number passes the rollback
threshold, a failed update is not rolled back, the threshold is not looked at in an A/B test
(`online_learning.py:1126`), and the trigger PERFORMANCE_TRIGGERED never fires.

## 6. Proofs

All theorems hold for every value of the constants that satisfies the assumptions
named in the modules: bounds are natural numbers; thresholds, periods, sizes
and quantities positive; sets of threads, callers or clients finite where a model counts
them; no job or device is listed twice; what stands for a missing or torn file cannot be
read as a checkpoint.

**ExecutionEngineProofs.** `IInv` adds to the properties: an entry is locked exactly by
the thread inside a fill or a cancel (`LockDiscipline`), so the status a call found or
set is still there at its later steps (`StatusUnderLock`), and an id is pushed once
(`SubmittedOnce`, `CancelRecorded`). Without the first, `FillClose` could remove the id of
an order that another call made active. Results: `TypeCorrect`,
`StatusAlwaysMatchesFill`, `OpenListComplete`, `OpenListDuplicateFree`,
`FilledOrdersStayFilled`. `ReportsComeInOrder` needs the lock as well: the report
about to be sent is the newest of its order, because the entry is held until it is
sent.

The accounts come next. `Total` sums a list by a recursive function; that its values
are the sums one expects is shown without induction, by the least place at which
they would not be (`LeastNatural`, `SumsAgree`, `SumsExist`). From it: a total grows by what
is appended and changes by what one element does (`TotalAppended`, `TotalChanged`), and
each step of a fill moves its value from one list to the next (`FillUpdateSums`,
`FillPositionSums`, `FillRecordSums`). What one fill does to a position is arithmetic:
`ApplyFillMoves` for its signed quantity, and `ApplyFillPays` for the equation that the
position's cost less the realized profit is what was paid, in each of the branches
close, flip, reduce and increase. Together: `PositionsAddUp` and `ProfitsAddUp`, with
`Reconciled` as inductive invariant. `AveragesAreVolumeWeighted` needs more than the
property says (`Averaged`): an average is 0 exactly as long as no fill counts, which
the code takes it to mean, and filled_quantity is the plain sum as long as nothing was
capped; that rests on prices being positive, as assumed of `Prices`.

`EngineAtomic` is the refinement of `AtomicEngine!Spec`. `FillUpdate`, `SubmitInsert` and
`CancelMark` are its steps, all others stutter (`OrdersRefine`, and by itself
`OrdersAtomic`), for which the mapped open list counts an id that is about to be pushed and
the mapped net quantity a fill on its way to the tracker (`NetMoves`, `NetStays`).

**GatewayBreakerProofs.** `IInv` adds `Counted`: a closed breaker has counted at most the
calls that failed in a row, and exactly those if each call is recorded once.
From it: it never opens early (`NeverOpensEarly`), for both handlers, and opens in
time (`OpensInTime`) for `ProxyWithCircuitBreaker`; `breaker_unnoticed` shows why not
for the other. `ClosedStartsBelowThreshold` and `HalfOpenIsNoTrap` are the safety half of
`Recovers`.

**RateLimiterProofs.** `IInv` is typing, `SeenIsOlder` (a refill is computed from a
timestamp older than the time read) and `Conservation`. The argument is
bookkeeping: every step but one moves units between bucket, threads and orders and
loses them only over the brim (`KeepsAccounts`); the winner of the timestamp promises
no more than the interval it closes has earned (`StampBalances`, from
`RefillIsEarned`). From it: `TypeCorrect`, `NoTokenLeaks`, `AdmissionsWithinLimits`,
`RefillsOnlyMoveForward`.

**OrchestratorProofs.** `KillSwitchMatchesLevel` and `BreakerHalts` protect each other:
the loop that activates the breaker has found the kill switch off in the same
step. Both are needed for `HaltHolds`, which is proved under `DegradationEnabled`:
with degradation disabled the breaker leaves no trace that a cycle under way would see.

**FeedsProofs.** For the connector, type and ownership are one invariant: a socket is
opened only where none is held, which rests on where the loop is. `ShutdownIsThorough`
needs `ShutdownInv`: before the cancellation every loop belongs to a connection the map
names or once named, after it no loop gets to its read, and while `Shutdown` holds the
mutex those that read are still on its list. For the
collector, `StatusInv` says that whoever wrote a status other than Disconnected is
still there to write that one, or has it left to send; from it
`CollectorEndsDisconnected`. That attempts stay in range needs that a loop which used them up
is on its way out.

**ServingProofs.** For `PredictionServing` the invariant says what each place an answer can
be in holds: Redis, the local entries, and the calls that wait for either. A cached answer
fits the key it is under, that is its version and the digest of its input, and a call
remembers which key it asked for; hence
`ServingAnswersOwnRequest`, `ServingCachesKeepVersions`. `ServingCountsCalls` counts the calls under
way through every path out of `predict`, by the cardinality of their set.

For `ModelRouting`, `InvalidatedWhenChanged` is not inductive: it says nothing of an
administrator half-way through. `EnRouteInv` adds that a stale prediction on its way to
the cache still has a scan before it, which will overtake it, `CachedInv` that one
in the cache has a scan or a delete before it, and `OneNameEach` that no two models share
a record, without which the scan of one could end what the other owes. From them
`RoutingInvalidates`, for any number of administrators at once. It is about a model's own
key; for the keys of others there is nothing to prove, as `serving_stale` shows.

**ServicesProofs.** One invariant per service, and `ServicesInv` of all of them under `part`.

- `ServerInv`: every connection under way will add one loop, so loops and
  connections together stay within the starts.
- `BatchInv`: each group's list and each task's batch is in the order of submission
  (`Follows`), so that the rows of a batch shift only past a request without features:
  `BatchPredictionsAligned`. `BatchKeepsRequests` adds that what `Cut` and `Rest` leave is
  the whole list, and that the batches sent off are those of all groups that wait.
- `ConsumerInv`: a message of the present session is at one place at most and before the
  position, which Kafka hands out next (`ReadInv`), and `stop` goes on only past tasks that
  have ended, after which nobody adds to the buffer (`StopInv`): `ConsumerFlushesOnce`,
  `StopLeavesNothing`.
- The orchestrator's is that of `OrchestratorProofs`.
- `QueueInv`: the monitor's pass is a function by recursion over the queue; after k
  jobs each device has what it had and only jobs of those k, no job at two of them:
  `QueueKeepsAssignments`. As places only grow within a pass, a device with a slot at its
  end had one at each turn before: `QueueLeavesNoFitJob`.

**LearningProofs.** In the online learner the checkpoint pushed last is on top however
many had to go (lemmas on the bounded stack), so a rollback finds what was saved just before
the update: `LearnerRollsBackWhole`; `LearnerComparesOwnLoss` carries
the same through every checkpoint.

In the trainer `TrainerSkipsNothing` is inductive with: the epoch just ended is
in the weights before it is saved, and a file is torn or holds what it says.
`TrainerKeepsBest` adds what was offered to `best_model.pt` so far. `TrainerStopsInTime`
relates the counter of the early stopping to the losses: it counts the epochs since
one was better than all before it. That a finite sequence has a least loss comes from the
well-ordering of the naturals (`WFMin`), applied as a lemma without induction.
`TrainerKeepsNewest` is inductive with `KeptInv`: the list of periodic files is in order,
what is due and not in it is older than all that is, and only once the list is full;
those in it are whole on disk and the others are gone.

Only model-checked is liveness: `Recovers`, `PauseTakesEffect`, `LoopsEnd`, `StopReturns`,
`ConnectorStops`, `CancelledLoopsEnd`, `ServerLoopsEnd`, `CallersAnswered`, `LeadIsDecided`,
`BufferIsFlushed`, `ConsumerStops`. They rest on fairness and `ENABLED`,
which TLAPS does not prove about. What they need of safety is proved for three of them:
`HalfOpenAdmits`, `ShutdownLeavesNoReader`, `RequestsAreHeld`. Every
invariant, action property and refinement of a passing run is a theorem.

## 7. Limits of the models

- Integers are unbounded. For limits above some 18,000 orders a second the product in
  `refill_second` can overflow 64 bits when almost a second has passed; this is not
  modelled.
- Decimals are exact; rounding at their 28th digit is not. What models, statistics and
  detectors compute is a choice.
- Commission, slippage, latency and timestamps of orders are left out of the engine.
- The exchange's own view of orders is not modelled: an order whose confirmation was lost
  is not told apart from one that was never placed.
- Kafka delivers the partition in order, and from the committed offset after a crash.

## 8. Not modelled

- **Risk checks, kill switch, drawdown** (`risk/hot_path.rs`), **exposure**
  (`risk/exposure.rs`): `check` reads kill switch, position, exposure and drawdown one after
  the other and reserves nothing. It promises each limit only for the values it happened to
  read, so there is no property about two orders that it keeps. Known from reading: an
  opposite order larger than the position counts as closing it, a market order has notional
  0, a rejected order has still used a token, and the kill switch is three separate
  writes.
- **Market circuit breakers** (`risk/circuit_breaker.rs`), **order routing, TWAP and VWAP**
  (`execution/sor.rs`, `twap.rs`, `vwap_exec.rs`), **order book** (`core/orderbook.rs`),
  **pipeline** (`ingestion/pipeline.rs`): one lock or one caller each, and decimal
  arithmetic. `reset_all` leaves two of the breakers; a slice reported twice is counted
  twice; a snapshot of the book announces `Clear` and no level.
- **PyO3 bridge**: conversion of types; resubmission under an old id has no caller here.
- **Kafka wrappers** (Go and Python), **Redis helpers**, **database**, **REST and WebSocket
  API**: single commands to a service that would itself be the model. **Monitor and
  health**: rounds of checks that overwrite one another under a mutex. The gateway's Redis
  limiter: INCR and EXPIRE are two commands, and its local fallback never ends the window of
  a steady client.
- **Python risk engine**: only its kill switch is used, and modelled in `Orchestrator`.
  **Exchange adapters, paper trading**: HTTP clients and a simulator for one coroutine.
- **Model architectures, features, decision models, indicators, statistics, signals,
  strategies, portfolio, backtest, reporting**: floating-point computations on tensors and
  series without concurrency. They are the larger part of the repository's lines, which is
  why the map covers a small share of them.
- **Command line, logging, configuration, deployment**: input and output.
