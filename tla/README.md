# lambda-bridge in TLA+

`lambda-bridge` is a Go Lambda function. A load balancer (ALB) hands it GitHub
webhook events; it answers at once and forwards each event to a list of webhook
URLs ("bots") in the background. SNS events are published to a topic. This
directory holds specifications of the program, the TLC configurations that check
them, and proofs that TLAPS checks. Paths below are relative to the repository.

## 1. The system

| Component | State it keeps | Operations | Made correct by |
|---|---|---|---|
| `handler/forwarder_handler.go` | none | `Handler`, `Shutdown` | every event reaches exactly one branch; a failed publish is reported, so that Lambda runs the event again |
| `handler/alb_processor.go` | overflow semaphore, counters | `Process`, `processOverflow`, `Shutdown` | answers without waiting for webhooks; every URL accounted for; slots given back |
| `handler/worker_pool_manager.go` | map URL -> pool, read-write lock | `Submit`, `getOrCreatePool`, `Shutdown` | one pool per URL, all of them shut down |
| `handler/bot_worker_pool.go` | queue, worker counter, target, WaitGroup, metrics | `Submit`, `worker`, `autoScale`, `Shutdown`, `GetHealthScore` | bounded workers, jobs started once, Shutdown ends and leaves nothing running, honest metrics |
| `forwarder/webhook_forwarder.go` | result map, WaitGroup per call | `ForwardToWebhooks`, `forwardToWebhookWithRetry` | a result for every URL, bounded attempts, returns in time, breaker told once |
| `forwarder/breaker.go` | per key: count, last failure, opened-until (three atomics) | `AllowRequest`, `RecordSuccess`, `RecordFailure` | trips on enough failures and no fewer, stays open for the cooldown; a webhook's own answers never count against it |
| `forwarder/retry.go`, `errors.go` | none | `ShouldRetry`, `NextDelay`, `WaitForRetry` | bounded, growing waits; only retryable errors retried |
| `forwarder/client_manager.go` | map host -> client, LRU list, counters | `GetClient`, `GetClientForHost`, `evictLRU` | map and list agree, bounded, right client, counters that add up |
| `forwarder/payload.go`, `headers.go` | none | event to request, key of the breaker | nothing of the event lost in either form of headers and query; the key is made of host and path alone |
| `forwarder/sns_forwarder.go` | none | `Publish` | acknowledged only when SNS has it; an error for each publish that is not confirmed |
| `forwarder/connection_warmer.go` | a WaitGroup per call | `WarmConnections` | start-up is not held by silent hosts |
| `config/*`, `constants/*` | the configuration | load, override, validate, defaults | settings in the documented ranges whatever is configured, except positive values below them and products that wrap, which the code lets pass (section 3); the environment wins |
| `cmd/main.go` | what has been set up | start-up and deferred shutdowns | a part is open only while the parts it uses are, and no exit leaves one open (overflow goroutines are not waited for: section 3) |
| `telemetry/*` | library providers | set-up | (its place in `main`'s order) |

How they interact: `Handler` calls `Process`, which calls `Submit` of the
manager (a call, under its lock), which sends to the channel of a pool (shared
state). Workers receive from it and call `ForwardToWebhooks`, which asks the
breaker, uses the client cache, starts a goroutine per URL and waits for them.
URLs the pools drop go to at most ten overflow goroutines, which call
`ForwardToWebhooks` themselves. The context of the invocation travels with the
job; it ends when the invocation does, whoever still uses it. `main` loads the
configuration, sets up AWS, telemetry, the forwarder, warms connections and
creates the handler; its deferred calls shut handler, forwarder and telemetry,
in that order.

What is hard: workers and autoscaler act on counts they loaded earlier; the
breaker's operations are sequences of separate atomics; both maps are looked up
under one lock and changed under another; Shutdown runs against all of them;
retries, timeouts and cancellation race with answers; jobs outlive the invocation
they belong to; the configuration has two sources and a value may wrap.
`PROJECT.json` lists the hazards line by line with the properties that cover them.

## 2. Modules

Every action is one atomic access, channel operation or critical section of one
goroutine, unless the module's head says which are merged.

**`WorkerPool`** — the promise of the interface in `handler/interfaces.go`: jobs
wait first in, first out, each is started at most once, none is running when
`Shutdown` returns and none starts after it.

**`BotWorkerPool`** — one pool in full. `wpc[w]` is the program counter of worker
goroutine `w` (`head` the top of the loop, `check` between the two loads,
`retire` before `workers.Add(-1)`, `select`, `dequeued` between the receive and
`queueDepth.Add(-1)`, `process`); `seen[w]` is its stale copy of the count. `spc`
with `util`, `cur`, `left` is the autoscaler inside `evaluateScaling`; `cpc` the
caller of `Shutdown`; `submit[j]` the caller of `Submit(j)`. `wg` is the
WaitGroup. `processJob` is here a single step that ends: `WebhookForwarder` shows
that it does. `scaleDownSignal` is left out because nothing sends on it.
Implements `WorkerPool` (`PoolSpec`): `waiting` is the channel, `running` the
jobs in workers' hands, `closed` is "Shutdown has returned".

**`PoolHealth`** — what `processJob` does to the counters and the `healthy` flag,
with the workers of a pool interleaved. A pool forwards to its one URL, so there
is one result per job. `solo` and `disturbed` are history. `GetHealthScore` only
loads the counters, for a log line, and is left out.

**`CircuitBreaker`** — one key of the breaker and the goroutines that use it, each
`AllowRequest`, call, `RecordSuccess`/`RecordFailure` cut at every load and
store. The mutex covers only the lookup of the entry. `failures`, the times of
the last counted failures, is history for the properties.

**`SharedCircuit`** (EXTENDS it) — the same steps, with what a call is: of which
webhook, and whether its context is done. Webhooks of one host and path share the
key; the contexts of calls under way end with their invocation, which the workers
outlive. `causes`, `against` and `grounds` are history: which calls the counted
failures were, and which of them opened the circuit.

**`WorkerPoolManager`** and **`ALBProcessor`** (which EXTENDS it) — requests going
through routing, `Submit` URL by URL, pool creation under the two locks, and the
overflow semaphore, against one `Shutdown`. An event is what `Process` tells
apart in it: health check or not, and which host headers it carries.
`dropped[r]` is the slice `Submit` returns, `k[r]` the position of the loop over
it; `fate` is history. A pool is the length of its queue; `Shutdown` of a pool
returns, as `BotWorkerPool` shows.

**`ClientManager`** — `GetClient` in its critical sections and atomic counts; the
entry found under the read lock may be evicted before the write lock is taken.
`GetClientForHost` takes the same steps. `latest` is history.

**`RetryPolicy`** — `ShouldRetry`, `IsRetryable` and the set of delays `NextDelay`
may return. The outcomes of an attempt are six kinds. The operator constant
`Wrapped` is what is left of a product in the bits of a `time.Duration`: `Bridge`
gives the one that wraps, `WebhookForwarder` gives `Exact`, which does not. That
they agree for every policy within the limits of `Validate` is proved
(`BackoffExact` and `DelayNear` in `Bridge_proofs`).

**`WebhookForwarder`** (with an instance of `RetryPolicy`) — one `ForwardToWebhooks`: `pc[u]`
is the goroutine of URL `u` (`start` before `AllowRequest`, `attempt`, `sent`,
`judge` after an attempt, `wait`, `record` before the breaker is told, `store`,
`stored` before `wg.Done`). Webhooks are free to answer, fail or stay silent, and
to have accepted an event whose answer got lost. The breaker may allow or refuse
anything. The context may be cancelled at any time; `cancelledAt` is when. A wait
ends by its timer if that is due no later than the context is done, and by the
context if that is done no later than the timer is due: at the same tick Go's
select chooses. The check of the remaining time and the start of the timer are
one step.

**`Configuration`** — operators from a file and an environment to the settings of
the forwarder: choice of the file, `Validate`, the overrides, the products with
their units, which wrap at `Width` bits, and the defaults of the constructors.
`Config` and `Environ` are the sets of all files and environments; the integers
of both are those of a machine word (`Machine`).

**`Payload`** — operators from an event to the request a webhook gets. A header's
key is a pair of its canonical name and its spelling; since Go visits a map in
any order, the operators return every result the order allows.

**`ConnectionWarmer`** — the dials of `WarmConnections` and the wait for all of them
or the timer.

**`Bridge`** (EXTENDS the three above, with an instance of `RetryPolicy`) — the process: `phase` is
where `main` is, `open` what has been set up and not shut. While it serves, a
worker may translate an event for any configured webhook, and a series of failing
attempts walks through the waits of the policy the configuration led to. The
scenarios and the events are arbitrary members of their types
(`ScenarioAssumption`, `EventAssumption`).

**`Delivery`** — the composition: invocations arrive one after the other,
`Handler` routes them, an ALB event becomes a job for each place of its list of
webhooks (a list may name a webhook twice, and `Submit` then queues it twice); the
job `<<r, i>>` of the `i`-th webhook of invocation `r` passes through channel,
worker or overflow goroutine, deadline check, breaker and call; the end of the
invocation cuts off the calls that are under way. An SNS event is published, in
one or several sends of the SDK's client whose answers may be lost, and run again
by Lambda. The parts are taken at the grain of the calls between them; the modules
above are their detail. Of `BotWorkerPool` there remains that workers come and go
as they like, from none to the maximum; of the breaker, which has no state here,
that it refuses what it likes. `Pool(u)` maps the composition to the abstract
`WorkerPool`.

`MC*` modules only name values, symmetry and small scenarios. Operators commented
"Mutant of" are wrong variants of a definition, used to see that a property
notices the mistake; no specification uses them.

## 3. What the runs check

| Run (cfg) | Shows | Bounds |
|---|---|---|
| `pool` (MCBotWorkerPool) | at most `MaxWorkers` goroutines although counts are stale; queue depth never drifts; nothing left after Shutdown; `wg.Add` never at zero; refines `WorkerPool`; Shutdown returns; a full queue drains; accepted jobs are served while a worker is counted | 2 jobs, queue of 2, 2 initial and at most 2 workers, a 3rd name so that the bound is not enforced by the model |
| `health` (MCPoolHealth) | flag and counter can disagree only after overlapping recordings, until a success recorded alone | 3 workers, threshold 2, 7 results |
| `breaker` (MCSharedCircuit) | threshold never passed unnoticed; open at most one cooldown; no trip on too few failures; whoever opened a circuit had counted that many failures since one success, each of a webhook that need not answer or of a call cut off by the end of its invocation, however stores of successes and failures fall | 2 callers, threshold 2, window and cooldown 1, clock to 3, a webhook that always answers and one that need not |
| `alb` (MCALBProcessor) | one pool per URL, never replaced, none created during Shutdown; each URL accepted, dropped or overflowed once; slots exact; a request is always answered whatever webhooks do | 2 requests, lists of up to 3 entries, 2 URLs, queue of 1, 1 overflow slot, 3 pools |
| `clients` (MCClientManager) | map and list agree; bounded; no client lost or mixed up, every one counted; the latest host spared | 3 callers, 3 hosts, room for 2 clients, 5 creations, 3 hits counted |
| `bridge` (MCBridge) | settings in the documented ranges in every scenario, but for two exceptions; the environment wins; parts open only with what they use; events translated whole; every wait within a quarter of repeated doubling and never out of order; start-up ends although no host answers | 335 scenarios: each integer field below, at and above its limits, in the file and in the environment; odd files and environments; a grid of 50 policies; 35 events, some with empty first values; 10 bits |
| `delivery` (MCDelivery) | an SNS event is acknowledged only when SNS has it and given up only after Lambda's last run, and duplicated no more than the sends of its runs; channels, workers and slots bounded and consistent; each webhook's pool keeps the promise of `WorkerPool`; every job ends, or is in a channel whose workers have all retired | 2 invocations, 2 webhooks of which one is named twice by a list, queue, worker and slot of one each, 2 runs of an SNS event with 2 sends each, clock to 2 |
| `forward` (MCWebhookForwarder) | a result for every URL on return, the one the breaker was told once; a confirmed delivery never repeated; retries keep their distance; silent webhooks and long waits cannot hold a call; cancelling ends it without time passing | 2 URLs, 1 retry, clock to 2 |

Two or three actors suffice for each race, since every one of them is between
two goroutines with a third changing what they share, and the limits (queue,
pool, cache, semaphore, threshold) are set so low that they are reached. For
everything but liveness the proofs of section 4 remove the bounds. In `bridge`
the fields of a configuration do not influence each other, except in what `Grid`
varies together; 10 bits with the extremes -100 and -200 let a product wrap into
both signs. In `delivery` one worker is enough for a pool to lose all of them and
to get one back.

`CHECK_DEADLOCK FALSE` appears where a run really ends: `health` and `clients`
stop at the bound on results, hits and creations, `bridge` when the process has
exited or shut down, `delivery` when all invocations are through. Symmetry is
used in safety runs only.

### Fairness

* `pool`: workers, the autoscaler, the closer have weak fairness, as Go schedules
  every goroutine that is ready. `StopScaler` has strong fairness: the select of
  `autoScale` meets the closed channel again and again, with the ticker firing
  only every five seconds. Nobody has to submit or to shut down.
* `alb`: the goroutine of each request and the shutting of pools. Nothing of
  workers, overflow goroutines or webhooks.
* `bridge`: `main` goes on where it can, time passes while it warms, and the timer
  is served. Nothing of the dials, of `lambda.Start` or of events.
* `delivery`: goroutines, and calls whose context is done. A worker that is
  there and idle receives what its channel holds, unless it retires first; nothing
  says that a worker is there. Nothing of webhooks, of SNS, of the autoscaler or of
  time. `FullQueueDrains` of `pool` says when a channel without workers is served
  again: when it is full enough. One that is not stays as it is, which is why
  `JobsEnd` excepts it. Lambda freezes the process between invocations; the fairness
  stands for its goroutines going on when the next one thaws it, and `JobsEnd`
  says nothing of a process that is never called again.
* `forward`: the goroutines' own steps, due timers and contexts that are done.
  Nothing of webhooks, of the clock or of the caller; `TimeEndsCall` says what
  happens *if* time goes on.

### Disagreements with what the repository says

| Run (cfg) | Statement | What the code does |
|---|---|---|
| `pool_min` (MCBotWorkerPoolMin) | constants.go:7, minimum number of workers | workers with the same stale count retire together, down to none |
| `pool_idle` (MCBotWorkerPoolIdle) | bot_worker_pool.go:187, workers self-terminate | idle workers are blocked in their select and never check |
| `breaker_early` (MCCircuitBreakerEarly) | constants.go:82, how long the breaker stays open | a slow `AllowRequest` erases a new cooldown |
| `forward_wait` (MCWebhookForwarderWait) | webhook_forwarder.go:225, time for another retry | the delay is not counted; a goroutine waits until the deadline, makes no retry, and the context's error replaces the status |

`forward_wait` is checked with nothing cancelled: its trace has a webhook refuse
three times and a third wait of 8 s begin with 5 s left.

More is visible in the code and kept by the models, without a run of its own:

* A worker may mark a pool unhealthy on a failure count that was reset meanwhile
  (bot_worker_pool.go:129; `health` says how long that lasts). A health score loads
  the two counters one after the other and may exceed 1 (bot_worker_pool.go:225); it
  goes into a log line.
* A success whose first two stores fall around another caller's count and stamp
  leaves that failure in the count without a time; the next failure, however much
  later, is added to it, although breaker.go:117 resets what is outside the window
  (breaker.go:96).
* Failures spread over many windows trip the breaker, as only the last one's time
  is kept (breaker.go:125). Webhooks whose URLs differ only in scheme or query
  share a circuit (headers.go:98), so that the failures of one shut out the other.
  A webhook whose URL has neither host nor path has the empty key, for which the
  breaker keeps no circuit at all (breaker.go:60).
* Calls in the background are cut off when the invocation ends and counted as
  failures of the webhook; enough of them open a healthy webhook's circuit.
  `OpensByFaults` says that besides these only the failures of a webhook with the
  same key do. It is about the counted failures: the circuit may open *after* a
  success, when that falls between a caller's increment and its store.
* The SDK's client repeats a send inside one `Publish` (main.go:71), so that an
  event may be published several times by one run, and again by the next ones
  (`AcknowledgedIsOut` bounds it).
* The processor's Shutdown sleeps 500 ms and waits for no overflow goroutine
  (alb_processor.go:107), which may go on to use the forwarder after its `Close`.
* Jitter is added after the cap, so a wait may exceed `MaxDelay` by a quarter
  (retry.go:87; `WaitsNearNominal` bounds it).
* `Validate` "ensures ... all numeric ranges are valid" (config.go:42) and compares
  with the upper ends only. A positive value below the range that the comment of
  its field gives, such as a breaker window of 1 s where config.go:31 says 5-300s,
  passes and is in effect as it is: one of the two exceptions of `SettingsInRange`.
* Zero and negative values become defaults, so that `MaxRetries` 0 means 3, although
  config.go:24 has 0 in its range; a value so negative that its duration wraps
  becomes a positive one beyond the limit (the other exception).
  With a retry delay that wrapped, the shift of `NextDelay` may overflow too and a
  wait come out negative, which is no wait (`WaitsWrap`).
* `EnvironmentWins` is about integers that are positive and within their limit.
  Strings, booleans and lists of URLs are overridden in the model as in the code,
  and no property is about that.
* The file is validated before the overrides, so the environment cannot complete
  an incomplete file (config/loader.go, main.go:57).
* `WorkerCount`, `QueueSize` and `MaxConnectionsPerHost` of a configuration are
  validated and steer nothing.
* `X-Request-Id` of the client is replaced by a new one on every request
  (headers.go).
* A `Content-Type` or `User-Agent` given with several values, the first of them
  empty, is replaced by the bridge's own as a whole (payload.go:65, headers.go:72;
  `Replaced` in `Bridge`).

## 4. What is proved

TLC's runs are small instances; these hold for all values of the constants
allowed by the named ASSUMEs. None of the properties is inductive alone; each
module's invariant adds what the program counters and locals tell.

`BotWorkerPool_proofs`: `TypeCorrect`, `BoundedWorkers`, `AccurateDepth`,
`AccurateCounts`, `NothingLeftBehind`, `SafeAdds`, `KeepsPromise`. The invariant
`IInv` adds `ScalerInv`, what the autoscaler's locals tell: while it is between
loading the count and the end of its loop nobody else adds workers, so the stale
count is an upper bound and `workers + left <= MaxWorkers`. With
`GoroutinesCounted` (the counters are cardinalities of sets of goroutines) the
bound passes from the counter to the goroutines, a WaitGroup at zero means an
empty set, and a WaitGroup that grows counts at least the autoscaler.
`KeepsPromise` is the refinement of `WorkerPool`: `JobInv` says that a job is in
at most one place (the channel once, one worker, finished), so each step maps to a
step of the promise or to a stutter. Assumed: `WorkerAssumption` (finitely many
names), `SizeAssumption` (the order of the sizes), `JobsAssumption`.

`PoolHealth_proofs`: `HealthTypes`, `HealthReliable`. A recording that overlaps no
other leaves flag and count in agreement (`FlagFollows`).

`CircuitBreaker_proofs`: `TypeCorrect`, `NoSilentThreshold`, `BoundedOpening`,
`NoEarlyTrip`, `OpenedByFaults`. The invariant ties the count to the history of
failures, and every caller's local count to its place in `RecordFailure`: a count
at the threshold has a caller with a local count at least as high between the
increment and the reset. Times are natural numbers and `now` of a caller is never in the future,
whence an opening never reaches beyond one cooldown. Assumed:
`BreakerAssumption` (positive threshold, window, cooldown, which
`SettingsInRange` of `Bridge` shows of every configuration). `OpenedByFaults` is
a theorem of `SharedSpec`, whose steps are steps of the breaker (`SharedSteps`): the
causes match the counted failures one by one (`CausesMatch`), and whoever has a
local count at the threshold holds that many of them (`TripsBacked`) until it opens
the circuit, whatever a success has reset meanwhile. Assumed: `SharedAssumption`.

`ALBProcessor_proofs`: `OnePool`, `StayingPools`, `AccountedSlots`,
`AccountedUrls`. `OnlyOperations` shows that the processor moves the manager only
by the manager's operations, of which `Shape` and `OnePoolPerUrl` are invariants:
the published pools are exactly those made, and a request that holds a pool holds
the one at its URL. `AllFates` says that `dropped` is, in order, the positions whose
fate it was; `Placed` that a goroutine was started only for a dropped URL the loop
has passed, so that the next one has none; `Counted` that the counters are the
cardinalities of finite sets. Assumed: `ManagerAssumption`, `ALBAssumption`.

`ClientManager_proofs`: `SoundCache`, `AccountedClients`, `RightClient`,
`LatestSpared`. `CacheInv` is about map and list (moving to the front permutes
the list, evicting and inserting keep it within its bound), `CallInv` about what a
caller that let go of the lock still knows: the entry it found stays the one of its
host, evicted or not.

`WebhookForwarder_proofs`: `AgreeingOutcomes`, `NoNeedlessDuplicate`,
`SpacedRetries`. The invariant is a conjunction per URL (attempts made, what was
accepted, what the breaker was told, when the next attempt may be) and ties the
WaitGroup to the goroutines launched. That every delay is at least `BaseDelay` (or
the maximum) rests on 2^k >= 1, taken from the cardinality of a power set.

`Delivery_proofs`: `TypeCorrect`, `AcknowledgedWasPublished`,
`EveryPoolKeepsPromise`. The invariant follows a job: it is in no place before the
loop of `Submit` came to it (`Places`), in the channel of its webhook exactly
while it is `"queued"` and there once (`Channels`), and afterwards in the hands of
one goroutine. All steps but `Submit` and `Take` leave the channels alone and move
at most one job, which `JobStepMoves` says once for all. Workers and slots bound
the goroutines (`Goroutines`), where only an idle worker retires (`WorkersChange`).
For SNS, `Counted` bounds the copies the present run made by its sends and those
of earlier runs by `MaxSends` each. `EveryPoolKeepsPromise` is the refinement of `WorkerPool`, once per webhook. Assumed: `DeliveryAssumption` (lists
of webhooks of bounded length, sizes and times in order, positive where the code's
are).

`Bridge_proofs`: `Dependencies`, `SettingsAreInRange`, `EnvironmentPrecedes`,
`ContentIsKept`, `NearNominal`, `LaterIsLonger`. The invariant
`BridgeInv` says which parts each phase has open, and that configuration, settings
and the series of waits are those of *one* scenario: `Loaded`, `Created` and
`Series` share their witness. The other conjuncts are about the request that is
prepared. Below it are lemmas about the operators:

* *Numbers.* 2^k is the number of subsets of `1..k`, from which `Doubling` and
  `PowerMonotone` follow. `WrappedExact` says that a number of `Width` bits does not
  wrap; `EffectiveSound` and `EffectiveInRange` derive the settings, for every
  machine word and every width. `BackoffExact` shows that the shift and the cap of `NextDelay` equal
  doubling with a cap, `DelayNear` bounds what jitter makes of it.
* *Sequences.* `Least` and `Induction` give induction over the natural numbers from
  the well-foundedness of inclusion among finite sets; the library's own induction
  theorems take an operator and cannot be used here. With them `FlattenDefined`
  and `FlattenSteps` justify the recursive function inside `FlattenSeq`, and
  `Flattened` says what it keeps.
* *Headers and queries.* `ValuesKept` and `Merged` are about `mergeHeaders` in every
  order Go may visit the maps, `OriginKeeps` and `SetIfEmptyKeeps` about what the
  bridge adds, `HeadersAreKept` and `QueryIsKept` about the request.

Assumed: `LimitAssumption` (positive limits, defaults within the documented ranges,
durations and longest waits that fit into `Width` bits, as the constants of the
code do),
`ScenarioAssumption`, `EventAssumption` (an event is a value of its Go type, its
maps are finite), `WarmAssumption`.

Two models were corrected by these proofs. `ContentKept` used to claim more than
the code does for headers whose first value is empty; and `Delivery` used to have
one job per webhook, where the code has one per entry of the list.

Proved besides and checked by no run of their own: `TypeOK` and
`GoroutinesCounted` of the pool, `TypeOK` of the breaker and of `PoolHealth`,
`BridgeInv`.

With that, every invariant, every action property and every refinement of the
passing runs is a theorem. Only model-checked:

* liveness (`ShutdownReturns`, `FullQueueDrains`, `ServedWhileCounted`,
  `AlwaysResponds`, `JobsEnd`, `StartsUp`, `TimeEndsCall`, `CancelEndsCall`), since
  TLAPS as installed handles neither fairness nor ENABLED;
* what the filter of `parseWebhookURLs` leaves: the provers cannot expand the
  recursion of `SelectSeq`. Nothing proved depends on it. `SettingsInRange` says
  of the URLs only that one of the lists is not empty, which `Validate` checks.

The proofs do not reach the assumptions themselves: that the constants of the code
satisfy them was compared by hand (`constants.go`, `config.go`), and TLC evaluates
each for the values of the runs.

## 5. What is not modelled

* Telemetry: the set-up of a library. Its `Metrics` instruments are never
  constructed by the program.
* Readers that only load counters (`GetStats`, `GetPoolStats`, `Stats`,
  `GetHealthScore`, the metrics reporter); logging, durations.
* Webhooks whose URL has neither host nor path: their key is empty, and none of the
  breaker's operations does anything for it.
* When the SDK's client sends again, and after which errors: `Delivery` lets it do
  so after any, up to a number of times.
* `CloseIdleConnections` and its ticker change only what `net/http` keeps;
  connections of a client that was evicted while in use stay until its idle
  timeout. `getDefaultClient` is reached only for URLs that are refused before it.
* `Handler` returns a single value of type `any`, which its comment says is what
  the runtime requires; `Delivery` takes it at its word, although a published
  aws-lambda-go may accept a single return value only if it implements `error`:
  that is between the program and the version of the library. That Lambda turns the value
  into the balancer's response, runs failed SNS events again and gives a process one
  event at a time is the service's part.
* A second call of `Shutdown` of a pool would close a closed channel; there is no
  such call. Duplicate URLs within one `ForwardToWebhooks` collapse in the result
  map; both callers pass one URL.
* A panic in a goroutine ends the process; no function of the code recovers. The
  deferred shutdowns of `main` run only if `lambda.Start` returns.
* HTTP, TLS, JSON, YAML and SNS themselves.

## 6. Plan

Done: all components but telemetry, with their composition; every safety property,
action property and refinement the runs check is proved.

Left, proofs only:

1. The links between modules: that the settings `SettingsInRange` allows satisfy
   `BreakerAssumption` and the assumptions of `WebhookForwarder`, and that the
   steps of `Delivery` are those the detailed modules allow.
2. Consequences worth stating as theorems: how long a whole series of retries may
   wait, and how many attempts a call makes of it.
3. Tidying: lemmas about sequences that several proof modules repeat.
