# TLA+ verification of the Sentinel gateway

Sentinel is an API gateway: every request passes a size check, route matching,
a distributed rate limiter, four layers of concurrency gates, and a loop that
asks a circuit breaker, picks a backend instance, forwards, and retries within
one deadline. The gateway is one asyncio process per instance; instances share
only Redis. Synchronous code between two `await`s is atomic, so the models
interleave at awaits and nowhere else.

## Inventory

| Part | Source | State | Modelled by |
|---|---|---|---|
| Circuit breaker | `apps/gateway/circuitbreaker/breaker.py` | state, outcome window, opening time, probe counters | `CircuitBreaker`, `BreakerCalls`, and `Circuit` for what it promises |
| Dispatch loop | `apps/gateway/pipeline/pipeline.py` (`_dispatch_with_resilience`) | attempt, deadline, last status per request | `Dispatch` |
| Retry policy | `apps/gateway/retry/policy.py` | none but the deadline's start | operators of `Dispatch` |
| Proxy forwarder | `apps/gateway/proxy/forwarder.py` | the httpx pool | the outcomes of `forward()` in `Dispatch`; `aclose()` in `Gateway` |
| Concurrency gates | `apps/gateway/backpressure/semaphores.py` | semaphore and in-flight count per gate | `ConcurrencyGates` |
| Token bucket | `packages/redis/lua/token_bucket.lua`, `packages/redis/client.py` | one Redis hash per key | `TokenBucket`, `RedisCall` |
| Sliding window | `packages/redis/lua/sliding_window.lua`, `packages/redis/client.py` | one Redis sorted set per key | `SlidingWindow`, `RedisCall` |
| Request pipeline | `pipeline.py` (`handle`) | none of its own | `Gateway`, over `ConcurrencyGates` |
| Routing | `apps/gateway/routing/router.py` | weighted cycles | `BackendPool`; `routable` in `Dispatch` |
| Health checker | `apps/gateway/health/checker.py` | consecutive counters, instance status | `BackendPool`; `HealthChange` in `Dispatch` |
| Gateway process | `apps/gateway/main.py`, `bootstrap.py` | draining flag, clients, gauge | `Gateway` |
| Load shedder | `semaphores.py` (`LoadShedder`) | none; no caller | not modelled |
| Control plane, settings, logging, schema, metrics, demo services | `apps/control_plane`, `packages`, `demo-services` | database, declarations, fault switches | not modelled |

How they interact: `handle` awaits the limiter (Redis), then the gates in the
order global, tenant, route, backend, and runs the loop holding all four slots.
All requests to a backend service share its breaker. The health checker writes
instance statuses that the selector reads.

## Modules

**`CircuitBreaker`**: the methods of `CircuitBreaker` as functions on a record of
its fields. `ReadState` is the lazy `state` property, `Admits`/`Admit` are
`before_request`, `RecordSuccess` and `RecordFailure` the two reports. The clock
is replaced by `open_for`, the time since `_opened_at`, which stops at
`OpenDuration` because only `>=` is ever asked of it. `_half_open_failures` and
the timestamps in the window are never read and are left out.

**`BreakerCalls`**: concurrent attempts around one breaker. An attempt is admitted,
awaits `forward()` for up to `AttemptMax` ticks, and reports to the breaker as it
is then. `AdmittedInVain` is the admission followed, without an await, by a
failure (no healthy instance, no time left). `Unrecorded` is an end the pipeline
does not report. `probes`, `probe_wins` and `evidence` are history variables.

**`Circuit`**: what a breaker promises, with no counters and no window. The backend
is left alone for `OpenDuration`; then it has at most `HalfOpenMaxRequests` attempts at a
time, all of them probes; that many of their successes, and nothing else, close the
circuit. `BreakerCalls` instantiates it: `since` is `open_for` (0 unless OPEN), `wins` is
`half_open_successes`, and a breaker that is OPEN until somebody reads `state` is OPEN in `Circuit` too,
with its rest over. `KeepsContract` says that `BreakerCalls` implements it.

**`Dispatch`**: the retry loop. It declares the variables of `BreakerCalls`,
instantiates it, and conjoins one of its actions to every step that touches the
breaker. Awaits are `forward` and `sleep`. `TryAttempt` is a turn of the loop up
to the await, `RetryOrGiveUp` everything after a failed attempt. httpx gives each wait
of an exchange (pool, connect, every write and read) the whole timeout: `NextWait`
begins another one, `TimeOut` needs a wait that took all of it. External assumptions
are constants: `MaxWaits`, how many waits an exchange has, and `Lag`, how long
`asyncio.sleep` overruns. Nothing in the code bounds the waits. A backend that sends its
body bit by bit, each bit within the timeout, holds an attempt for as long as it goes
on, and with it a request, its slots and perhaps a probe of the breaker; what is said
below about attempts that end is said of backends that do not do this.

**`ConcurrencyGates`**: `acquire_all`. A gate is the semaphore and `_in_flight`.
The semaphore is modelled as CPython 3.12 implements it (`requires-python` is
`>=3.12`): FIFO waiters, a woken waiter owning its slot before it runs,
cancellation of a woken waiter handing the slot on. An uncontended acquire does
not suspend, so `Proceed` passes all free gates in one step. `Reject` is the
`wait_for` timeout: it leaves the queue and unwinds the slots held.

**`Gateway`**: one process. It extends `ConcurrencyGates` and conjoins one of its
actions to every step of `handle()` at the gates. A request is `away`, in `body`
(`proxy()` awaits it), `limiting` (Redis), in `admission` (the gates, then the
dispatch loop) or `sending` (uvicorn sends the response); `HandleEnds` is the `finally`
and the end of `proxy()`, `Sent` the end of the response. `Startup`, `Sigterm`,
`Drain` and `Close` are `lifespan()` as uvicorn runs it: uvicorn accepts requests up to
the signal, waits for those it has and their responses, and only then resumes `lifespan()`, which sets
`draining` and closes the two clients, the HTTP client first. uvicorn is external; the
Dockerfile gives it no graceful timeout. The verdicts of the limiter and of the loop are
free choices here; their modules say what they are.

**`RedisCall`**: a call of the limiter to Redis. A call reads its clock (`Send`),
Redis runs the script later, and the reply returns or is lost. redis-py is not
pinned; from version 6 on it retries by itself, so `MaxTries` copies of a call, all
with one reading, may be sent, and abandoned copies may still run. Both limiters
extend it.

**`TokenBucket`**: the script `token_bucket.lua` (`RunScript`). Tokens are integers in a
unit of which `Rate` accrue per tick; the floats of the script are such numbers up
to rounding. `start` and `earliest` are the first and the least reading a script ran
with, `rewound` how far `last_refill_ms` was moved back in all: history variables.

**`SlidingWindow`**: the script `sliding_window.lua`. A member of the sorted set is the
call that added it, since `member_id` and `now_ms` are chosen once per call.

**`BackendPool`**: the health checker's loop over the instances of a service and the
weighted selector. `BeginRound`, `CheckInstance` and `AbortRound` are the steps of
`run_forever` between two awaits; `Select` is `select()`, with every outcome of
`random.shuffle`.

`MC*` modules instantiate these for TLC; `*Proofs` modules hold the theorems, and
`CallProofs` the lemmas about `RedisCall` that both limiters use.

## Runs

Passing runs:

| Run | Checks | Bounds |
|---|---|---|
| `BreakerStragglers` | `TypeOK`, `ProbeAccounting`, `ProbeBound`, `ThresholdWaitsForFailure`, `TrippedByFreshEvidence` | 4 callers, attempts of up to 3 ticks against an open duration of 2, so outcomes cross periods |
| `BreakerPrompt` | `PromptAccounting`, `KeepsContract`, `ClosedByProbes`, `HalfOpenNeverStuck` | 3 callers, every attempt recorded and shorter than the open duration; with attempts as long as it `KeepsContract` fails |
| `DispatchLoop` | `TypeOK`, `DeadlineShared`, `SentOnce`, `UsesBreaker`, `Answered` | 2 requests, GET and POST, statuses 200, 503 and 600, 2 attempts, 2 waits per exchange, lag 1; a failure threshold of 1, so that a retry is possible and the attempts can run out before the circuit opens |
| `GatewayLife` | `TypeOK`, `SlotsConserved`, `NoLostWakeup`, `NoGridlock`, `WaitBounded`, `InFlightExact`, `CleanShutdown`, `UsesGates`, `Served`, `ShutsDown` | 3 requests of 2 tenants, 6 gates, 2 slots at the global one and 1 at the others, so that each gate is where somebody queues; a timeout of 2 ticks; signals and restarts at any moment |
| `BucketBudget` | `TypeOK`, `Budget`, `InOrderBudget`, `Paid`, `RetryAfterPrecise`, `HeaderWithinSecond` | 3 calls, 2 copies each, delays of up to 1 tick, a key that expires after 4, one restart, FAIL_CLOSED |
| `WindowLog` | `TypeOK`, `CurrentWindow`, `AnyShorterWindow`, `Counted`, `RetryAfterExact` | 4 calls, 2 copies each, a limit of 2 in 3 ticks, delays of up to 1 tick, FAIL_OPEN; 4 calls are the fewest with which a past window can be overfilled |
| `PoolHealth` | `TypeOK`, `SelectsHealthy`, `FairTurn`, `Hysteresis`, `Converges` | 3 instances of weights 2, 0 and 1, the last with a check that raises, the default thresholds |

Runs that end in a violation, each of something the repository says of itself:

| Run | Property | What TLC shows |
|---|---|---|
| `BreakerClosedByProbes` | `ClosedByProbes` | successes of attempts admitted before the circuit opened close it |
| `DispatchStuck` | `HalfOpenNeverStuck` | a probe ending in an uncaught httpx error leaks its slot; the circuit refuses everything for ever |
| `DispatchDeadline` | `DeadlineKept` | the timeout is per wait, not per attempt |
| `GatewayShutdown` | `ShutsDown` | a client that never completes its body keeps the process in its shutdown |
| `BucketBurst` | `BurstThenRate` | 4 calls on one clock, capacity 1, refill 1: scripts with the readings 0, 1, 0, 1 spend 3 tokens within one tick, because the late one sets the bucket's clock back and the tick is refilled twice |

Met on the way, without a run: the window holds the last `rolling_window_size`
outcomes, where the breaker's docstring says `minimum_requests`; a success that
completes a window above the threshold leaves the circuit CLOSED until the next
failure (`ThresholdWaitsForFailure` states what does hold); `RetryBudgetExhausted`
is raised nowhere, so running out of time looks like running out of attempts;
`max_queue_size` is read nowhere, so a gate's wait is bounded and its queue is not;
`sliding_window.lua` promises exact windows, which a script that arrives after a
newer one can overfill (`AnyShorterWindow` says by how much, `InOrderWindowsExact` that
nothing else can), and a call whose reply
is lost may, when sent again, be refused by the entry it left itself;
an error that is not an `httpx.HTTPError` ends a round of health checks, so the
instance and those after it are never used (`ShadowedNeverUsed`; `Converges` excludes
them);
`Retry-After` is rounded down to seconds (`HeaderWithinSecond`);
`main.py:12` says that `/readyz` flips immediately, but `draining` is set (`main.py:111`)
only when the last request is gone and nothing is accepted any more.

`CHECK_DEADLOCK FALSE` is given for the two limiters only, where time is bounded by
`MaxTime` and each call is made once.

Bounds that are ours and not the code's: `RollingWindowSize` and thresholds of
two or three outcomes, `AttemptMax`, `MaxWaits`, `Lag`, `MaxTime`, `MaxDelay`,
`MaxTries`, `MaxRestarts`. `MaxDelay` stands for the longest a script can be
under way, and `Skews` for how far ahead of Redis' time a gateway's clock can be. The
bucket's run has one clock: late and resent scripts already make readings go back, and
the theorems cover every skew. Requests and callers are interchangeable where symmetry
is declared, and no liveness run uses symmetry.

## Fairness

- `Dispatch`: time passes, due timeouts and sleeps fire, an answer that is ready
  leaves. A backend may be silent, fail or alternate; assumed of it is only that an
  exchange has at most `MaxWaits` waits. The code does not guarantee that, and without
  it `Answered` fails.
- `BreakerPrompt`: attempts end, and before the open duration does, by the httpx timeouts
  under the same assumption.
- `PoolHealth`: the sleep ends and each health check is answered or times out, under the
  same assumption on the instances that are polled.
- `Gateway`, `ServerFairSpec`: woken tasks run, `lifespan()` goes on, the dispatch loop
  ends (`Answered` of `Dispatch`, hence the same assumption again). A client takes its
  response or its connection breaks: uvicorn sets no limit. Redis answers or its connection fails: this is an
  assumption on Redis, since the client is made without a timeout (`main.py:50`). Neither
  time nor the timeouts of the gates are fair, so `Served` holds without their help.
  `FairSpec` adds that a client completes its body or goes. The code does not
  guarantee that, and `GatewayShutdown` shows what happens without it; in
  `GatewayLife` it is the assumption under which the shutdown ends.

## Proofs

Checked by TLAPS for every value of the constants. Every invariant and every action
property of the passing runs has a theorem.

- `BreakerProofs`: `TypeCorrect`, `ProbesAccounted`, `ProbesBounded` follow from the
  inductive invariant `Inv`, which is the types and `ProbeAccounting`. A bound on
  the probes alone is not inductive: it has to be tied to the counters, and those
  to the state. The key is that a success that is not a probe's own frees a slot but
  also counts towards closing, so probes never exceed in-flight plus successes.
  `PromptAccounted`, `ProbesCapped` and `ClosesOnProbes` assume
  `AttemptMax < OpenDuration`: while OPEN everything in flight is at least as old as the
  opening, so nothing is left when HALF_OPEN begins. `TripsOnFreshEvidence` adds
  that the window of a CLOSED breaker holds no more outcomes than were recorded
  since it closed, `ThresholdSeenByFailures` that its last outcome is a success
  whenever the threshold is reached.
  `ImplementsCircuit` (`KeepsContract`) is the refinement of `Circuit`, action by action,
  under the same assumption: it needs that nothing from before is in flight when the
  rest is over, that the counter is never below the probes in flight, and that the
  successes counted are those of probes. Two theorems are the safety half
  of `HalfOpenNeverStuck`: `SaturationHasProbes` (every outcome recorded), that a HALF_OPEN
  breaker which refuses everybody has a probe in flight, from `ExactCount`, that the counter
  is then the number of probes; and `OutcomesFreeSlots`, that any outcome ends
  the saturation. What is left to fairness is that attempts end. `LeakIsForever` is the
  other side: a saturated breaker with nothing in flight stays so in every behaviour.
- `DispatchProofs`: `LoopUsesBreaker`, that `Dispatch` implements `BreakerCalls` under
  the identity mapping; with it the breaker's theorems hold of the loop, and
  `LoopTypeCorrect` takes the breaker's types from there. `LoopImplementsCircuit`,
  `LoopKeepsBreakerSound`, `LoopSaturationHasProbes` and `LoopLeakIsForever` are those theorems
  of the loop, `MaxWaits * RouteTimeout` being how long an attempt can last. `DeadlineAlwaysShared` and
  `NeverSentTwice` rest on `LoopInv`: at each await, what had elapsed when it began and
  the timeout or the sleep fit into the deadline, an attempt is no older than the timeouts
  of its waits so far less what is left of the present one, and a
  request that may not be repeated is at its first attempt or through. So does
  `OverrunIsOneAttempt`, that a request outlives its deadline by at most
  `(MaxWaits - 1) * RouteTimeout` or by less than `Lag`: the violation of `DispatchDeadline`
  is due to the number of waits.
- `GatesProofs`: `TypeCorrect`, `SlotsNeverLost`, `WakeupsNeverLost`, `WaitsBounded`, from
  `IInv`: the types, that where a request is says how many slots it has (`Shape`), that
  each gate accounts for its slots, its waiters and its woken ones (`GatesOK`), and the
  bound on the wait. A slot is free, held, or promised to a woken waiter; the races
  of a grant and a timeout move it from one to another. Each operation on the
  semaphore is shown to keep one gate in order for any limit, and a request's walk
  through its path is a sequence of those. `NeverGridlocked` (`NoGridlock`), for gates with room
  for at least one, goes through the gates from the innermost one out: a
  gate where somebody waits unwoken is full, and whoever has or was promised one of its
  slots runs, is woken, or waits further in. It is the safety half of `Served`.
- `GatewayProofs`: `GatewayUsesGates` (the process implements `ConcurrencyGates`),
  `GatewayKeepsSlots`, `GaugeExact`, `ShutdownClean`, from `GatewayInv`: `IInv`, the gauge, and
  what the process's state says about its clients and requests. A new process makes new
  gates; that this is a stuttering step of the gates is because an idle gate is as new.
  `GatewayNeverStalls` carries `NoGridlock` over: while there is a request, one is reading
  its body, at the limiter, dispatching, being answered, or woken.
- `BucketProofs`: `TypeCorrect` and `BudgetKept`, from `Inv`, the types, the budget,
  that nothing was spent before the first script, and that `earliest` is not after `start`. Each script adds at most `Rate`
  for each tick elapsed, and what `last_refill_ms` loses by going back, `rewound`
  gains. `AllowedArePaid` counts all calls that were granted, answered or not.
  `RetryAfterIsPrecise` and `HeaderIsWithinSecond` are arithmetic of the refill.
  `ExpiryGivesNothingAway` (`InOrderBudget`) assumes clocks at most `k` ahead and
  `Capacity <= Rate * (Ttl - MaxDelay - k)`, which the hour of `ttl_seconds` meets for every
  bucket that fills in less; its invariant `Aged(k)` says that a key that is gone was
  idle for `Ttl`. From `Recent(k)`, its part that needs no assumption on `Ttl`, follow
  `RewindsBounded`, that one script moves `last_refill_ms` back by at most `MaxDelay + k`, and
  `SpendingBounded`, the budget by the wall clock. `BurstThenRateInOrder` gives the
  documented contract itself, counted from the earliest reading, for one clock, as long as `rewound` and `restarts` are 0: the
  violation of `BucketBurst` is due to the order of the scripts.
- `WindowProofs`: `WindowTypeCorrect`, `AllowedAreCounted` and `RetryAfterAlwaysExact` from
  `Basic`; `WindowNeverOverfull` and `StretchesNeverOverfull` from `Timed(k)`, for clocks at
  most `k` ahead and `Window + MaxDelay + k <= Ttl`: every call admitted is still in the
  sorted set or too old for any script that may yet run. Without the assumption the key
  may expire under a late script. `InOrderWindowsExact` adds the step property
  `AdmitsInOrder`, that no call is admitted with a reading older than one seen before: then
  every rolling window keeps the limit, since a call that joins a stretch joins the
  current window together with all that is in the stretch.
- `PoolProofs`: `SelectionsHealthy`, from the invariant that the cycle is a non-empty
  list of instances of the signature it was made for; `TurnsAreFair`, from `Fair`, that it
  is a weighted shuffle of those and `picks` counts its first entries; `PoolTypeCorrect` and
  `StatusNeedsRun` (`Hysteresis`), from `Tracked`, that the counters count the last results
  that agree; `ShadowedInstancesUnused`, from `Shadow`, that no round gets past an instance
  whose check raises.

Assumptions: the named ASSUMEs on constants (`ConfigAssumption`,
`CallersAssumption`, `DispatchAssumption`, `GatesAssumption`, `CallAssumption`,
`BucketAssumption`, `WindowAssumption`, `PoolAssumption`), which say that sizes are natural
numbers, positive where the code divides by or waits for them, and that requests are
finitely many; and those above that a theorem states itself.

Only model-checked: the liveness properties `HalfOpenNeverStuck`, `Answered`, `Served`,
`ShutsDown` and `Converges` (TLAPS here does not reason about ENABLED and fairness). Proved of
them is what they rest on: for `HalfOpenNeverStuck` see above; for `Served`, that somebody can
always move and no wakeup is lost; for `Answered`, that time in the loop is bounded
(`DeadlineShared`, `OverrunBounded`); for `ShutsDown`, `NeverStalled`. `Converges` has only
`Hysteresis` beside it. The definitions
`ProbeCap`, `SaturatedByProbes`, `OutcomeFrees`, `Leaked`, `OverrunBounded`, `NeverStalled`,
`EveryWindow`, `AdmitsInOrder` and `ShadowedNeverUsed` are in no run: their theorems
say more than one would.

## Not modelled, and why

Header cleaning, JSON bodies, metrics other than the gauge, and logging have no state
a property here depends on. `LoadShedder` is a stateless comparison that nothing
calls. The control plane creates, lists and reads tenants, each in a database session of
its own; its state and its atomicity are the database's, and the gateway does not read
it. The demo services stand for backends, which the models let answer anything, or nothing.
Settings and schema are declarations; their values are the constants. Path matching
(`fnmatch`) is string matching without state: `ReadBody` takes either outcome. `Dispatch`
sees of the pool only whether an instance is routable, as the loop does not depend
on which one is selected.
