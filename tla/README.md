# A TLA+ model of the express402 relayer

TLA+ specifications of the relayer in `src/src`, model-checked with TLC on small
instances, and theorems about scheduler, pipeline, admission, wallet pool and the
supporting components, proved with TLAPS for instances of every size.

## 1. The system

A client posts an EIP-712 signed transaction; the relayer checks it, stores a row in
PostgreSQL, queues a task in memory, sends the transaction with one of its own wallets
and follows it on the chain until it is confirmed. Everything runs as tokio tasks in
one process: one task per HTTP request, one execution loop, one tracking loop, and
clean-up loops. What they share is behind `RwLock`s, one per field, that are
held for a few lines and given up before the next `await`.

| Component | State | Operations | Correct when |
|---|---|---|---|
| Task scheduler, `queue/scheduler.rs` | heap, processing list, completed and failed results, each behind its own lock; a semaphore | schedule, get next, start processing, complete, retry, cancel, status, clear | a task has one live copy, none is lost, a cancelled one never runs again, retries end, the status is truthful |
| Task executor, `queue/executor.rs` | none of its own | the execution loop: take, acquire a wallet, read the nonce, send, update the row, track, release, complete, retry | a request is sent once at most; wallet and row are cared for on every error path |
| Transaction tracker, `queue/tracker.rs` | map of sent transactions | add, the tracking loop: receipt, block number, update, remove | confirmed only at the required depth; every outcome reaches the row |
| HTTP gateway, `api/gateway.rs` | shares all of the others | submit, batch, cancel, status, paged queries, health report, admin handlers | a refused request leaves nothing behind that matters; a cancellation and the executor never both win; paging misses nothing; a report is true |
| Database, `database/`, `migrations/` | rows with a status and a CHECK constraint | create, update status, pages and totals, search | a final status stays final |
| Wallet pool, `wallet/pool.rs` | wallets, active addresses, usage, each behind its own lock | add, remove, choose (four strategies), acquire, release | the three stores agree, counts agree, no wallet is passed over for ever |
| Replay protection, `security/replay.rs` | nonces per user with timestamps | check and record, clean-up | a nonce counts once per window |
| Rate limiter, `api/auth.rs` | instants of the admitted requests per identifier | check | three sliding windows hold |
| Signature verifier, `security/signature.rs` | a nonce cache, cloned per request | verify | |
| Service manager, `services/mod.rs` | builds and starts everything | start in steps that may fail, load keys, background loops, shut down, health report | nothing is sent twice after a restart; a report is true |
| Configuration, `config/settings.rs` | none | defaults, `validate` | what it accepts can be started |
| Cache, `cache/` | two tiers, memory and Redis | get, set, delete, clear | no stale value comes back |
| Circuit breaker, metrics, `api/middleware.rs` | state, recovery timers; counters | call, record | a broken service is retried in the end |
| Concurrency controller, `queue/concurrency.rs` | semaphore, active tasks | acquire, release, clean-up, adjust | the load of the active tasks keeps to its limit |
| Priority manager, `queue/priority.rs` | weights, multipliers, adjustments, history | set, score, recommend | a recommendation goes by the transaction's factors |
| Wallet monitor and alerts, `wallet/monitor.rs` | a shared list, a verdict per wallet, alerts | rounds of checks, alert, resolve | no false alarm, no missed one |
| Wallet rotation, `wallet/rotation.rs` | a shared list, counts, an index | rotate, force, should_rotate | all wallets get their turn |
| Balance checker, `security/balance.rs` | cached balances, a list to watch | check, preload, clear | a decision is made on a fresh balance |
| Gas price oracle, `utils/gas.rs` | current price and history, each behind its own lock | fetch, recommend, statistics | recommended fees lie within the bounds and can be sent |
| Simple gateway, `api/gateway_simple.rs`, `main.rs` | seven atomic counters | placeholders that count, statistics | the counters agree |
| API keys, `api/auth.rs` | a map of keys behind one lock | add, remove, authenticate | |
| Retry, crypto, time, validation, `utils/` | none | | |

Interactions: the gateway calls rate limiter, verifier, replay protection, pool,
database and scheduler in this order; the executor calls scheduler, pool, node,
database and tracker; the tracker calls node and database; clean-up loops run beside
all of them. Results travel through shared maps and the database row, never through a
reply to the waiting request.

What is hard in this code:

- *Interleaving and atomicity.* Every operation of scheduler and pool is several
  critical sections; a check and the act it guards are often under different locks.
- *Ordering.* Clocks are read before the lock whose contents they are compared with;
  a final row status and a late update by another task meet in an unconditional UPDATE.
- *Partial failure.* Node and database may fail at every call, in the middle of
  handlers that have already changed something; a reply may be lost.
- *Restart.* Queue, tracker and replay protection are in memory only.
- *Bounds.* Queue length, retries, permits, windows.

`PROJECT.json` lists the hazards one by one, with the line where each bites and the
properties that watch it.

A note on the build: `lib.rs` has queue, cache, database, services and utils commented
out ("Temporarily disable"), `main.rs` serves `gateway_simple.rs`, and
`queue/scheduler.rs` uses `task` in a tracing line after moving it. The specifications
model the source of these modules as it is written; the two tracing lines change
no state.

## 2. The modules

| Module | Models | State and actions |
|---|---|---|
| `TaskLifecycle` | the abstract promise about each task | a phase and a number of attempts per task; `Move`, `Take`, `Requeue` |
| `TaskScheduler` | `queue/scheduler.rs` | the four stores as variables with the source's names; one action per critical section (`ScheduleCheck`/`SchedulePush`, `RetryTake`/`RetryPush`, `CancelPending`/`CancelProcessing`, ...); program counters for submitters, workers, cancellers, readers and the clean-up |
| `TaskScheduler_proofs`, `TaskLifecycle_proofs` | theorems about it, and that it implements `TaskLifecycle` | section 5 |
| `RelayPipeline` | the way of a transaction: `api/gateway.rs` (submit, batch, cancel), `queue/executor.rs`, `queue/tracker.rs`, `database/mod.rs`, a start of `services/mod.rs` | an instance of `TaskScheduler` whose only worker is the execution loop; `stage` is where `execute_task` is, `check` the entry the tracker works on, `row` the status in the database, `mempool`/`mined`/`receipts`/`height` the chain; `DropSubmit` and `DropCancel` are clients that hang up; `Crash` loses what is in memory |
| `RelayPipeline_proofs` | theorems about it | section 5; it takes the scheduler's lemmas for the scheduler inside the pipeline by `INSTANCE TaskScheduler_proofs` |
| `WalletPool` | `wallet/pool.rs`, `WalletInfo` | the three stores, the wallets and the active addresses as functions from slots (a slot is where a vector keeps an element), users that choose, acquire and release, administrators whose calls overlap |
| `WalletPool_proofs` | theorems about it | section 5 |
| `RateLimiter`, `ReplayProtection` | `api/auth.rs` (limiter), `security/replay.rs` | one action per operation, with the clock as a parameter; the limiter's history is a set of numbered requests |
| `Admission` | `submit_transaction` up to the queue, the batch endpoint, the health of the wallets | composes the two, one action per check of the handler; `Execute` feeds the executor's results back into the check for a healthy wallet |
| `Admission_proofs` | theorems about the three | section 5 |
| `CacheManager` | `cache/memory.rs`, `cache/redis.rs` | the memory tier as a function from keys to entries, each with the keys accessed before its own, Redis as a map; one action per call into one tier; what each call met is kept as history |
| `ConcurrencyController` | `queue/concurrency.rs` | the controller and its clones: a semaphore for each, which `adjust_concurrency_limits` replaces for one of them, and the list of active tasks they share, as a function from places; where each caller is in `acquire_permit`; a load is counted in units |
| `CircuitBreaker` | the breaker of `api/middleware.rs` | state, timers asleep, what each caller read before it called |
| `GasPriceOracle` | `utils/gas.rs`, the choice of fees in `queue/executor.rs` | configuration, current price, history; the recommendations as operators |
| `BalanceChecker` | `security/balance.rs` | a check in its look, question, stamp and store; the wallets' balances change meanwhile, and `held` remembers when each was the balance; a list of addresses is a set, looked through in any order |
| `WalletMonitor` | `wallet/monitor.rs` | a round asks the node three times for each wallet of a copy of the list, in any order, one action per answer; alerts are raised one by one and counted per wallet and type |
| `WalletRotator` | `wallet/rotation.rs` | a rotation copies the list, orders it (round robin, a stable sort, or at random: a set of orders each) and counts its wallets one by one |
| `PriorityManager` | `queue/priority.rs` | the setters and the history as actions, scores and recommendation as operators |
| `SimpleGateway` | `api/gateway_simple.rs`, the state of `main.rs` | relaxed atomics: a handler's additions, and a reader's loads, are sets of steps that happen in any order |
| `TransactionQueries` | the paged queries of `database/mod.rs` and their handlers | a table that changes, and a client that reads page after page; the rows that must turn up are history |
| `Settings` | `config/settings.rs` | `Default`, `Broken` (is a rule of `validate` broken?) and `Validate`, as operators |
| `ServiceManager` | `services/mod.rs`, `GET /health` | how far the start is; the wallets by the place of their key in the list; a report asks one service after the other while the world changes |
| `Support` | the eleven from `CacheManager` on, side by side | they share no state, so every behaviour works with one of them (`focus`) while the others rest; `ServiceManager` extends `Settings`; `MCSupport` adds the configurations TLC checks it with |
| `SupportStores_proofs`, `SupportLists_proofs`, `Support_proofs` | theorems about them: cache and concurrency controller; rotation and paging; the others, and all of them together | section 5 |
| `MC...` | instances for TLC | symmetry sets, model values |

`PROJECT.json` maps each definition to its lines.

Conventions. An action is what happens between two points at which others can
observe or act: a critical section, a database statement, a call of the node. A
definition whose comment begins with "Mutation" is a plausible bug, used only to test
that the property next to it can fail. Variables under "history" are read by
properties only.

What is abstracted everywhere: payloads, signatures and amounts; the wording of errors
and logs; statistics nobody decides on. In particular:

- A batch of requests is several submitters; `process_single_transaction`
  asks neither verifier, replay protection nor pool, so `RelayPipeline` has no gate
  before `Store`, and `Admission` models the gates.
- `update_transaction_status` writes `submitted` after a send, which the CHECK
  constraint of the migration does not admit: `UpdateRow` treats it as the error it is.
- The chain does not reorganise. A node keeps one transaction per wallet and nonce; it
  may refuse a second or let it displace the first, and drops none it has taken otherwise.
- A statement of the database takes effect or fails. For an INSERT there is a third case, that it
  is committed and its reply is lost (`Store`); an UPDATE repeated after a lost reply writes the
  same again.
- The nonce verifier works on a clone of its cache, so all it refuses is the nonce 0.
- Three kinds of resources are one load in `ConcurrencyController`: the code checks them
  alike. Two accesses of the memory cache never happen at the same `Instant`; if they
  did, `evict_lru` could find nothing to evict.
- `wallet/pool.rs:59` makes an address of the last 20 bytes of a hash by `Address::from_word`,
  which takes 32: `try_into().unwrap()` panics for every key, whoever calls `add_wallet`, the start
  (`services/mod.rs:227`) included. In `WalletPool` the constant `Derives` says whether that line
  derives an address, and in `ServiceManager` the constant `Usable` says of which keys. The
  instances check the pool with that line mended; the code as it stands ends the start at the first
  key of 32 bytes (a key not in `Usable`) or has a pool that stays empty (no key, or short ones
  only), one of the two states `RelayPipeline` may begin in. The theorems hold for both.
- Fees are whole tenths of a gwei; what f64 rounds below that is left out. So are the
  rounding errors of `PriorityManager`'s products: two scores that are equal by the
  arithmetic may differ in f64. Factors are positive numbers.
- A rotation's sorting strategies are stable sorts by keys of two values.
- `BalanceChecker` takes the patience of the node's client, `MaxFetch`, from outside: the
  code sets no timeout. The monitor's verdict on a balance is free.
- `Admission` has one transaction to a batch; several are several requests of that route.
  The executor's order of tasks does not matter there, so `waiting` is a number.
- In `Settings`, a string is empty or not, and a multiplier is a number (`validate` would let
  NaN pass).
- Replay protection is modelled as enabled (it is a configuration flag), and the
  database schema as in place.

## 3. What the runs check

All passing runs are exhaustive within their bounds.

| Run | Instance | Shows |
|---|---|---|
| `scheduler` | 2 tasks, 2 submitters, 2 workers, 1 canceller, 1 reader, queue length 1, 1 retry | `OneLiveCopy`, `NothingLost`, `CancelIsFinal`, `OutcomeIsUnique`, `NotFoundIsTruthful`, and that the scheduler implements `TaskLifecycle` (`LifecycleSpec`) |
| `scheduler_load` | 3 tasks, 2 priorities, 2 submitters, 1 fair worker, queue length 1 | `QueueBound`: by how much `max_queue_size` can be exceeded; `EndsUnlessOvertaken`: every accepted task comes to an end, unless others are taken before it for ever |
| `relay` | 2 requests, 2 handlers, 1 cancellation, no or 2 wallets, 1 restart, every failure of node and database, lost replies, clients that hang up | what the client reads agrees with what was done: `CancelledNeverSent`, `SentOnce`, `PendingHasOwner`, `ConfirmedIsDeep`, `PoolAgreesWithResults`, `RowMovesForward` |
| `relay_report` | 2 requests, 1 wallet, fair loops | `MinedIsReported`: the outcome of a tracked, mined transaction reaches its row |
| `pool` | 2 users, 2 administrators, 2 wallets, 4 strategies, 2 permits under round robin and 1 under the others, 2 changes, 3 selections under round robin and 2 under the others | `StoresAgree`, `CountsAgree`, `BoundedOvertaking`, `NoneOnlyInARace` |
| `admission` | 2 handlers, 1 user, 2 nonces, 4 requests, 5 instants, 1 wallet with two kinds of past | `RateBound`, `NonceOncePerWindow`, `RecentNonceIsKnown`, `RowPerRecord`, `OnlyABatchReopens` |
| `support` | the eleven supporting components, each within the bounds below | `StaleNeedsARace`, `LoadBound`, `StuckOnlyByProbe`, `RecommendationsSendable`, `HitIsRecent`, `GapNeedsRegression`, `RotationsBalanced`, `ReportErrorBounded`, `FactorsNeverDecide`, `PagesMissNothing`, `ReportTruthful` |
| `scheduler_priority` | violated: `HigherPriorityFirst` | `Ord` is turned round: the heap serves the lowest priority first |
| `relay_retry` | violated: `FailureIsRetried` | the executor completes a task before it asks for the retry, which then finds nothing |
| `relay_nonce` | violated: `NoNonceConflict` | two transactions of a wallet in a row carry one nonce |
| `pool_rotation` | violated: `RotatesOnEachCall` | `get_next_wallet` does not rotate |
| `admission_retry` | violated: `RetryIsWelcome` | a request refused for want of a wallet is a replay when sent again |

The five violated properties state what a comment, a test or the README of the
repository says; `PROJECT.json` quotes it under "findings".

### Bounds, and why they are enough

- Tasks, callers, wallets: what can go wrong between critical sections takes two actors
  on one task, or two tasks that compete for one slot; the instances have both, and a
  third task where the length of the queue is the question.
- `MaxQueueSize = 1` makes "full" and "checked by two at once" happen with two tasks.
- `MaxRetries = 1` has an attempt that may be retried, one that is the last and one that
  is refused; the code's constant is 3.
- `ConfirmationBlocks = 1`, `MaxHeight = 4`: mined but not deep enough, and deep enough,
  for each of two transactions. `Mine` keeps the height below `MaxHeight` far enough for
  its confirmations.
- `scheduler_load` has three tasks. That shows how a cycle of attempts and retries ends; it
  cannot show what happens while new tasks keep arriving. With the comparison of
  `queue/scheduler.rs:34` they are taken before one of a higher priority for ever, which is why
  `EndsUnlessOvertaken` makes that exception.
- Pool: two calls of `add_wallet` and `remove_wallet`, of one address or of two, that overlap each
  other and the users in every way; two permits under round robin, so that two acquisitions
  choose the same wallet, and a third selection, which it takes to pass a wallet too often.
- `MaxCrashes = 1`: a second restart finds a state the first could have left.
- `Minute = 1`, `Hour = 3`, `Day = 5` and limits 1, 2, 3, with four requests and five instants:
  each of the three windows is the only one that refuses in some behaviour. `RateBound` fails when
  any one of the three checks is taken out.
- In `admission` the wallet is new, so that one failure makes it unhealthy, or has five
  transactions behind it of which one failed, so that one success heals it: the run may
  begin in the middle of the service's life, after a quiet day. It thus shuts and is
  reopened by a batch within four requests.
- `MaxSize = 1` makes every second key evict the first; which of several entries is the least
  recently used is thus not exercised by TLC (`StaleNeedsRaceOrFault` is proved for every size). Two
  loads of 60 that race exceed the limit of 100, one does not; a controller and a clone of it, one
  adjustment of one of them. `MaxTimers = 3`: as many timers as callers, so
  that each caller's failure may have one. `MaxHistory = 2` (1000 in the code) is
  reached by the third fetch. The configurations of the oracle are the defaults, two that
  leave exactly enough room for 1.3 times the priority fee, and one that does not.
- Balance: two checkers that ask for one wallet, `MaxFetch` below `CacheTtl = 2`, and time for an
  entry to be replaced and to expire (`MaxNow = 5`). One address is enough: entries of
  different addresses meet only in a list, whose order the state keeps.
- Monitor: one wallet, one round at a time, a gap of 1 allowed, nonces up to 2: a node that takes
  two nonces back between two questions causes the alarm, one does not.
- Rotation: two wallets, one of them worn, two callers, two rotations of each wallet: a forced
  rotation, which counts twice, overlaps another.
- Simple gateway: two handlers, two requests, one reader. Queries: three rows, pages of one row,
  three instants: a row inserted before, between and after two that are being read, and one that
  leaves the query. `Cap = 2` (100 in the code) cuts a limit of 3. One user: the rows of another are
  a part of the table that the query never sees.
- Priorities: weights 0 and 5, multipliers 0.1 and 3, two changes in a row: each
  of the four priorities is the best in some state.
- Service: seven configurations (no key, a short one, a doubled one, one that is no key; no worker; no
  provider's URL), and two changes of the world at any moment of a report: one service
  fails while another recovers.
- The deadlock check is off where the bounds let the model run out of work (no requests
  left); it is on in the `scheduler` run, whose reader can
  always ask again. In the `support` run it is off because the circuit breaker really may
  stop: open, with no timer, it refuses every call for ever.

### Fairness

- `TaskScheduler!FairSpec`: weak fairness of each worker. A worker is a loop that waits
  for locks and for calls that return. Nothing is assumed of submitters or cancellers.
- `RelayPipeline!FairSpec`: weak fairness of the execution loop, the tracking loop (both
  are spawned once and never end) and of block production; strong fairness of a good
  answer of the node and the database in the tracker: a call that is made again and
  again does not fail for ever. No fairness of handlers.

A fair worker does not make the queue fair. A task that waits while others arrive without end may
be overtaken by each of them, so no property says of a single accepted task that it is ever taken.

## 4. What the checks say about the code

Right: in spite of its fine-grained locking the scheduler neither loses nor doubles a
task, and a cancellation is final. `retry_task` removes before it pushes and
`get_task_status` reads in the order in which tasks move, and the mutants show that
both matter. That no transaction is ever sent twice (`SentOnce`) rests on the
retry path never working: with the fresh nonce an attempt reads, a retry after a lost
reply would be a second payment, as the mutant of that property shows. A final
row stays final although UPDATE is unconditional, because only what `cancel_task` took
out of the queue is written as cancelled.

Wrong or surprising: the five findings above, and the panic of `wallet/pool.rs:59` (section 2),
because of which no wallet is ever loaded. `QueueBound` is the true bound of the queue.
`leaked` in `RelayPipeline` names the cases in which a row stays pending or processing for ever;
without any one of them `PendingHasOwner` is violated:

- the reply to the INSERT is lost, or the client hangs up between it and the queue
  (`api/gateway.rs:903` to 917), or the queue is full there;
- a cancellation is cut off between the task and its row (1145 to 1158), or that update fails;
- the pool is empty when the executor asks, or its update to `failed` fails;
- another transaction with the same nonce displaces one that is sent and tracked;
- a restart.

Of the other components:

- `add_wallet` and `remove_wallet` of one address that overlap leave it active without a
  `WalletInfo`, or the reverse. Every later choice of such a wallet returns None, until one of the
  two runs for it alone (`StoresAgree`, `NoneOnlyInARace`).
- A `get` whose value is under way from Redis to memory brings back what a `delete` or a
  newer `set` has removed. `StaleNeedsARace` says that such a race, or a failure of
  Redis in the middle of a write, is the only way.
- `check_resource_limits` is not atomic with the registration: the limit holds only up to one load
  for every permit but one (`LoadBound`), of all semaphores in use: a clone keeps the old one when
  `adjust_concurrency_limits` gives its sibling another, and both fill one list. A dropped permit
  leaves its task in the list until the timeout or a `release_permit`, although the test at
  `queue/concurrency.rs:366` expects none. The limits given as `max_cpu_usage` and so on are not
  read; the limit is 100.
- The breaker opens at the first failure (`failure_threshold` is not read), lets any number
  of calls through while half open, and after a failed probe stays open unless a timer of
  an earlier failure is still asleep (`StuckOnlyByProbe`).
- The priority fee has no upper bound. The validation of the settings (`min < max`,
  multiplier above zero) admits bounds for which every recommendation has a priority fee
  above its max fee; `RecommendationsSendable` states what they must satisfy.
- A wallet whose success rate falls to 0.8 does not recover by itself, and a first failure
  makes the rate 0. Once no wallet is healthy and the queue is empty, every single request
  is refused until somebody posts a batch, whose path has no such check
  (`OnlyABatchReopens`), or restarts the service.
- A cached balance is at most a time to live and one answer of the node old
  (`HitIsRecent`), because it is stamped before the wait for the lock; that a late answer
  replaces a newer one does not change that.
- The monitor's nonce gap compares a nonce with itself (`wallet/monitor.rs:101`): only a node
  that takes a nonce back can cause the alarm (`GapNeedsRegression`), and no number of
  stuck transactions does. The monitor that `services/mod.rs` starts has no wallets to
  look at, and `get_monitoring_stats` subtracts two counts of which the second may be larger.
- A round robin rotation moves its index by the length of the list, so it returns the
  list as it is (`RotationsBalanced`).
- The factors of a transaction multiply the scores of all priorities alike, so with the weights
  that `new` sets every recommendation is critical (`FactorsNeverDecide`). Only the confidence goes
  by them.
- The gauge of pending transactions equals the total of all ever submitted once the handlers are
  through: nothing counts it down (`ReportErrorBounded`).
- Paging loses rows when a row before the page leaves the query, or where two rows have one
  `created_at`; otherwise it may repeat rows, but misses none (`PagesMissNothing`). Page 0 is a
  panic or an error of the database. A filter beside `status` and `priority` is ignored unless
  it is the user alone.
- `GET /health` answers 503 when the database alone is down, and 200 with "degraded" when the
  database and the provider, or all wallets, are (`ReportTruthful`): the later word overwrites the
  first. Nothing calls `validate` before the start, and the defaults do not pass it (no
  keys). `shutdown` ends none of the loops.

## 5. What is proved

Each theorem holds for every value of the constants that satisfies the assumption of its
module: any number of tasks, callers, wallets and requests, any bound and window. The
assumptions say what the code's types say (ids are not `None`, weights and counts are
naturals), that sets whose members are counted (workers, submitters, handlers, users) are
finite, and that the bounds of the model are numbers. TLC evaluates them in each run.

**`TaskScheduler_proofs`**, from `SchedulerAssumption`:

| Theorem | Property |
|---|---|
| `TypeCorrect` | `TypeOK` |
| `OneLiveCopyHolds` | `OneLiveCopy` |
| `CancellationIsFinal` | `CancelIsFinal` |
| `OutcomesAreUnique` | `OutcomeIsUnique` |
| `NothingIsLost` | `NothingLost` |
| `QueueIsBounded` | `QueueBound` |
| `NotFoundIsHonest` | `NotFoundIsTruthful` |
| `AttemptsAreBounded` | `AttemptsCounted`: no task is taken more than `max_retries + 1` times |

The inductive invariant `IInv` is the conjunction of

- `Types`: the type of every variable, and a worker that is not idle holds a task;
- `Ownership`: `OneLiveCopy`, with what makes it inductive: whatever is in a list or a
  hand was accepted, and what a submitter is about to push was not, nor is it anybody
  else's;
- `DeadStayDead`: a cancelled id is in neither list and in nobody's hand, nor is one
  that a canceller has already taken out of the heap;
- `Results`: an id with a result has no live copy left that could produce another.

`OneLiveCopy` alone is not inductive: a state in which a worker holds a task that also
has a result would allow a second result, and one in which a submitter's id is already
queued would allow a second copy. `NothingLost` is inductive relative to `IInv`: a
removal from the processing list is harmless because, by `Ownership`, what is removed is
the worker's own task. `QueueBound` rests on `Room`, a count: first attempts in the heap
and submitters that have passed the check together are fewer than the bound and all
submitters; the whole heap, these submitters and the busy workers fewer than those and all
workers. `NotFoundIsTruthful` rests on `ReadersInOrder`: a task moves only towards
stores that a reader has yet to look at, so that one he has missed so far has been in
no store at some moment since he began.

**`TaskLifecycle_proofs`**: `SchedulerImplementsLifecycle`, that the scheduler implements
`TaskLifecycle`. `Phase` is a function of the stores (`PhaseIs`); each action leaves all tasks but
one where they are (`Untouched`) and makes one `Transition` of that one. Beside `IInv` the mapping
needs `Counts`, that the attempts of a task are the `retry_count` of its live copy, and one more
once a worker has taken it. `AttemptsAreBounded` rests on `Counts` too: what bounds the attempts is
`retry_task`'s check of a number that a copy has carried through worker, processing list and heap,
whatever cancellations and other workers did on the way.

**`RelayPipeline_proofs`**, from `RelayAssumption`. What holds of the scheduler is not
proved again: the module instantiates `TaskScheduler_proofs` for the pipeline's scheduler
and cites its lemmas.

| Theorem | Property | rests on |
|---|---|---|
| `RelayTypeCorrect` | `TypeOK` | `RInv` |
| `CancelledIsNeverSent` | `CancelledNeverSent` | `Cancelled`: what is dead for the scheduler has not been sent, and its row is pending or cancelled |
| `RequestsAreSentOnce` | `SentOnce` | `Unsent`: whatever waits in the heap or is on its way to the node has not been sent; nothing is ever in the processing list, so no retry brings back what was |
| `RowsMoveForward` | `RowMovesForward` | `Tracking`: of what is tracked, only an entry about to be removed has a final row |
| `ConfirmedRowsAreDeep` | `ConfirmedIsDeep` | `Confirmed`: so is the verdict the tracker is about to write |
| `PendingRowsHaveOwners` | `PendingHasOwner` | `Handover`: where the executor leaves a task the tracker has it, its row is final, or the case is in `leaked`; `Awaited`: a tracked transaction can still be mined, for which `Nonces` says that no two in the node's pool share wallet and nonce |
| `PoolCountsResults` | `PoolAgreesWithResults` | `Agreement`: uses are pairs of a wallet and a number, so that counting them needs no sum |

`RInv` is the scheduler's `IInv` and six parts of the pipeline's own: `Control` (where the
executor is agrees with the worker's state), `RowTypes`, `Requests`, `Unsent`, `Cancelled`,
`Tracking`, `OnChain`. They are inductive together only: that a cancelled row stays cancelled
needs that the executor cannot hold the task, which needs the scheduler's `DeadStayDead`.

**`Admission_proofs`**, from `AdmissionAssumption` (the limiter's and the replay
protection's among them):

| Theorem | Property | rests on |
|---|---|---|
| `WindowsHold` | `RateBound` | `History` (the limiter keeps all that was admitted within a day) and `Keeps`, the bound for each window ending at *any* instant so far, as clocks are read late |
| `RecordsAreKnown` | `RecentNonceIsKnown` | `StillKnown`: a record that is live at the present moment has an entry, whatever older cutoff a late clean-up uses |
| `NoncesAreGoodOnce` | `NonceOncePerWindow` | the same, at the handler's own stamp |
| `RowsHaveRecords` | `RowPerRecord` | `RowsAreCovered`: rows and handlers past the check are covered, one by one, by records |
| `AdmissionTypeCorrect` | `TypeOK` | `TasksHaveArrived`: what waits or is in flight has arrived |
| `ShutUntilABatch` | `OnlyABatchReopens` (an action property) | `Types`, and that each step of a handler but a batch's leaves a service shut that is |

**`WalletPool_proofs`**, from `PoolAssumption`:

| Theorem | Property | rests on |
|---|---|---|
| `PoolTypeCorrect` | `TypeOK` | `Types` and `Permits` |
| `StoresAreEqual` | `StoresAgree` | `Stores`: what the three stores know of a wallet under change, section by section, as long as only additions or only removals of it are under way |
| `NoneNeedsARemoval` | `NoneOnlyInARace` (an action property) | `StillThere`: whoever no removal has overlapped looks for a wallet that is there, or whose changes have mixed |
| `CountsNeverDrift` | `CountsAgree` | `Once` (one entry to a wallet that is not being changed) and `Counted`: the two counts differ by those between the two locks |
| `OvertakingIsBounded` | `BoundedOvertaking` | `Overtaking`: how often *a* has passed *b*, and those who have chosen *a* without seeing that it is newer than *b*, are together at most the users |

**`Support_proofs`, `SupportStores_proofs`, `SupportLists_proofs`**, from
`SupportAssumption`: for each component an invariant of its own variables; every step of
another component leaves them alone.

| Theorem | Property | rests on |
|---|---|---|
| `LoadIsBounded` | `LoadBound` | `Overload`: the load of the list and of all that are about to join it; sums of loads are counts of units, so that no induction over the list is needed |
| `StaleNeedsRaceOrFault` | `StaleNeedsARace` | `WritersAreSuspected`, `WritersMeet` and `UnmetStands`: two calls on a key of which one writes have met, and a write that has met nobody stands in memory |
| `ProbesAloneGetStuck` | `StuckOnlyByProbe` | inductive together with `TypeOK` |
| `RecommendationsCanBeSent` | `RecommendationsSendable` | `GasInv`: the current price is the default one or a fetched one, and has room for its priority fee; products cut to a whole number are monotonic |
| `HitsAreRecent` | `HitIsRecent` | `HeldUntilNow`, `AnswersAreRecent`, `StampsAreRecent`: what is asked, on its way or stored was the balance at its stamp, or later |
| `GapsNeedARegression` | `GapNeedsRegression` | each nonce gap in a round, a verdict or an alert is excused by a node that took a nonce back |
| `RotationsStayBalanced` | `RotationsBalanced` | `Balanced` and `WholeTurns`: what is counted and what is still awaited add up alike for all wallets that stay; the index moves by whole turns |
| `ReportsNearlyAgree` | `ReportErrorBounded` | `RequestsAgree`, `LacksAtMostOverlap`, `ReportAgrees`: totals count what handlers have still to add |
| `FactorsDoNotDecide` | `FactorsNeverDecide` | a score is a product of what the priority brings and of what the factors bring |
| `PagesAreComplete` | `PagesMissNothing` | `NonePassed`: the rank of each due row not yet seen is at or beyond the offset; ranks only grow, and without ties a row's place is its rank |
| `ReportsAreTruthful` | `ReportTruthful` | `ReportIsTrue`, that the word so far is true of what has been asked so far, and `WalletsOfKeys` |
| `SupportTypeCorrect` | `TypeOK` | all of the above, and the bounds of each component |

The proof that a step preserves an invariant has one step per action and, below it, one per
part of the invariant that the action can disturb. Each invariant was first checked by TLC
on the instances of section 3; `SupportInv`, the conjunction of those of the supporting
components, on that of `support`.

Only model-checked:

- Liveness, `EndsUnlessOvertaken` and `MinedIsReported`: the prover has no rules for fairness.
- The five violated properties of section 3: TLC has a counterexample to each.

## 6. Not modelled

- API keys (`AuthManager`): a map behind one lock, one critical section to each operation, and
  `auth_middleware` is on no route, so that nothing could interleave.
- The old persistence layer, `cache/persistence.rs`: it has no caller, and `database/mod.rs`
  took its place.
- `utils/retry.rs`: no caller. Its default patterns are lower-case words looked for in error
  texts, which would be a model of wording.
- The helpers for crypto, time and validation: pure functions over bytes and
  strings. `Admission` and `RelayPipeline` take their verdict as arbitrary.
- The recovery of a signer in `security/signature.rs`: a placeholder that accepts every signature
  of the right form; the nonce check around it is in `Admission`.
- The handlers that only read (statistics, metrics, gas price, admin), logging, request metrics.
- Setters that need exclusive access to a component that is shared from the start:
  the pool's strategy, the oracle's bounds and multiplier, the balance checker's threshold and
  ttl, the monitor's thresholds, the rotator's policy (`set_rotation_policy`).
- `should_rotate`, a call of its own that reads, decides nothing for `rotate_wallets` and is not
  called by it.
- Callers dropped in the middle of an operation, but for `DropSubmit` and `DropCancel` of
  `RelayPipeline`. Elsewhere no fairness is assumed of a caller, so one that never takes its next step
  stands for one that was dropped, and what is left half done stays "under way": for the
  exception in `StoresAgree` a dropped `add_wallet` is still at work, and the counts of
  `RotationsBalanced` await for ever what a dropped `rotate_wallets` has not counted.
- Releases of several users at once in `RelayPipeline`, whose executor is sequential; `WalletPool`
  has them. A wall clock that steps back: clocks only advance.
- `remove_wallet`, `clear_completed_tasks` and `start_processing` have no caller in
  `src`, but they are modelled as public operations of their components; so are the
  concurrency controller, the rotator and the priority manager as a whole.
  `remove_transaction` of the tracker, without a caller either, is not.
- The gas price in `RelayPipeline`: none of its decisions depends on it (the choice itself is
  in `GasPriceOracle`).
- Cache operations on several keys, which `CacheManager` does not use; the statistics of
  prices, whose only reader is a report.
- `run_migrations` (a second start would fail on `CREATE TRIGGER`); `from_env` and `from_file` of
  the configuration, which are a library's parsing.
- Restarts in `Admission`: a crash forgets the wallets' counts and the nonces; `RelayPipeline` has
  crashes.

## 7. Plan

Every invariant and action property of the passing runs has its theorem. What is left, in
this order:

1. An abstract specification for `CacheManager`, a register per key, with the races as
   its only exceptions, and the refinement proved; `UnmetStands` is the greater part of it.
2. An abstract specification of a request as its client sees it (unknown, pending, sent,
   final), implemented by `RelayPipeline`, as `TaskLifecycle` is by `TaskScheduler`.
3. The safety half of `MinedIsReported`: what is tracked and mined stays tracked until its
   row is final.
4. The statistics of the tracker and the metrics handlers, as readers of several stores
   at different moments.
