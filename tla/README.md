# A formal model of the trading platform

TLA+ modules, model-checking configurations and machine-checked proofs for the
programs under `trading-platform/` of this repository: a simulated trading
platform of nine services, a load generator and a UI that meet in Postgres,
Redis and Kafka.  This document says what the parts of the platform are, which
of them are modelled and how, what the checks and the proofs show, what is left
out, and what could come next.

## 1. The system

| Component | State | Operations | Talks to |
|---|---|---|---|
| **order-service** (`services/order-service/main.py`) | pool, producer and Redis client (each may be `None`), counters `metrics`, background tasks; tables `orders`, `trades`, `audit_trail`; keys `order:<id>` | `POST /orders`, `DELETE /orders/{id}`, `POST /orders/{id}/amend`, the reads, `execute_order` in the background, `lifespan` | risk-engine and quote-service over HTTP; Postgres; Redis; topics `orders`, `trades`, `order-updates` |
| **gateway** (`services/gateway/server.js`) | per-IP rate-limit records, latency buckets, request and error counters, WebSocket clients with `isAlive` | tracing middleware (one `await`), `rateLimit` and its clean-up timer, `proxyRequest` with a 10 s timeout, heartbeat timer, relay of `market-data` | all HTTP services; the UI's WebSocket |
| **risk-engine** (`services/risk-engine/main.py`) | positions, limits, margin, order history and snapshots per client | `/risk/check`, `/risk/{client_id}`, `/risk/portfolio`, stress tests, revaluation loop every 5 s | topics `risk-updates`, `compliance-alerts`; Postgres |
| **event-processor** (`services/event-processor/main.py`) | positions and minute bars per symbol; its consumer's offsets | one handler per topic, dead letters | all topics; `dead-letter` |
| **legacy-adapter** (`services/legacy-adapter/main.py`) | its consumer's offsets | turns `orders` and `trades` into legacy messages | topic `legacy-mq` |
| **analytics** (`services/analytics/main.py`) | KPI counters, samples, accumulators | consumer loop, flush loop every 10 s, reads | topics; Postgres; Elasticsearch |
| **batch-reconciler** (`services/batch-reconciler/main.py`) | the cycle under way, rows of `batch_jobs` | five steps per cycle, the stored result | Postgres |
| **quote-service** (`services/quote-service/main.go`) | one state per symbol under `mu`; keys `quote:<sym>` | `tick`, one goroutine per quote for the cache and one for the topic; read handlers | Redis; topic `market-data` |
| **market-data-sim** (`services/market-data-sim/main.go`) | one `InstrumentState` per symbol: price, extremes, ring buffer, countdowns of four events | `nextTick`, `realizedVol`, tick builders, one loop per rate | topic `market-data` |
| **traffic-generator** (`traffic-generator/main.py`) | metrics under an `asyncio.Lock` | normal traffic, bursts, chaos scenarios | gateway |
| **ui** (`services/ui/src/App.jsx`) | React state | polling, WebSocket with reconnection | gateway |
| **schema, deployment** (`configs/`, `docker-compose.yml`, scripts) | – | static | – |

How an order travels: the gateway forwards it to the order service; the order
service calls the risk engine, stores the order, caches it, announces it on
`orders`, answers 201 and executes it in a background task, writing `trades`
rows and publishing on `trades` and `order-updates`.  A cancel or an amendment
is a handler of its own that runs between the steps of that task.  Analytics,
the event processor and the legacy adapter consume the topics, and the event
processor also what the adapter and the risk engine publish.

### Where it is hard, and what must hold

* **order-service.**  Coroutines of one process share rows, cache entries and
  topics without any lock or transaction that spans two calls; statuses are
  read in one statement and written in another; most failures are swallowed;
  tasks die with the process.  No piece of an order must trade twice; its row, its
  trades, its audit trail and the topics must tell one story or a log line must
  say why not; a refused order must not trade; a settled order must stay
  settled; every admitted order must come to an end; the cache must not hide
  the row for ever.
* **gateway.**  No window may admit more than the limit, and no client may be
  refused before it has used it up, whenever the clean-up timer fires; the
  error counter should equal the error answers; a responsive socket should
  survive the heartbeat.
* **risk-engine.**  A loop that is suspended at every publication shares the
  books of the clients with handlers that approve orders and create clients.
  Check and loop must judge the same book; alerts must tell what the snapshot
  implies; a failure or a new client must not end a pass; the engine must
  be told of the orders it is meant to watch.
* **event-processor, legacy-adapter.**  Offsets are committed in the background
  and by `stop()`, not when a message is finished; a message may end the
  process; groups are rebalanced, and Kafka deletes messages after an hour.  No
  message may be lost but those that a reset goes past; what is forwarded, booked
  and logged must fit; one bad message or one failed send must not hold up the
  rest.
* **analytics.**  Two tasks share the counters, and the flush is two calls with
  an `await` each; the processing of a message may raise halfway.  Counters must
  count every message that got as far; the two stores must hold the same KPIs; a
  bad sample must not end the flushes.
* **batch-reconciler.**  A row must be of a whole cycle and sum it up.
* **quote-service.**  The cached quote should not go back in time.

`PROJECT.json` lists the hazards with their lines and the properties aimed at
them; those that no property covers carry a note.

## 2. Modules

| Module | Contents |
|---|---|
| `OrderService` | The order service: one action per stretch between two awaits |
| `OrderExecution` | What it promises about the execution of an order: an abstract specification |
| `RateLimiter` | The gateway's rate limiter and its clean-up timer |
| `RiskEngine` | The risk engine, composed with what clients do at the order service |
| `TopicReader` | What a service that reads topics promises about each message: an abstract specification |
| `EventPipeline` | The event processor and the legacy adapter on common topics |
| `Analytics` | The KPI counters, their consumer and their flush |
| `BatchReconciler` | The cycles of the batch reconciler |
| `MC…` | The instances of each for TLC |
| `OrderServiceProofs`, `OrderServiceTheorems`, `RateLimiterProofs`, `RiskEngineProofs`, `TopicReaderProofs`, `EventPipelineProofs`, `AnalyticsProofs`, `BatchReconcilerProofs` | The theorems |

The Python services are one asyncio process each, so a coroutine is interrupted
only at an `await`: an action is the code from one `await` to the next.  A
definition whose comment begins with "Faulty variant" is not part of the
specification: it is the definition after it with a plausible mistake, and
`PROJECT.json` names it as the mutant that violates a property.

### OrderService

An action ends with the effect of the call it awaits on its backend.

| Variables | Code |
|---|---|
| `up`, `backends` | the process; which of `db_pool`, `kafka_producer`, `redis_client` are not `None` |
| `metrics` | the four counters of `metrics` (latency sums are left out) |
| `submit[o]`, `order_data[o]` | where `submit_order` stands for order `o`, and the quantity and kind it captured for the task |
| `task[o]` | where `execute_order` stands: `filled` (the pieces in its sum of fills) and `pieces` (how many there are: slices, rounds, or one) |
| `request[r]` | where the `cancel_order` or `amend_order` handler of request `r` stands |
| `logged[o]` | the kinds of swallowed errors logged about `o` |
| `orders[o]`, `traded[o]`, `audit[o]` | the row (its filled quantity in pieces), the number of its `trades` rows, the actions of its `audit_trail` rows |
| `cached[o]` | whether the key `order:<o>` exists; its value is always the submission as it was |
| `announced`, `reported[o]`, `updates[o]` | the topics `orders`, `trades`, `order-updates` |

| Actions | Code |
|---|---|
| `Receive` … `Created` | `submit_order`: risk answer, INSERT, SETEX, `orders`, audit; then, without an `await`, the counter, `add_task` and the 201 |
| `StoreRefused`, `AuditRefused`, `PublishRefused` | its branch for a refused order |
| `Begin`, `ErrorStatus`, `ErrorAudit`, `ErrorPublish` | the simulated execution failure |
| `AcceptAudit` … `OpenPublish` | the other executions: acceptance, VWAP or iceberg loop, single fill, open limit order |
| `Send`, `Read`, `Write`, `AuditRequest`, `PublishRequest`, `Invalidate` | cancel and amend |
| `get_order`, `Expire` | what a read answers; the 3600 s of the cache entry |
| `Crash`, `lifespan` | the process dies; it starts and reaches the backends it reaches |

A call on a backend has four outcomes: `skipped` (never reached at start), `ok`,
`lost` (raised without effect) and `unknown` (took effect, then raised).  What
the code does with an exception, swallow it with a log line, swallow it without
one or end the request, is in the action that makes the call.

Abstractions.  What is executed of an order is counted in *pieces*: the slices of
a VWAP order (`for i in range(num_slices)`), the rounds of an iceberg order
(`while remaining > 0`), or the one fill of any other.  The sizes of the pieces are
floating-point numbers (`quantity / num_slices`, `min(display_qty, remaining)`) and
are left out, so the model says that a filled row holds the sum of all the
pieces, each once, and not that this sum is the quantity: it need not be (section
3).  Into how many pieces an order is split is a free choice (`SliceCounts`,
`RoundCounts`).  The decision whether a conditional order fills is free,
because prices are left out; "market" stands for market, ioc and fok, "limit"
for limit, stop and stop_limit; identifiers are the constants `Orders`; a
client's request is sent at most once.  An amendment of the price alone
(`reprice`) is kept because it takes every step of the handler.

### OrderExecution

Each order is open, then declined or admitted; an admitted one may be split before
it trades, executes its pieces one by one and ends complete (all of them),
unfilled (none of them) or abandoned (the process died).  `OrderService`
implements it under the mapping `StageOf`, `task[o].pieces`, `task[o].filled`: no
interleaving with cancels and amendments, no failure of a call and no restart
executes an order twice, in part, or after it was declined.

### RateLimiter

`rateLimit` and the callback of the clean-up timer run without an `await`, so each
call is one step; `Tick` lets time pass between any two.  `rateLimitStore[c]` is
the record of a client address (count 0: not in the map), `now` the clock that
`Date.now()` reads, taken to go forward, and `admitted[c]` a history variable:
when the requests of `c` were passed on.  The timer may fire at any moment,
which includes every phase of its 60 s.

### RiskEngine

| Variables | Code |
|---|---|
| `book[c]` | `client_positions` (value per sector), `client_risk_limits` and `client_margin` of client `c` |
| `history[c]`, `traded[c]` | the entries of `order_history` within 30 s; what clients did at the order service within 30 s |
| `snapshots[c]` | the exposure in `risk_snapshots` |
| `pc`, `todo`, `at`, `sectors` | where `_var_recalc_loop` stands: the call it waits for, the rest of its list of clients, the client in hand, the sectors still to be warned of |
| `updates[c]`, `stored[c]`, `alerts[c]` | the topics `risk-updates` and `compliance-alerts` and the table, since the last revaluation of `c` |
| `failed[c]`, `verdicts[c]` | the calls that raised and the answers of `risk_check`, since then |

| Actions | Code |
|---|---|
| `risk_check`, `client_risk_summary` | the handlers, with `_ensure_client`; the name "portfolio" is a client, because `/risk/portfolio` is declared after `/risk/{client_id}` and never reached |
| `StartPass`, `NextClient` | the list of clients, the drift of prices and the snapshot, one stretch |
| `PublishUpdate`, `_store_snapshot`, `CheckLimit`, `CheckSpoofing`, `CheckSector`, `Done` | the rest of the loop, one call each |
| `check_risk`, `cancel_order`, `amend_order`, `Age` | the order service, which posts to a route the engine lacks; 30 s pass |

Values are whole cents, as the code rounds them.  A book holds some of the sectors
and nothing of the others (`_ensure_client` draws two to five of the symbols);
limit, margin and margin in use are those multiples of its exposure that the code
draws, within the rounding to a cent (`BookAssumption`).  `Approves` is the
arithmetic of the check: the margin rounded to a cent (`MarginRequired`), the
share of the sector rounded to a hundredth of a percent (`Share`), which is 0 for
a sector that is not held and for "Other", and the share of the order, which is
not rounded.  The warning of the loop compares the same rounded share with 30
(`MaxShare`, 3000 hundredths).  In a pass the prices move a book anywhere in the set
`Holdings`, as long as it holds the same sectors; the 0.2 % of the code is left
open.

### TopicReader and EventPipeline

`TopicReader` is one member of a consumer group: it gets messages in order,
commits its position at any time, finishes a message, is ended by it or is
killed with it in hand.  When it starts or its group is rebalanced, it goes on at
the committed offset; at the end of a topic, if nothing is committed or what is
committed has been deleted since (`auto_offset_reset="latest"`), and it also goes
there when the next message is deleted before it fetches it.  Its promise is
`OnlyResetsSkip`: whatever lies behind its position is finished, in hand, ended it,
was in hand when it was killed, or a reset went past it, from the first message
of the topic on.

`EventPipeline` is the two services on the topics they share; the adapter
writes `legacy-mq`, which the event processor reads.

| Variables | Code |
|---|---|
| `log[t]`, `first[t]` | a topic (one partition of it), and what Kafka still keeps of it |
| `position[s]`, `committed[s]` | the consumer of service `s` and the offsets of its group |
| `stage[s]`, `inHand[s]` | where its `async for` loop and its `finally` clause stand; `msg` |
| `positions`, `bars`, `minute` | `_positions`, the keys of `_minute_bars` and the minute of the last tick |
| `skipped`, `settled`, `raised`, `cut`, `logged`, `booked`, `again`, `joins` | history: the messages that resets went past, that were finished, ended the service, were in hand at a kill, have a log line, were booked, may be got again by a process that remembers them; how often services joined |

| Actions | Code |
|---|---|
| `Write`, `Expire` | the order service and the simulator publish; Kafka deletes messages after an hour (`docker-compose.yml:37`) |
| `Start`, `Rejoin`, `Reset`, `Get`, `AutoCommit`, `Kill` | the aiokafka consumer; what it does in the background is a task of the same loop, so only while the service waits for something |
| `Raise`, `StopConsumer`, `StopProducer` | an exception leaves the loop: `consumer.stop()`, which commits, `producer.stop()`, the traceback; a kill may come between them |
| `PrintBatch`, `Unusable`, `SendLegacy`, `SendLegacyFails` | the adapter's message loop |
| `handle_trades`, `handle_market_data`, `handle_others` | the event processor's handlers |
| `Failed`, `_send_to_dlq` | a message that cannot be decoded or handled, and its dead letter |
| `NotAnObject`, `KeyRaises` | the messages that end the event processor: `data.get` and the decoding of the key in `_send_to_dlq` are outside any `try` |

A message is one of five kinds: an object with the fields its handler needs, such
an object under a key that is not UTF-8, an object with wrong types, text that is
no JSON, and JSON that is not an object.  A topic stands for one of its
partitions and a service for the member of the group that reads it; that the
partition moves to another member, which knows nothing of it, is left out.  So is
the topic `dead-letter`, which nothing reads.

### Analytics

`counters` are the totals of `kpi_state`, `samples` says of each slippage sample
whether it is a number, `flush` is the call that `_kpi_flush_loop` waits for, and
`stored`, `indexed` are the last row and document.  `Consume` is one message of
the consumer task, `Collect` the stretch from the end of the sleep to the first
INSERT (simulated activity, samples, trimming, snapshot), `FlushToPostgres` and
`IndexKpis` the two calls, `Restart` a restart of the process.  `seed`,
`simulated` and `heard` are history: what the counters ought to consist of.

What a message counts as (`Counted`) is what the code does before it raises: a
trade whose price is a text counts as trade and fill and leaves no sample, an
update that is not an object counts as an order, a message that is no JSON or a
trade without an amount counts as nothing.

### BatchReconciler

`results`, `status` and `error` are the cycle as it goes, `row` the last row of
`batch_jobs`.  `Begin` starts a cycle (one in a hundred gives up at once), a
`RunStep` returns or raises, `_store_batch_result` writes the row or logs that it
cannot, `Kill` and `Start` are the process.

## 3. Runs

Deadlock checking is off in all of them: requests are one-shot and the topics
finite, so that a system which has processed everything comes to rest, and
clocks and counters stop at their bounds.

| Run | Instance | Shows |
|---|---|---|
| `OrderFaults` | 1 limit, VWAP or iceberg order, 1 request, failing database, crashes | `TypeOK`, the inductive invariants `Safe` and `Coherent`, `NoOverfill`, `FillsAccounted`, `RefusedNeverTrades`; `Agreement`: without a logged error the row, the audit trail and the topic tell one story; `ImplementsExecution` |
| `OrderRequests` | 1 limit order, 2 overlapping requests of clients that wait for their 201, degraded modes, failing topics, crashes | `SettledStays`: a settled row never changes again once nobody who has passed a status check is about to write; `CancelInvalidates`: after a confirmed cancel or amendment no read is served from the cache |
| `OrderLiveness` | 1 limit or iceberg order, 1 request, failing database, fairness | `CountersAddUp`, `ExecutionsEnd`, `ReadsConverge`, `NoneStaysPending` |
| `RateLimit` | 2 clients, windows of length 2, limit 2, 8 instants | `AtMostDouble`: never more than twice the limit within a window's length; `RefusedWhenUsedUp`; the inductive invariant `Limited` |
| `RiskEngine` | 1 client and the name "portfolio", 3 sectors of which a book holds 2, failing topics, fairness | `SnapshotIsCurrent`, `MarginCallBlocks`, `AlertsTell`, `PassesComplete`, `EveryClientWatched` |
| `Pipeline` | trades that are objects or not, ticks under any key, failing sends and commits, a deleted message, rebalances, kills and restarts, fairness | `CommittedIsLogged`, `Forwarded`, `BookedOnce`; `ProcessorReads` and `AdapterReads`: each service implements `TopicReader`; `CatchesUp` |
| `Analytics` | 6 kinds of messages, failing backends, a restart, fairness | `CountersTell`, `SameSnapshot`, `FlushesGoOn` |
| `Reconciler` | 5 steps, with and without a pool, failing database, kills, fairness | `RowsTell`, `CyclesGoOn` |

**Bounds.**

* *Order service.*  Orders do not share state apart from the counters, so one
  order shows what orders do.  A market order does nothing that a limit order
  cannot do, because the decision to fill is free; the violation runs use one.
  Two requests are the least that can overlap each other and a task.  A VWAP
  order has three slices and an iceberg order two rounds: a loop with a first, a
  middle and a last piece, and one without a middle.  The amended quantity 5
  differs from the submitted one, 3.  The failures of each run are those its
  properties depend on, and every call that reaches a failing backend may fail
  in both ways.  In `OrderRequests` every start reaches Redis: see
  `CancelInvalidates` below.  Symmetry permutes orders or requests and is used
  in runs of safety properties only.
* *Rate limiter.*  Windows of two instants and a clock up to 7 give two windows
  in a row and a record older than two windows, the age at which the timer drops
  it; a limit of 2 makes a burst at a boundary more than one request on each
  side, and `MaxCount` 3 gives a refused request after them.
* *Risk engine.*  The book starts within its limit of 40000, comes close to it,
  reaches exactly the limit and goes beyond (`Market`), so that every branch of
  `CheckLimit` is taken, also at its boundary.  The share of the second sector
  starts at 40 %, falls to 30.003 %, which is rounded to 30 and is no reason for a
  warning, and falls further; the third sector is not held.  One order per 30 s is
  enough for a check to fall between any two calls of the loop; the second client
  exists only once a request has named it.
* *Pipeline.*  Two messages, because a property relates at most two of them (the
  one in hand and one committed with it); one message is deleted, so that offsets
  are reset with the other still there; services join twice in all, so that one
  service restarts or is rebalanced, or both run; one bar is kept and one minute
  passes, so that a bar is pruned.  Trades are objects or not; the tick has a key that
  is not UTF-8: it may be handled as any object is, and where an object may fail and
  go to the dead letters, it ends the service.  Text and mistyped messages are left
  to the proofs: in the event processor they do what an object that fails does,
  and in the adapter they behave as objects and scalars.
* *Analytics.*  Two samples are kept, so a bad one is pushed out by two rounds;
  the six kinds are one for each set of counters that a message raises, with and
  without a sample; two messages and one counted round fall before, between and
  after the calls of the flush; one restart cuts off any of them.
* *Reconciler.*  The five steps of the code, with every combination of outcomes.

**Fairness** is weak, of what the event loop runs, never of clients, crashes or
kills, nor of the start of a service that an operator has to start (compose has
no `restart` policy), except in `OrderLiveness`, which has no crashes and lets
the process start once.

* `OrderService!FairSpec`: each handler, each task and the start: the loop
  resumes a coroutine whose await has ended, and the awaits are calls on clients
  that answer or raise; `Expire`, because Redis drops a key when its time is over.
* `RiskEngine!FairSpec`: the revaluation loop, whose calls and sleep end.
* `EventPipeline!FairSpec`: the loop of each service, `Work(s)`; a consumer is
  given the messages that are there.  Since nobody needs to start a service,
  `CatchesUp` speaks of those that are up for good.
* `Analytics!FairSpec` and `BatchReconciler!FairSpec`: the flush loop, the cycle.

### What the code does not do

Four runs find a counterexample to what the repository says of itself.

| Run | Statement | Counterexample |
|---|---|---|
| `FilledCancelled` | order-service `main.py:936`, "Cannot cancel order in status: …" | the cancel reads "accepted", the task fills the order, the cancel's UPDATE, which has no condition on the status, turns it into cancelled |
| `StaleCache` | order-service `main.py:944`, "Invalidate cache" | the order is visible in `GET /orders` before it is cached, so a cancel may delete the key before it is written |
| `SpoofingMissed` | risk-engine `main.py:150`, "Check for rapid cancel/replace pattern in last 30 seconds" | five cancels within 30 s are not reported: only submissions enter the history, and nobody tells the engine of cancels |
| `OrdersUnchecked` | order-service `main.py:372`, "Call risk engine. Returns (approved, reason)." | the order service posts to `/check`, the engine serves `/risk/check`, and the 404 approves |

`SettledStays` and `CancelInvalidates` in `OrderRequests` say what remains true
of the first two: once nobody who has passed a status check is still about to
write, the checks do protect the row, and clients that wait for their 201 never
meet the stale entry, provided every start of the process reaches Redis.
Without that proviso they do: the cached submission outlives a crash, a process
that starts without Redis cannot delete it, and a later one serves it.

More of the kind, met while modelling and not run on their own:

* The slices of a VWAP order are `quantity / num_slices` as floating-point numbers
  (order-service `main.py:461`), and `filled_quantity` is their sum: 100 in 7 slices
  fills 100.00000000000001, and nothing compares it with the quantity.
* The amendment has the race of the cancel (order-service `main.py:969` and
  `:990`): the quantity of a filled row can change.  A cancelled order may be
  filled, because the task never reads the row; its audit trail then runs
  against the order of events that the top-level `README.md:352` describes.
* The rate limit is of a fixed window: up to twice `RATE_LIMIT_MAX` requests
  pass within a minute (`server.js:105` answers "Max 1000 requests per minute").
* `fetch_quote` reads a field `price` that quotes do not have, and gets 0.
* Trades on the topic have neither symbol nor side: the event processor draws
  both, so positions mean nothing, and a trade that is delivered again after a
  restart may be booked on another symbol.
* A member that joins again, as when the event processor is scaled
  (`README.md:1231`), goes back to the committed offset and keeps `_positions`:
  the trades it had not committed are booked twice.  `BookedOnce` says that
  nothing else does this.
* Messages are skipped without a line when Kafka has deleted them
  (`docker-compose.yml:37`), when a group has committed nothing yet, and both
  services leave none about the message that ends them when they are killed
  between the commit of `consumer.stop()` and the end of `producer.stop()`
  (event-processor `main.py:434`).  `CommittedIsLogged` excepts these.
* A message whose key is not UTF-8 ends the event processor instead of becoming a
  dead letter (`main.py:61` is outside the `try`).
* A margin call is an exposure beyond the limit (risk-engine
  `main.py:281`), where `README.md:356` says "Triggered when margin_used approaches
  margin_available"; of the alert types of `README.md:357` the engine knows spoofing
  and concentration only.
* A step of the reconciler that logs `partial_failure` (`main.py:128`) returns all the
  same: the row of its cycle says "complete", also for the "5% of reconciliation
  runs" that "partially fail" by `README.md:459`.
* Minute bars are pruned in the order of their keys, which begin with the
  symbol: the bar being filled may go while stale ones stay.
* Analytics counts replacements for the status "replaced"; the order service
  publishes "amended".  A trade with a text for a price counts as trade and fill but
  has no volume (`main.py:274`), and an update that is not an object counts as an
  order (`:294`).  Every update counts as an order and every trade as a
  fill, so `fill_rate` is no ratio of fills to orders.
* `docker-compose.yml` passes `KAFKA_BROKERS` and `DATABASE_URL`, while the order
  service, the risk engine and analytics read `KAFKA_BOOTSTRAP` or
  `KAFKA_BOOTSTRAP_SERVERS` and `POSTGRES_DSN`: as deployed they may well run
  without these backends.  Hence the constants `Backends` and `Reached`.

## 4. Proofs

Every theorem holds for all values of the constants that meet the named
assumptions: any sets of orders, clients, topics or steps, any failing backends,
any number of crashes, restarts and messages.

| Module | Theorem | Statement | Assumptions |
|---|---|---|---|
| `OrderServiceProofs` | `AlwaysSafe` | `Spec => []Safe` | `QuantityAssumption` (`Field(gt=0)`), `KindAssumption`, `PiecesAssumption` (at least one piece) |
| | `TypeCorrect`, `NeverOverfilled`, `FillsAlwaysAccounted`, `RefusedOrdersNeverTrade` | `Spec => []TypeOK`, `[]NoOverfill`, `[]FillsAccounted`, `[]RefusedNeverTrades` | the same |
| `OrderServiceTheorems` | `AlwaysCoherent`, `SettledOrdersStay`, `ServiceImplementsExecution` | `Spec => []Coherent`, `SettledStays`, `ImplementsExecution` | the same |
| | `OrdersAgree` | `Spec => []Agreement` | and every start finds all backends |
| | `AnsweredIsNotCached` | `Spec => []CancelInvalidates` | and clients wait for their 201, every start reaches Redis, Redis does not fail |
| | `CountersAlwaysAddUp` | `Spec => []CountersAddUp` | and the set of orders is finite |
| `RateLimiterProofs` | `AlwaysLimited`, `AtMostDoubleAdmitted`, `RefusedOnlyWhenUsedUp` | `Spec => []Limited`, `[]AtMostDouble`, `RefusedWhenUsedUp` | `LimiterAssumption` |
| `RiskEngineProofs` | `EngineInvariant`, `EngineTypes`, `SnapshotsAreCurrent`, `MarginCallsBlock`, `PassesAreComplete`, `AlertsAreTold` | `Spec => []IInv`, `[]TypeOK`, `[]SnapshotIsCurrent`, `[]MarginCallBlocks`, `[]PassesComplete`, `[]AlertsTell` | `NameAssumption`, `BoundAssumption`, `NotionalAssumption`, `BookAssumption` |
| `TopicReaderProofs` | `ReaderInvariant`, `OnlyResetsLose` | `Spec => []IInv`, `[]OnlyResetsSkip` | none |
| `EventPipelineProofs` | `PipelineInvariant`, `CommittedHasLine` | `Spec => []PInv`, `[]CommittedIsLogged` | `PipelineAssumption` |
| | `ProcessorIsReader`, `AdapterIsReader` | `Spec => ProcessorReads`, `AdapterReads` | the same |
| | `DoneIsForwarded`, `LedgerInvariant`, `TradesBookedOnce`, `PipelineTypes` | `Spec => []Forwarded`, `[]Ledger`, `[]BookedOnce`, `[]TypeOK` | the same |
| `AnalyticsProofs` | `StoresAgree` | `Spec => []SameSnapshot` | none |
| | `AnalyticsTypes`, `CountersAreTold` | `Spec => []TypeOK`, `[]CountersTell` | `AnalyticsAssumption` |
| `BatchReconcilerProofs` | `ReconcilerInvariant`, `ReconcilerTypes`, `RowsAreOfWholeCycles` | `Spec => []IInv`, `[]TypeOK`, `[]RowsTell` | `ReconcilerAssumption` |

**Order service: what is traded.**  None of the first three safety properties is
inductive: they speak of tables and topics, and what may be written there next
depends on where the task stands.  `Safe` adds, for each order,

* `Bounded`: a task exists only after the 201; it has executed nothing before
  its first trade; the trades in the table and on the topic are pieces it has
  executed, and, where a report is still due, one piece more is executed than
  reported; what it has executed is within its pieces, and at each trade some are
  left, because the loop tests its bound (`HasMore`) before every one.
* `Accounted`: while the task runs on a reachable database, the table agrees
  with the task or a failed insertion was logged; the task reaches `fill` only
  with all the pieces; a row with a filled quantity belongs to a task past
  its fill, so no later step can trade again.  That a task runs only while the
  process is up makes the choice of backends at the next start harmless.
* `RejectedDead`: a rejection, in the row or on the topic, is written only by a
  handler that refuses or a task that has failed, and neither ever trades.

`Safe` is preserved action by action: lemmas on the effect of a call on a
backend (`LogGrows`, `StatusEffect`, `UpdateEffect`, …) come first, then one
lemma per part of the invariant and per group of actions.

**Order service: what is told.**  `OrderServiceTheorems` stands on `Safe` and adds
a second inductive invariant, `Coherent`:

* `Whole`: an answered order has its task, and what a task reports as filled is
  all of its pieces.  This is what the refinement needs: `Complete` and `Close` find
  all or nothing executed, and `Execute` finds a piece that is left.
* `Asked`: a request of a client that waits is about an order whose submission has
  come to an end, and a request writes only to a row that is there.
* `Story`: as long as nothing about an order has been logged and no cancel has
  passed its status check, the row has the status `RowStatus`, the topic ends in
  `LastUpdate` and the audit trail has the entries of the *place* where the work
  on the order stands.  `Agreement` compares these three at the end only and says
  nothing of the steps before, each of which writes one of the three.

Since the steps on one order leave all others alone (`SubmitIsLocal`,
`ExecuteIsLocal`), each part is proved for the order that moves.  The refinement
(`ExecutionStep`) then maps each step to one of `OrderExecution` or to a
stutter: `Created` to `Admit`, `SplitAudit` to `Split`, the trade insertions to
`Execute`, a crash to `Abandon`, all requests to stutters.  `SettledStays` is an
action property: of the steps that write to a row, those of a task need a task
that is not over, which a settled order does not have, and those of a request
need a status check that was passed before.  `CancelInvalidates` needs, beyond
`Coherent`, that after the deletion of the key nobody is left who writes it,
which is where the waiting client comes in.  `CountersAddUp` compares counters
with cardinalities: `ExecutingMoves` says how the number of orders at a set of
places changes when one of them moves.

The assumptions of `OrdersAgree` and `AnsweredIsNotCached` are those of the
properties: a service that starts without its database or its topics publishes
what it cannot store, or stores what it does not publish, without a log line, and
section 3 shows what becomes of the cache when clients do not wait.

**Rate limiter.**  `AtMostDouble` relates the times of two admissions and says
nothing of the record, so it is not inductive.  `Limited` says where the
admissions lie: as many as the record counts, up to the limit, within its
window; the others before its start; all but the last `RATE_LIMIT_MAX` of those
more than a window before its start.  A request within the window then meets
only admissions of this window and the last `RATE_LIMIT_MAX` of earlier ones; a
request that opens a window comes more than a window after the start of the
last, and so after everything in it; and a record is dropped two windows after
its start, when the last admission in it is one window old (`TwoWindowsLater`).

**Risk engine.**  The assumptions describe the books the engine draws: some sectors
held and some not, an exposure of at least a cent, limit and margin within their
rounding.  A margin call is published in one place and an approval given
in another, and neither mentions the other.  `IInv` ties both, and the snapshot,
to the book: a margin call stands only if the book's exposure is beyond its
limit, an approval only if it is within (`ApprovedWithinLimit`, which holds for a
sale too because the check compares the exposure in either case).  A book changes
only where a client appears, of whom nothing is known yet, and where the loop
revalues, which forgets both in the same stretch.

`AlertsTell` speaks of clients the loop is done with.  Its strengthening `Telling`
says for each stage of the loop which calls about the client in hand are behind
it, and that each of these has published what the book implies or raised; the
sectors warned of are the concentrated ones of which the loop has spoken.

**Readers.**  `OnlyResetsSkip` is not inductive in `TopicReader`, because joining a
group moves the position; `IInv` adds that a group has committed no more than
its reader has got (`Ordered`), so that a reader which goes back has answered for
what it comes to again, and one which goes to the end counts what it passes as
skipped; and that a message in hand while the reader stops is one that ended it
(`EndedByHand`).  In `EventPipeline`, `CommittedIsLogged` needs to know what is
behind the position: `PInv` says that a running service has written a line about
every message behind it, except those a reset went past, the one it has just got
and the ones that ended it (`Told`), and at the moments when offsets are committed
while the loop runs, none has just been got.  The refinement classifies each step
of the pipeline by what it is for one service (`Move`: it joins, resets, gets,
commits, settles, raises, ends, is killed, or stays) and shows that each class is
a step of `TopicReader` or a stutter; a message that the adapter sends is for the
event processor a message that somebody wrote.

The same classification carries three more invariants.  `Forwarded`: topics only
grow (`SentIsOnLegacyMq`), and the adapter settles a trade or an order only in the
step that sends it.  `BookedOnce` counts bookings, so `Ledger` adds why a trade is
booked again only after a rebalance: what is booked is behind the position and no
longer in hand, or in `again`; a start that goes back to the committed offset
forgets all of it, and a rebalance that goes back adds what it goes back over to
`again`.  Two bookings of one message in different memberships differ in `joins`.
`TypeOK` puts every position within its topic (`InTopics`) and bounds the bars:
pruning drops as many keys as exceed the cap (`PruningHolds`), and a least key
exists among those that are there (`FirstKey`).

**Analytics.**  `SameSnapshot` speaks of the time after a round; `IInv` adds
that between the two calls of a round without a failure the row already equals
the snapshot, which no message and no activity changes.  `CountersTell` is
inductive together with the types (`Types`): a message adds to each counter what
`Counted` says of its kind, whether it is processed to the end or raises
halfway, a round adds the same to both sides.  The samples are at most those
that are kept and one for each trade heard, since a round trims them even when
it fails.

**Batch reconciler.**  `IInv` adds that status and message sum up the steps so
far at each moment of a cycle.

**What it took.**  Attempts at proofs changed the models in three places, none of
which changes the state space.  `Counted` of `Analytics` had two overlapping arms
in a `CASE`, of which TLA+ leaves open which is taken; the messages heard are
summed up by kind (`Heard`, `HeardAll`) rather than folded, and the last event is
compared (`LastIs`) rather than looked up in a sequence that may be empty.

Only model-checked: everything under fairness (`ExecutionsEnd`, `ReadsConverge`,
`NoneStaysPending`, `EveryClientWatched`, `CatchesUp`, `FlushesGoOn`,
`CyclesGoOn`), since liveness and `ENABLED` are out of the prover's reach; and the
four counterexamples of section 3.  Every invariant, action property and
refinement of the runs is proved.

## 5. Not modelled

* **Order service**: the sizes of pieces and the rounding of their sums, prices
  and the decision to fill (`fetch_quote` and the comparison with the limit),
  venues, fees and latencies, the listings of orders, trades and audit entries
  (reads without effect), the answers' bodies. The `orders` table of
  `configs/postgres/init.sql` is not the one `init_db` would create: the model's
  tables are those of `init_db`.
* **Gateway**: everything but the limiter: request metrics and the histogram
  (whose buckets are accumulated twice), proxying, heartbeat and relay.
* **Risk engine**: VaR, shortfall, greeks, scores and stress tests: random
  numbers that nothing depends on.
* **Event processor, legacy adapter**: partitions that move from one member of a
  group to another, whose memories differ; the topic `dead-letter`; what only
  goes to standard output (COBOL, SMF and error records, simulated rebalances
  and lags, correlation), P&L.
* **Analytics**: P&L, market microstructure and VWAP tables, the documents per
  trade, the read endpoints.
* **Batch reconciler**: what a step compares, which is drawn at random.
* **Quote service and market data simulator**: a random walk under one mutex,
  and floating-point arithmetic in one goroutine per rate.  Their one
  interleaving, the unordered goroutines that write the quote cache, is listed
  as a hazard.
* **Traffic generator, UI, schema, deployment scripts**: a source of load,
  rendering, and static text.

## 6. What could come next

1. `QuoteCache`: ticks under the lock, unordered goroutines, expiry; against the
   abstract specification of a cache that shows a recent quote.
2. The gateway's error counter, its heartbeat against late pongs, and upstream
   timeouts, around `RateLimiter`.
3. `MarketEvents`: the countdowns and the ring buffer of `nextTick`.
4. `OrderPricing`: `fetch_quote` and the decision to fill.
5. Proofs for the modules of 1 to 4 as they come, and the safety parts on which
   the liveness properties rest: that a task which has not ended has an action
   that is not blocked.
