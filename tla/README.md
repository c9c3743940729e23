# TLA+ model of the Crypto Analytic Signal Bot

This directory holds TLA+ specifications of the signal bot in `src/`, the TLC
configurations that check them on small instances, and theorems about them
whose proofs TLAPS checks. The specifications are translated from the Python
source; where they leave something out this file says so.

The bot is one asyncio process. It reads public Binance market data, runs
strategies on closed candles, posts trade plans ("signals") to Telegram, and
follows every posted plan until it is closed, in a SQLite journal from which the
statistics are computed. It places no orders. There is one OS thread that
matters; concurrency is the interleaving of asyncio tasks at their `await`s,
timeouts that cancel a task at an arbitrary `await`, and restarts of the process.

## Inventory of the system

For each part: the state it keeps, its operations, with whom it interacts, what
is hard about it, and what makes it correct. The parts in bold are modelled.

### **Signal journal** (`bot/persistence/tracking.py`, `_tracking_review.py`, `_tracking_telegram.py`, `tracked.py`, `repository/memory.py`)

- *State*: table `active_signals` (one row per tracking id: status
  pending / active / closed, levels, tp1 flag, message id, close reason), table
  `signal_outcomes`, statistics, the in-memory `_pending_outcomes` queue, one
  `asyncio.Lock` per symbol (`_symbol_review_locks`), in-memory trailing stops.
- *Operations*: arm a row before its Telegram post, link the post to the row or
  cancel the row; review a symbol on every closed kline and every five minutes,
  apply every aggTrade, supersede a pending row, sweep expired rows, force-close
  from the operator console; close a row, queue and flush its outcome; clean up,
  expire and reconcile at startup.
- *Interacts with*: KlineHandler, FallbackRunner and the WebSocket trade callback
  (they call the reviews), DeliveryOrchestrator (arm / link / cancel / supersede,
  and it posts the tracking events), SQLite.
- *Hard*: read - await - write on whole rows with a lock that only some writers
  take; one shared outcome queue; timeouts that cancel a write path half way;
  restarts between the close of a row and the write of its outcome.
- *Correct when*: a row goes forward only (pending, active, closed), is closed
  once and reported once, its outcome is eventually stored and agrees with it,
  and no open row survives for a signal nobody received.

### **Price review of one row** (`_tracking_review.py`, parts of `tracking.py`, `tracked.py`)

- *State*: one row's levels (entry zone, initial stop, stop, TP1, TP2), status,
  tp1 / break-even / trailing flags, excursions, and the in-memory trailing stop.
- *Operations*: apply one price tick, a candle, a list of trades; activate, mark
  TP1 (stop to break-even), trail the stop, close at stop, TP or timeout.
- *Hard*: the order of the tests inside one step, a candle that touches several
  levels, the in-memory trailing stop after a restart, limits that coincide.
- *Correct when*: the stop never widens, a close reason is consistent with what
  the price did, and statistics count an event once.

### **Event bus** (`engine/core/event_bus.py`)

- *State*: the bounded queue of tokens, the pending event of each token, the
  ready flag, counters of coalesced and dropped events, handler tasks.
- *Operations*: publish (a scheduled call), enqueue with coalescing and eviction,
  pop and dispatch, wait, stop.
- *Hard*: a wake-up that gets lost, tokens and events that drift apart, which
  event has to go when the queue is full.
- *Correct when*: queue and pending events match, the queue respects its bound,
  an accepted event is dispatched, evicted or replaced by a newer one of its key,
  and the newest event of a key is what gets dispatched.

### **REST client: circuit breaker, pauses, proxy fallbacks** (`engine/market/_rest_circuit.py`, `rest_impl.py`)

- *State*: per operation the failure count, `open_until`, the half-open set;
  the pauses after HTTP 418 / 429 (general, funding, futures-data); the active
  proxy, the background discovery and rotation tasks.
- *Operations*: a public call (admission, quota, pause, weight budget, request,
  answer), its fallbacks (another proxy, then none), recording of failures and
  successes, restore of the proxy, background discovery and rotation.
- *Hard*: calls in flight while the circuit opens and half-opens; a probe that
  never reports; a call that is cancelled at an await; shared proxy and pauses
  that several calls save, change and put back.
- *Correct when*: an open circuit admits nothing, a half-open one admits a single
  probe, every circuit admits a request again some day, a call is tried a bounded
  number of times, and a ban is obeyed.

### Rate limiters (`engine/market/rate_limit.py`)

- *State*: the time stamps of the requests in the window, a minimum gap; the
  weight used in the current minute and floors learnt from response headers.
- *Operations*: acquire a slot (waits), acquire weight (waits), resync, force a floor.
- *Hard*: many waiters; the window boundary; sleeping outside the lock.
- *Correct when*: no window holds more requests than its maximum and every waiter
  is served.

### **Delivery orchestrator** (`bot/runtime/delivery_orchestrator.py`, `_delivery_ranking.py`, `bot/delivery/deliver.py`)

- *State*: the duplicate window (`_dedup_timestamps`), cooldowns (SQLite and a cache),
  content hashes of recent signals, counters of the session and of the burst window.
- *Operations*: `select_and_deliver`: merge, gate, duplicate window, open rows, cooldowns,
  supersede, queue; then caps, content hash, arm the row, post, cancel or set cooldowns.
- *Interacts with*: the journal (arm, cancel, supersede), the Telegram sender.
- *Hard*: one run per symbol cycle, several at a time: everything checked before an
  `await` may have changed after it; a failed or timed-out step leaves its predecessors;
  the cycle itself may be cancelled.
- *Correct when*: journal and channel agree (what is shown has a row, the row of an unsent
  signal is closed), and one finding is posted once.

### **Telegram sender** (`engine/telegram.py`)

- *State*: the lock, the circuit breaker with its failure count and reset time, the
  hash window of recent texts, the buffer of at most 50 texts.
- *Operations*: `send_html` with up to three attempts and the drain of the buffer,
  `edit_html`.
- *Hard*: an answer that is lost although the message arrived, retries against a
  circuit the call itself has opened, exceptions that no handler names, callers that
  give up at any await.
- *Correct when*: "sent" is answered only for a text that was shown, nothing is
  shown that nobody asked for, and an open circuit is left alone.

### **WebSocket connections and caches** (`engine/market/ws.py`, `_ws_connection.py`)

- *State*: the symbol list and the streams derived from it, one connection per endpoint,
  the caches of closed candles, backfills in flight, their cooldowns.
- *Operations*: connect, resubscribe, read, disconnect, subscribe to a new list, append
  a closed candle, detect a gap, backfill over REST (new symbols, gaps, after a
  disconnect, stale caches).
- *Hard*: subscription changes that overlap with each other and with a reconnect; a
  backfill that puts an older history in the place of a newer cache.
- *Correct when*: caches are in order, gaps are repaired, the exchange sends
  what the list says.

### **Hunt application: tracker** (`hunt/hunt_core/track/`, `runtime/cycle/`, `data/lake.py`)

A second program with a process of its own.

- *State*: one JSON file of open and closed legs, the append-only outcome archive; per leg
  stop, extremes, TP1, breakeven and trailing flags.
- *Operations*: tick (poll, reconcile, auto-resolve), scan (post and register), emitter
  (register); levels, trailing and TP1 management of one leg.
- *Hard*: three writers of one file without a lock, each with a copy it loaded before
  its awaits; four evaluators of one leg with different price ranges.
- *Correct when*: no registration is lost, a close is archived once, a runner does not
  lose, a stop is not loosened, a hit stop ends the leg.

### Not modelled

| part | state and operations | why not |
|---|---|---|
| Rate limiters (`engine/market/rate_limit.py`) | sliding window of requests, weight budget per minute, floors from headers | planned; RestClient lets a call pass the budget at any time |
| Proxy pool (`engine/market/proxy_pool.py`, `_proxy_session.py`, `proxy_bootstrap.py`) | health and cooldown of proxies, rotation | RestClient takes a rotation to choose any proxy of the pool |
| Kline handler, cycle runner, intra-candle scanner, fallback runner (`bot/runtime/`) | one task per event, analysis semaphore, shortlist lock, nested timeouts | planned; the timeouts are faults of SignalTracker and DeliveryPipeline |
| Process shell (`bot.py`, `container.py`, `scheduler.py`, `cli.py`, `pid_utils.py`) | start, stop, wiring, pid lock | a stop is `Crash` in SignalTracker; the rest is wiring |
| Radar, promotion, shortlist, subscription budget (`radar_state.py`, `promotion_engine.py`, `shortlist_service.py`, `subscription_planner.py`) | tier of each symbol with hysteresis, merge into the shortlist, stream budget | planned; MarketStream takes any list |
| Rest of the WebSocket manager (books, trades, depth, force orders, public endpoint, proxy failover) | caches of last values, the force-order and message buffers | closed candles never enter the message buffer; last-value caches without history; their feed is the loop that is modelled |
| Health manager, metrics, telemetry, diagnostics, operator digests (`bot/diagnostics`, `bot/runtime/*digest*`) | counters and reports | observation only; they change no state the rest depends on |
| Strategies, setups, features, regime (`bot/strategies`, `bot/setups`, `engine/features`, `bot/regime`) | pure functions of candles | numeric; nothing to interleave |
| Signal engine, contract, confluence, filters, scoring (`bot/engine`, `engine/contract.py`, `bot/delivery/`) | pure gates over one signal | numeric thresholds; DeliveryPipeline lets them reject any signal |
| Market data client, enrichment, universe (`data.py`, `enrichment.py`, endpoint methods of `rest_impl.py`) | request plumbing and caches with a time to live | mostly I/O; the call underneath is modelled in RestClient |
| Repository analytics, parquet cache, diary, outcome analytics, public audit, migrations (`bot/persistence`) | SQL reads and reports | I/O |
| Backtest (`bot/engine/backtest.py`) | a second implementation of the exits | planned: its agreement with the live review |
| Dashboard, static files (`bot/dashboard`, `bot/static`) | read-only views | I/O; force close, its one command, is an operation of SignalTracker |
| Hunt outside its tracker (`hunt/hunt_core/market`, `scanner`, `deliver`, `view`) | market client, detection, texts | numeric or I/O; a scan pass registers any leg in HuntTracker |
| Scripts, tests, docs, generated graphs, agent prompts | - | not part of the running program |

### How the parts interact

WebSocket messages become cached candles and events on the bus; the bus starts one
handler task per event; a handler reviews the open rows of its symbol, analyses
it and hands signals to the delivery; the delivery arms journal rows, posts, and
links or cancels. Trades reach the journal directly from the WebSocket. All of
them fetch missing data through the REST client. What is shared is the journal
(rows in SQLite, one lock per symbol, one outcome queue), the bus, the breaker,
the pauses, the active proxy, the sender and the windows of the delivery. The models
follow this. SignalTracker composes all tasks that touch the journal, and TrackedReview
decides the verdicts it leaves open. DeliveryPipeline composes the cycles with the
sender in the abstract form TelegramService, which TelegramSender implements, and
takes each call of the journal as one step. MarketStream composes loop,
subscriptions and backfills. EventBus and RestClient stand by themselves, and so do
the two Hunt modules, which belong to the other process.


## The modules

| module | models | built on |
|---|---|---|
| `SignalLifecycle` | what the journal promises of a signal: forward-only status, one close reason, at most one outcome, that of the reason | - |
| `SignalTracker` | the journal under concurrent tasks, crashes and timeouts | implements `SignalLifecycle` under the locks (`ImplementsLifecycle`) |
| `SignalTrackerProofs` | the journal's invariants and the step from each of its writes to `SignalLifecycle`, proved | `SignalTracker` |
| `TrackedReview` | how prices decide the fate of one row | the verdicts that `SignalTracker` leaves open |
| `TrackedReviewProofs` | stops, exits and verdicts of the review, proved | `TrackedReview` |
| `EventMailbox` | what subscribers of the bus may rely on | - |
| `EventBus` | the bounded, coalescing event bus | implements `EventMailbox` (`ImplementsMailbox`) |
| `EventBusProofs` | containers, order, accounting and the mailbox refinement, proved | `EventBus` |
| `RestClient` | a public REST call: breaker, pauses, proxies | - |
| `RestClientProofs` | type correctness, the breaker's invariants, how a probe is lost, bounded fallbacks, proved | `RestClient` |
| `TelegramService` | what callers of `send_html` may rely on | - |
| `TelegramSender` | `send_html`, `edit_html`: lock, breaker, buffer, duplicate window, attempts | implements `TelegramService` (`ImplementsService`) |
| `TelegramSenderProofs` | type correctness, the rule for an open circuit, the service refinement, proved | `TelegramSender` |
| `DeliveryPipeline` | concurrent runs of `select_and_deliver` | extends `TelegramService` |
| `DeliveryPipelineProofs` | journal against channel, content armed once, how far the caps are overshot, proved | `DeliveryPipeline` |
| `MarketStream` | market endpoint, subscriptions, candle caches and backfills | - |
| `MarketStreamProofs` | caches, holes and streams, proved | `MarketStream` |
| `HuntTracker` | the hunt journal: one file, three writers, the archive | - |
| `HuntLevels` | how prices move the stop of one hunt leg and close it | the closes that `HuntTracker` leaves open |
| `HuntProofs` | the archive and the file; stop, runner, polls and exit prices, proved | `HuntTracker`, `HuntLevels` |
| `MC*` | the instances TLC checks | the modules they are named after |

Definitions whose names end in `_Something` and whose comment says *mutant* are
faulty variants of the definition that follows them. No specification uses them;
each shows that a property would notice the bug it stands for.

### SignalTracker

`row` is `active_signals`, `outcome` is `signal_outcomes`, `lock` the per-symbol
`asyncio.Lock`, `queued` the list `_pending_outcomes`. Per task: `op` and `pc`
(the operation and the await at which it is suspended), `sym` (its symbol), `snap`
and `todo` (the rows it has read and still has to write back), `late` (whether the
clock it has read is past a row's expiry), `cur` (the row it is closing), `batch`
(the outcomes it is saving), `mine` (the signal it delivers). Every action ends at
an await, so every interleaving of the asyncio tasks is a behaviour. Entry points are
`OnAggTrade`, `ReviewForSymbol`, `ReviewOpenSignals`, `SelectAndDeliver`, `ForceClose`;
`ReadStep`, `RowStep`, `FlushStep`, `EndStep` group what follows. A save writes the
whole row from the snapshot (`Put`), as `save_active_signal` does.

Abstractions:

- Which verdict a row gets is free among the ones its status allows (TrackedReview
  decides it from prices). One trade operation carries a run of trades.
- The statistics and tracking events are folded into the counters `closures` and
  `acts`, for the properties only.
- A crash is any end of the process: the variables of the tasks, the locks and the
  outcome queue are lost, the tables stay. `CleanupOnStartup` and `Reconcile` or
  `ReconcileFails` must have run before tasks start again, as in `start()`, which comes up
  whether or not the reconciliation went through (`Running`).
- `CycleTimeout` may cancel, at any await, what the code runs under a timeout that cancels:
  reviews, supersedes, arming, linking and cancelling. Trades, sweeps and force closes do not
  run under one.
- An error inside `_close_event` after the closed row was stored (`tracking.py:674`, `:684`)
  is not a fault of the model. The review would catch it and go on to its time fallback with
  the row in its snapshot closed, but neither counted nor queued, and might close it again.
- The timeout of the arm step may hit before or after the row was stored.
- Cooldowns, features, the post-stop recovery and the adaptive scores are left out.

### TrackedReview

One row and one market. The exchange prints trades (`MarketPrints`) and closes
minutes (`CloseMinute`); the bot sees prices through one of the windows the code
has: single trades (stream or complete REST page), closed candles, only the time,
or the first trade after a gap. What lies after `last_checked_at` is the content of
`tape` and `done`; a review that moves `last_checked_at` removes what it skips.
`PriceTick` and `ApplyCandle` are `_apply_price_tick` and `_apply_candle_rows` with
the order of their tests; `Activate`, `MarkTp1`, `ApplyTrailingStop`, `Close`
are the methods of the same name. `row.mem` is the entry of `_trailing_stops`, which
a restart loses. `seen` records history for the properties only: the prices since the fill
(`fill`) and since the stop was last moved (`stop`), and apart from them those of the candle that
filled the row (`bar`, `wick`), of which only the close is certainly not older than the fill.
`_apply_candle_rows` fills by the candle's touch of the zone and then applies its high and low.

Abstractions: prices are small integers, half ticks are rounded; the activation gate's
verdict is free beyond its stop test; a fresh mark price is any element of `Marks`;
at most one closed candle waits for a review; the review is atomic, which the
symbol lock provides (SignalTracker checks it).

### EventBus

`calls` are the callbacks that `publish_nowait` schedules with
`call_soon`, `queue` / `pending` / `coalescing` the containers of the bus,
`ready` the `asyncio.Event`. `Enqueue` is `_enqueue_event` with its cases: an event
replaces the waiting one of its key (`Supersede`), is stored, displaces the victim
that `_make_room_for` picks (`Displace`), or is dropped (`Reject`). `Dispatch` empties
the queue: the loop of `run()` does not await between two pops. `OldestOf` is the index the
scans of `_make_room_for` end at and `RemoveAt` the `del self._queue[index]`. An event is its key
and the number of its publication; payloads do not matter to the bus.

### RestClient

A call is a task with a stage (`enter`, `prepare`, `sleep`, `budget`, `request`,
`failed`, `rotated`), an attempt (`first`, `switched`, `direct`) and what the code keeps in local
variables across awaits (the proxy to put back, the kind of failure). `IsCircuitOpen`,
`RecordFailure`, `RecordSuccess` are the breaker; `Response*` are the branches after
the answer; `Rotate`, `FallBack`, `SwitchProxy`, `GiveUp`, `Escape`, `Restore` the exception
handlers of `_call_public_http_json`, with the await between a rotation and the direct attempt.
`TryFailover` is `_try_failover_proxy`, the emergency discovery it starts for a small or
exhausted pool included. `Cancelled` is asyncio's cancellation at an await,
`CancelledFallback` the one inside `_apply_active_proxy`, where the proxy is set already and
what should follow is left out. `WillReport` says which calls still owe the breaker a record.
`call.probe` is history: it marks the call that was let through a half-open circuit.

Abstractions: a deadline is absent, running or over and a pause none, short or long
(more than 120 s: the call gives up instead of sleeping); waking up may come before
the pause has ended in the model, as a pause may be extended during the sleep in the
code; a rotation picks any proxy of the pool; the pauses of the futures-data and
the funding quota are one class, `limited`; other callers that set the proxy are
not modelled; a rejected address (`rest_impl.py:744-745`) is left out, because the endpoints and
hosts of the registry pass that test; thresholds 1 and 2 stand for 3 (critical operations) and 15.

### TelegramSender and TelegramService

`call[c]` is one `send_html` with its stage: it waits for the lock, sends its own text,
drains the buffer, sends a buffered text, has an answer. `Arrive` is the moment Telegram
shows the message, `Accepted` the moment the answer comes back; between them an attempt may
fail, so a text may be shown twice, or shown and reported as failed. `RecordSendFailure`
and `Accepted` are the breaker. A failure is "counted" when it belongs to `DEFENSIVE_EXC`
and "raised" when it passes all handlers, as those of the aiogram library do, and "limited" when it
belongs to `DEFENSIVE_EXC` and tells how long to wait: that one is neither counted nor retried.
`CancelSend` is the caller's timeout at any await. TelegramService sees `posted`,
`kept` (texts that were ever in the buffer) and, per client, text, shown and answer.

Abstractions: the reset time of the circuit is a flag (`due`); hashes expire between calls;
edits are one step; a drain without failure ends when the buffer is empty, for nobody adds to
it under the lock. A message that reaches the channel after its attempt was given up or cancelled
is not modelled, so `ImplementsService` does not exclude it.

### DeliveryPipeline

`cycle[c]` is a run of `select_and_deliver`, which is also the client of the sender:
`todo` the merged batch, `ready` the queue, `at` the await at which it is suspended.
`dedup`, `cooling`, `hashes`, `used`, `burst` are the windows and counters all cycles share;
`row` the journal. `end` says how a cycle left a signal and serves the properties. A step
runs from one await to the next: `DeliverHead` holds the caps, the content test and its
record, because there is no await between them. `Kinds` lists the cooldowns in the
order they are read; the instance keeps two of the six.

Abstractions: gates whose verdict is data (contract, limit entry, confluence, tier,
blacklist, quality monitor, portfolio) may reject any signal; the score comparison of a
supersede is free; each call of the journal is one step (SignalTracker has its
inside). Two of them read a row, await and write it back without excluding each other, so they
are two steps: `cancel_pending_delivery` (`CancelPendingDelivery`, `CloseCancelled`, no lock) and a
review (`ReviewReads`, `ReviewWrites` through `copy`; it holds the symbol lock, so a supersede of the
symbol waits for it). A row that a review writes back as pending after it was closed is "reopened".
`MaxReviews` bounds the rows under review at once. The code keeps the last 512 content hashes in
memory (`delivery_orchestrator.py:116`); the model has fewer signals than that and no restart, so
`ContentArmedOnce` speaks of one process and of that window.

### MarketStream

`link` is the endpoint loop, `server` the streams the exchange sends on the current
connection, `socket` the closes not read yet, `plan` the list `resubscribe_all` has taken.
`fill[w][s]` is the backfill of a symbol by its starter: `scheduled` (new symbols and gaps,
with the in-flight set), `loop` (after a disconnect, awaited by the loop), `health` (stale
caches). `neglected` and `astray` are history: the gaps nobody looks for again and the
streams that may be missing, each set exactly where the code turns the repair away.

Abstractions: one interval in full, the others as the stage in which a backfill still
holds the in-flight entry; two stages of staleness; the loop reads a close before
the next candle closes (assumption about the environment); delays have no length. A command goes
out at once: the code sends chunks of 100 streams with awaits between them, breaks off when the
connection has gone and swallows a failed send (`ws.py:489-508`). What a lost connection leaves
out the next one asks for again; a send that fails on a connection which then lives on, and two
commands whose chunks alternate, are not modelled.

### HuntTracker and HuntLevels

HuntTracker: `file` is the JSON file, `copy[l]` the dictionary a loop has loaded,
`archive` the lines of `signal_history.jsonl`. `Merge` is `_merge_tracker_state`, `Flush`
writes it back, `Closings` are the results of `close_signal` on one dictionary (several, because
the model does not know which record is the oldest of a full `closed_history`), `AppendOutcome`
is the append that follows. Tick and scan load, work across awaits and merge; the emitter loads
and saves in one step. Legs age in the order they were opened, and `AutoResolve` looks only at
those whose symbol has a price. Faults: crashes, failing passes, appends that raise
(`append_fails`), searches of the archive that miss a line (`search_fails`: only the last 800
are read, an `OSError` counts as not found), writes a crash cuts short (`Torn...`), files that
cannot be read and count as empty (`read_fails`), delisted symbols. `astray` is history: the legs
whose append failed or whose line was missed. A line of the archive that a crash cuts short just
before its newline, so that the next one makes it unreadable, is not modelled. HuntLevels: prices
are whole units in the leg's favour, so that a short is a long with the axis turned round;
`EvaluateLevels` is `evaluate_levels` with early breakeven, trailing and TP1 management
in their order; `Poll`, `KlineReconcile`, `TickerReconcile`, `AutoResolve` are its four
callers, each with the price range it uses. Percentages are distances; messages and their
cooldown gate only the armed-to-triggered step; `Reversal` legs (no trailing) are covered by
the module but no run.

## What the runs check

Every run is exhaustive over its instance.

| run | instance | shows |
|---|---|---|
| `tracker_locked` | 2 tasks, 2 signals of one symbol and setup, the operations that take the lock, crashes | the lock belongs to the task inside; a snapshot that will be written back is current (`SnapshotCurrent`); a row closes once; an outcome taken from the queue by another task is not lost (`OutcomeNotLost`); the journal is a `SignalLifecycle` |
| `tracker_faults` | 2 tasks, 1 signal, one exit, all operations, all faults | rows closed by a startup get an outcome (`CleanedRowsVisible`) under cancellation at any await, failed saves, failing reconciliations, crashes |
| `tracker_live` | 2 tasks, 2 symbols, locked and unlocked operations, fair | every operation ends (`OperationsEnd`) |
| `bus` | keys: two closes, a ticker, a reconnect; capacity 2; two events of one close and of the reconnect, one of the others; fair | containers agree, no publication vanishes (`NothingVanishes`), no key goes back in time, refinement of `EventMailbox`, backlog and shutdown end |
| `rest_faults` | 2 calls of one operation, one proxy, threshold 2, all faults | types, `HalfOpenIsExpired`, `OpensAtThreshold`, `FallbacksBounded`; a probe is lost only in the exits that record nothing (`ProbeLostUnrecordedOnly`) |
| `rest_probe` | 3 calls, threshold 1, no proxy, no pauses, no cancellation, fair | a half-open circuit leaves the state (`HalfOpenResolves`) |
| `review` | 9 cases of plan, settings and windows, 4 prints, 5 prices | exits are justified, not missed, candles agree with trades, TP1 with break-even is no loss, the stop never widens |
| `telegram` | 2 clients, 2 texts, 2 attempts, threshold 3, buffer of 2, all kinds of failure | one call sends at a time, an open circuit sees retries only (`OpenOnlyRetries`); the sender is a `TelegramService` |
| `delivery` | 2 cycles, 3 signals, two of them the same finding, caps of 1, one fault or lapse, one row under review at a time | journal and channel agree except on the two paths that cancel nothing and for a cancelled row that a review writes back; one content is armed once |
| `stream` | 2 symbols, 2 callers, 2 calls, 3 candles, one fault | caches in order, holes under repair, streams follow the list |
| `hunt` | 1 symbol, 2 legs, 1 scan pass, a history of 1 record, failing passes, two upsets (crash, torn write, unreadable file, failed append, missed search, delisting), fair | every close archived, once; nothing erased from the file; timed-out legs with a price get resolved; each but for the faults the property names |
| `levels` | 5 prices, both tiers, two trailing distances, two buffers, a candle with a wick older than the leg | the stop is never loosened, a runner never risks a loss, a level exit was traded, a poll leaves no leg beyond its stop |

### Bounds and why they are enough

- Two tasks: every race here is between a reader that writes back and one other
  writer; a third task adds no new kind of pair. Task symmetry is used in the safety
  runs only (tasks are interchangeable, and no property names one).
- One or two signals: with one symbol they share a lock, with two they share only
  the outcome queue. One setup: a setup only decides what supersedes what.
- `MaxBatch` is 1 or 2 (50 in the code), never below the number of signals:
  with more rows than the batch `CleanedRowsVisible` is false, see below.
- Bus capacity 2 with four keys: the queue is full with events of every mixture, so
  each branch of `_make_room_for` happens; the bound on versions is named `MaxVersion`.
- Two calls on one operation: a late answer and a probe. Three calls in
  `rest_probe`: an old answer, a probe and a refused call at once. The second
  class of pauses and pools of two proxies are covered by the theorems, not by a run.
- Prices 2, 4, 6, 8, 10: one on each level of the plans and none elsewhere, so that
  every test of the code is exercised at equality and on both sides. Four prints
  (`MaxPrints`): fill, TP1, and two more to move and hit the stop.
- Sender: threshold 3 with 2 attempts opens the circuit in the middle of a call and between
  calls; a buffer of 2 with texts that may repeat overflows and drains partly. The theorems
  hold for every limit.
- Delivery: two cycles meet in every window; `MaxUpsets` 1 lets a window lapse or a fault
  happen (with 2 the run takes longer than five minutes), `MaxReviews` 1 lets a review hold a row
  across the cancel. The theorems hold for any of both. Signals are instances and are not delivered twice, so the run ends.
  Two contents are too few to tell how far a cap is overshot; that is left to the theorem.
- Stream: a backfill that is late by one candle, a gap of one candle after a disconnect, and
  a cache that is stale (`StaleAfter` 1) need three candles. Two calls of `subscribe()` are
  the shortest overlap; one fault at a time, either a lost connection, a failed
  fetch or a dead loop.
- Hunt: two legs of one symbol replace each other in one direction, or the second closes the
  first as its opposite; `MaxHistory` 1 (1000 in the code) makes the second record push the first
  out; `MaxUpsets` 2 lets a crash meet a fault of the disk. The theorems hold for any bounds.
  Levels: one price below the stop, in the zone, between the zone and TP1, beyond TP1, at TP2.

`CHECK_DEADLOCK FALSE` is set where the system stops: a bus that was shut down
after its bounded publications, a row or a leg that is closed, signals, candles or
calls that have run out.

### Fairness

- Tracker: weak fairness of every task's next step (the loop runs every ready task and
  SQLite calls return) and strong fairness of `AcquireLock` (asyncio.Lock serves its
  waiters first in, first out). Nothing is assumed of the environment.
- Bus: weak fairness of the scheduled callbacks, of the dispatch task and of the end of
  a *cancelled* handler; a handler that is not cancelled may run for ever.
- REST: weak fairness of a call's steps (requests have a client timeout, limiters and
  sleeps end) and of the clock that ends an open circuit.
- Hunt: weak fairness of `TickStart`, `TickEnd`, `ScanSkip` and `ScanEnd`: asyncio runs every
  task. Strong fairness of `AutoResolve(listed)` is an assumption about the environment, not a
  guarantee of the code: ticks get as far as the resolution again and again in which the
  tickers quote every listed symbol. Crashes are upsets and so finitely many.
- Telegram, delivery, stream, review and levels state safety only and assume nothing.

## Statements the code does not keep

The models follow the code and not the statement. Where a property is named, it is defined in
its module and TLC refutes it on the instance described; it is not one of the regular runs,
all of which pass. The others were met while the code was read for the models.

**Journal and review**

- A review that read a row before `cancel_pending_delivery` closed it writes it back as
  pending (`tracking.py:847`). The expiry sweep of `review_open_signals` takes no symbol lock
  (`_tracking_review.py:316`), against the docstring at `tracking.py:1081-1083`: with the
  operation in `Ops`, `ClosedOnce` fails.
- `CleanedRowsVisible` with more closed rows than `MaxBatch`: `reconcile_closed_outcomes`
  takes the newest rows (`tracking.py:475`), so older ones are never looked at.
- A reconciliation that fails is logged and the bot comes up (`bot.py:590-600`): rows closed
  without an outcome stay so until a later start reconciles them, where the docstring of
  `reconcile_closed_outcomes` (`tracking.py:460`) promises the repair at startup. A row that does not
  parse is passed over. `Unreconciled` and `RecordRows` of SignalTracker model both.
- `OutcomeBeforeEvent` (`tracking.py:964`): a task whose outcome another task has taken from
  the queue returns its close event before the outcome is stored.
- `ExitJustified` when candles and trades review the same minute: the candle review applies
  extremes that are older than a fill by a trade; `limit_entry.py:5` says
  "Stop/TP apply only **after** activation."
- `ExitAfterFill`, the same statement taken at its word, whenever candles are read: the candle
  that fills a row is then tested against its stop and targets with its whole range
  (`_tracking_review.py:742-751`, `:846-900`), so a candle that prints TP2 and then comes back into
  the zone fills a limit row and books `tp2_hit`, though no price reached TP2 after the fill.
  `ExitJustified` excepts the candle of the fill and nothing else; by trades alone
  the statement holds (`TradesExitAfterFill`).
- A reversal plan (`limit_entry.py:265`) is filled by candles only, and candles are looked at
  only when the trade pages are incomplete.
- `NoMissedExit` holds for each window alone and not when they alternate: a
  review that finds no closed candle moves `last_checked_at` to now.
- `_update_trailing_post_tp1` computes R from the stop as it is now. With break-even and a
  persisted stop R is 0 and nothing trails, where its docstring says "Trail stop by ATR
  after TP1 hit - 1.5x initial R"; without break-even R shrinks with every move, so the stop
  tightens on every candle. With `persist` off a break-even exit is booked as `stop_loss`.
- A market plan may be filled by a trade beyond its last target. While a fresh mark price lags
  behind, the row stays open, and its break-even stop lies beyond the target: the third exception of
  `CandleAgreesWithTrades`, met with a mark price inside the zone.
- The statistic `tp1_hit` counts a break-even exit twice (`_mark_tp1` and `_close_signal`).

**Bus**

- On a full bus a new ticker displaces a candle close, and a close displaced by the close of
  another symbol is counted as coalesced.

**REST client**

- `HalfOpenHasProbe`: with a cancellation, with a pause of more than 120 s at the probe, when a
  repeated attempt dies in the transport, or when a direct attempt after an answered one does, the
  circuit stays half-open for ever. `LeavesUnrecorded` names these exits, and
  `ProbeLostUnrecordedOnly` says that there are no others. Meanwhile
  the exception promises `_circuit_open_duration_seconds`.
- A cancelled direct attempt leaves the bot without a proxy; a failed one puts back a proxy
  that was replaced meanwhile (`rest_impl.py:536-543`).
- Waking from a short pause resets the pause of the class, a ban that came in between
  included (`:771`); a call past the pause check sends although a ban has arrived (`:775`).
- `fetch_klines_cached` (`:2514-2561`), annotated `-> pl.DataFrame`, returns None to a caller
  that waited on the key's lock and finds the cache filled: only the else branch returns.

**Delivery and Telegram**

- `cancel_pending_delivery` says "Close a pending journal row when Telegram delivery did not
  complete." (`tracking.py:843`). Two paths cancel nothing, and `JournalAgreesWithChannel`
  excepts them by name: `arm_signals` that times out after storing, and an exception outside
  `DEFENSIVE_EXC` (aiogram's among them) or the timeout of the cycle, which abort
  `select_and_deliver`. On a third the cancel does not last: it reads the row, awaits and closes it
  without the symbol lock (`tracking.py:846-867`), and a review that has read the row before writes
  it back as pending ("reopened" in the model). The text of a cancelled row may be posted later, from the buffer.
- `_is_content_duplicate` speaks of recently delivered content; the hash is stored before the
  delivery, and also when the burst cap then rejects the signal. The dedup entry is written
  when a text is queued and blocks the retry of one that was not delivered.
- "Max ACTION deliveries per bot session" (`config.py:597`): the session cap and the burst cap
  are compared before the awaits of a delivery and their counters raised after them
  (`delivery_orchestrator.py:1398`, `:1561`, `:1615`), so concurrent cycles overshoot both:
  `SessionCapKept` fails with two cycles, signals of two contents and a cap of 1. The overshoot
  is less than the number of cycles (`CapOvershootIsBounded`), which is `analysis_concurrency`
  (6 by default) and the emergency scan; one cycle keeps the session cap.
- Concurrent cycles may open two rows of one symbol. A supersede closes the old row before
  the new one is certain.
- The retries of `_send_immediate` go on against a circuit that their own attempt opened;
  a suppressed duplicate or an uncaught edit exception leaves it half-open; an uncaught
  exception of the drain loses the buffered text and the answer of the text just sent.
- Not reachable: the `family_queued` and `queued_symbol_direction` checks, the cancel on the
  cap paths (nothing is pending yet), `_deliver_direction_conflict_watch`.

**WebSocket and candles**

- A candle whose REST snapshot was taken while it was open, but which closed before
  `_drop_incomplete_ohlcv_tail` runs, is kept as closed with unfinished data; `README.md:7` says
  the bot works "on closed candles".
- A late backfill replaces newer candles, and resurrects the cache of a symbol that was
  unsubscribed. A gap found while the symbol's backfill is in its last stage, after a failed
  fetch or in the cooldown is turned away and not looked for again ("triggering backfill" is
  logged) until the staleness check.
- The UNSUBSCRIBE of one call can undo the SUBSCRIBE of a later concurrent one. A limit error
  (`ws.py:452`) is raised after the list was replaced, so the same call again does nothing.
- A handshake error other than `InvalidStatus` ends the endpoint's task; only a `subscribe()` that
  adds streams starts it again. A clean close (1000, 1001) reconnects without delay. What is
  logged as the elapsed time of a short disconnect is the uptime of the session.
- `_data_lock` and `_lock` are never held across an await, so they never wait and prevent nothing.

**Hunt**

- A deep leg registered over an active one replaces it without a close record; the comment in
  `tracker.py` says "so repeat signals on the same key don't lose prior outcomes". A stale merge
  breaks "One direction per symbol".
- The state file is written in place. One that a crash cut short, or that cannot be read for a
  moment, loads as an empty state (`tracker.py:319`, `lake.py:104`), and the next write replaces
  all that was in it: the exceptions (`Erases`) of `NothingErased`.
- "Terminal transition: always records outcome" (`tracker.py:672`): an append to the archive that
  raises is logged and the leg is closed all the same, and no later close finds it open. The
  "dedupe" of `outcome_archive_key` searches the last 800 lines only. `astray` names these legs.
- An exception at a later symbol drops the legs the tick has registered (`_cycle_loop.py:132`);
  the legs of a delisted symbol never reach the age check (`tracker.py:825`), so
  `AgedAreResolved` is about symbols the exchange quotes.
- `scan` registers a leg whatever the send status; `compute_setup_id` leaves out the symbol; the
  4 h cooldown check is not reachable.
- The stop is tested against extremes gathered since registration (`_evaluate_levels.py:64`),
  although "Same-tick guard: trailing into profit zone must not instant-close on stale hi/lo."
  "Stop first: a wick through SL ends the signal even if TP printed later." fails when the
  same poll trails the stop. The "Worst-case fill edge" of `_worst_entry` is the best one.
- `auto_resolve` closes the runner in the tick in which TP1 was managed, where `on_tp1_reached`
  says "arm trailing for runner". A leg armed, but not filled, whose TP1 is hit stays "armed".
## What is proved

The theorems hold for every value of the constants that satisfies the assumptions of the
module (`ConstantsAssumption`, `NoneAssumption`, ...), which TLC evaluates in every run. The
last column names the property as a run checks it; a hypothesis is explained below.

| theorem | says | property |
|---|---|---|
| **SignalTrackerProofs** | | |
| `TypeCorrect` | every state is well typed | `TypeOK` |
| `LockExclusive` | exactly the tasks inside a locked operation hold their symbol's lock, under any faults | `LockMatchesHolder` |
| `SnapshotsStayCurrent` | if `OnlyLocked`: what a lock holder will write back is what is stored | `SnapshotCurrent` |
| `ClosedByOneEvent` | if `OnlyLocked`: one terminal event closes a row | `ClosedOnce` |
| `JournalIsLifecycle` | if `OnlyLocked`: every step of the journal is a step of `SignalLifecycle` or none | `ImplementsLifecycle` |
| `CleanedRowsStayVisible` | if `BatchCovers`: once a start has reconciled, the rows it and earlier starts closed have an outcome | `CleanedRowsVisible` |
| `OutcomesReachAnalytics` | if `OnlyLocked`, `OnlyCrashes`, `BatchCovers`: the outcome of a closed row is stored, queued or being saved | `OutcomeNotLost` |
| **EventBusProofs** | | |
| `ContainersAgree` | queue, pending events and coalescing keys agree; the capacity is kept | `QueueMatchesPending` |
| `NoKeyGoesBack` | scheduled, queued and delivered events of a key are in the order of publication | `PerKeyOrder` |
| `EveryEventIsAccounted` | a publication adds one to what is scheduled, queued, handed over and counted; no other step changes the sum | `NothingVanishes` |
| `BusIsMailbox` | every step of the bus is a step of `EventMailbox` or none | `ImplementsMailbox` |
| **RestClientProofs** | | |
| `TypeCorrect` | every state is well typed | `TypeOK` |
| `HalfOpenOnlyExpired` | a probe token does not outlive a new deadline, however late answers arrive | `HalfOpenIsExpired` |
| `NeverBeyondThreshold` | a closed circuit has counted fewer failures than its threshold | `OpensAtThreshold` |
| `BoundedFallbacks` | an attempt that failed is left downwards or to the caller | `FallbacksBounded` |
| `ProbeLossIsNamed` | under all faults, a half-open circuit loses the call that will report to it only in the exits `LeavesUnrecorded` names | `ProbeLostUnrecordedOnly` |
| **TelegramSenderProofs** | | |
| `TypeCorrect` | every state is well typed | - |
| `OnlyRetriesWhileOpen` | an open circuit sees nothing but retries of the call that opened it | `OpenOnlyRetries` |
| `BroadcasterIsService` | every step of the sender is a step of `TelegramService` or none | `ImplementsService` |
| **DeliveryPipelineProofs** | | |
| `JournalAgrees` | delivered rows were shown, shown signals have rows, and open rows nobody will show are those a timeout or a cancelled cycle left, or a review reopened | `JournalAgreesWithChannel` |
| `ContentIsArmedOnce` | no two signals of one content reach the journal | `ContentArmedOnce` |
| `CapOvershootIsBounded` | concurrent cycles exceed either cap by less than their number | - |
| `OneCycleKeepsSessionCap` | one cycle alone keeps the session cap | - |
| **MarketStreamProofs** | | |
| `CachesStayOrdered` | a cache lists its candles in the order of time | `CacheOrdered` |
| `HolesAreRepaired` | a hole is being fetched, or known to be neglected | `HoleUnderRepair` |
| `StreamsFollow` | between calls the streams follow the list, up to those the code is known to lose | `StreamsFollowList` |
| **TrackedReviewProofs** | | |
| `TypeCorrect` | every state is well typed, no stop drops to zero | - |
| `Tp1NoLoss` | with break-even and a persisted stop, TP1 is never booked as a loss | `Tp1IsNoLoss` |
| `StopsNeverWiden` | a persisted stop is never moved away from the price, restarts included | `StopNeverWidens` |
| `ExitsJustified` | if `OneWindow`: a row is closed at a level only if a price reached it while it was in force, or the candle that filled it did | `ExitJustified` |
| `TradesExitAfterFill` | without candles: only by a price after the fill | - |
| `NoExitMissed` | with one window, what has been reviewed to the end and is open has touched no exit level | `NoMissedExit` |
| `CandlesAgree` | a candle's verdict is that of its prices as trades in one of two orders, up to three exceptions | `CandleAgreesWithTrades` |
| **HuntProofs** | | |
| `ArchiveTakesALegOnce` | at most one archive line per leg, across copies and crashes, but for legs whose line a search missed | `ArchivedOnce` |
| `ArchivedBeforeSeen` | a close the file shows has its archive line, or its append failed | `ClosedIsArchived` |
| `FileOnlyGrows` | no step but a torn write and a rewrite of an unreadable file erases a key, or a closed record that the history has room for | `NothingErased` |
| `LegTypeCorrect` | every state of a leg is well typed, closed and reason go together | - |
| `StopRatchets` | the stop is never loosened | `StopNeverLoosens` |
| `RunnersKeepProfit` | after TP1 management the stop is not in the loss zone | `RunnerNeverLoses` |
| `PollsEndBeyondStop` | no poll leaves a leg open beyond its stop | `PollEndsBeyondStop` |
| `ExitsWereTraded` | if `OpensInside`: an exit at a level is at a price the market was at | `LevelExitWasTraded` |

### Hypotheses

- `OnlyLocked`: the operations that run are those that take the symbol's lock. `sweep`,
  `force`, `link` and `cancel` do not, and a review really overwrites what they write (see the
  statements the code does not keep). The theorems say that the lock is enough where it is
  taken, for any number of tasks, signals and symbols and under any fault.
- `BatchCovers`: no more signals than `reconcile_closed_outcomes` looks at (50). With more
  closed rows than that, some stay without an outcome.
- `OnlyCrashes`: a cancellation between taking an outcome from the queue and storing it, or a
  save that fails after the row was closed, loses the outcome until the next restart.
- `OneWindow`: the price windows that work in a behaviour are not both candles and trades.
  Without it the extremes of a candle may be older than the fill by a trade they are compared
  with (see the statements the code does not keep). The other theorems of the review need it not.
- `OpensInside`: the price a leg is opened at lies between its stop and its second target,
  and the early breakeven buffer is not beyond the run that earns it: a setup without risk
  or reward is dropped at `manipulation_delivery.py:86` before it is registered, and the
  defaults in `config.defaults.toml:164` are 99.0 and 0.12.
- `NoneAssumption` (HuntTracker, DeliveryPipeline, TelegramSender): the sentinel for "no
  value" is none of the values, as Python's `None` is.
- `CapsAssumption` (DeliveryPipeline): the caps are natural numbers (`ge=0` in the settings) and
  the cycles finitely many.

### Arguments

*Journal.* `TypeOK` is inductive. `LockMatchesHolder` is not: a release must know that its
task is in a locked operation of a real symbol, and a task that reaches "row" must have come
through "lock". `LockInv == TypeOK /\ Shape /\ LockMatchesHolder` is; `Shape` says what
operation may be suspended where. The proof groups actions by what they do to the lock:
`LockAcquire` takes it, `InsideStep` keeps it, `ReleaseStep` gives it back, and the others
cite `LockStep`, the common frame. `JournalInv` adds `TaskOK`, what a suspended task knows (its
snapshot is what is stored, nobody has armed its signal, the outcomes it saves agree with the
closed rows), and the same for the outcome queue; because the lock is exclusive, a step of one
task leaves the knowledge of the others alone. The refinement follows action by action:
`RowLifecycle`, `SaveLifecycle`, `ArmLifecycle`, `StartupLifecycle`, and everything else
stutters. `CleanInv` and `LostInv` follow an outcome from the close to the table.

*Review.* `ReviewInv` says which rows are `Sound`: a pending row is untouched, an open one was
filled beyond its stop, its stop has moved only towards the price, and only if it is persisted,
and with break-even it is the plan's before TP1 and the entry after (`AtEntry`); that is why a
row past TP1 is never a loss and why the trailing, whose R is then zero, leaves it there. The
lemmas follow the calls: `ApplyTrailingStopMoves`, `MarkTp1Keeps`, `UpdateTrailingKeeps`,
`PriceTickReviews`, `ApplyTradeReviews`, `ApplyCandleReviews`. Each also says what evidence the
result needs (`Justified`). `EvidenceInv` adds that an open row has the evidence for its TP1 and
that the prices of candles still to be reviewed are among those it has seen. `NothingMissed` says
of every price since the fill that the only window has still to show it or that it is short of the
levels; a restart that forgets the stop in memory only widens it. `CandleAgrees` compares
`ApplyCandle` case by case with the four trades: a target needs the favourable order, a stop the
adverse one, and what lies between the extremes touches no level they do not touch.

*Bus.* `BusInv` is `Containers` (the queue is a list without repetitions of the pending
tokens, a coalescing token is the key of its event, other tokens are below `_sequence`),
`PopOrder`, `Between` and `Scheduled` (versions go up from what was delivered over what waits
to what is scheduled). The four outcomes of `_enqueue_event` share the lemmas `StoreContainers`
and `TakenKeeps`; `RemoveAtRange` and `AppendRange` say what happens to a queue without
repetitions. Distinct tokens carry distinct events, which is what makes "at most one is lost" of
the mailbox true. `ServedMax` finds the newest version of a batch by well-foundedness.

*REST client.* The invariant is `BreakerOK /\ RestOK`. Only five operators write the breaker's
tables; each has a lemma that it keeps `BreakerOK`. The two halves need each other:
`OpensAtThreshold` needs `failures` to be numbers, `HalfOpenIsExpired` needs the operation of a
call to be one of `Ops`. `FallbacksBounded` is a step property: an action of another call leaves
a failed call alone because attempts under way are in other stages, and the two fallbacks raise
`Rung`. For `ProbeLossIsNamed`, `ProbeStep` takes the steps of the call that will report one by one:
each records, which takes the operation out of `halfOpen`, or leaves the call with a record to make
(`StillReports`), or is a named exit; `OneCallMoves` says that no other step touches it, and
`OnlyAdmissionProbes` that whatever becomes half-open has just let a call through.

*Sender and pipeline.* The sender's invariant says who holds the lock at which stage and what
the breaker has counted; `ServeInv` adds that a text a call waits to have answered was shown or
put aside, and that answers given are earned. The pipeline's `PipeInv` says which
cycle holds a signal (`HoldInv`), what the sender's answer to a cycle is worth (`ReqInv`), what
the stage of a cycle says of its signal's row (`RowInv`) and that a content which has passed
the check is remembered and has one signal (`ContentInv`). `CapOvershootBounded` is not inductive:
a cycle past the test has yet to raise the counter. `CapInv` counts it with the counter (`Acting`
until the post, `Recording` until the cooldowns are set); the test is the only step that adds
to the sum, at a counter below the cap, and the steps that raise a counter take a cycle out.

*Stream.* `CacheInv`: caches are ordered and end before the open candle, so are the answers that
may replace them (`snap < now`), and a hole that the fill in flight will not see is written
down. `StreamInv` relates list, server and every call under way.

*Hunt.* `HuntInv`: whatever copy of the state a loop holds, its closed legs are `Accounted` for, by
a line of the archive or as one whose append failed; closing adds a line only where the copy was
open and the search found none (`AppendGrows`), and whatever a torn or unreadable file leaves is
accounted for trivially (`HuntErases`). For the levels,
`Keeps` says that an operation loosens no stop and makes no runner in the loss zone; it is proved
of each stage of `evaluate_levels` and composed. `TradedInv` keeps the extremes a leg has been
shown and its stop inside the range the market has seen.

### Only model-checked

- Liveness (`OperationsEnd`, `BacklogDrains`, `ShutdownEnds`, `HalfOpenResolves`,
  `AgedAreResolved`): beyond TLAPS.

## Plan

Done: the journal, its price review, the bus, the REST client, the Telegram sender, the
delivery pipeline, the candle stream with its subscriptions and caches, the hunt journal and
the levels of a hunt leg, and the proofs of all of them. Next, in this order:

1. `RateLimiter`: sliding window, weight budget, `force_floor`; no window above its
   maximum, every waiter served; composed with RestClient's stage "budget". Proof: the
   window bound, with timestamps as a set.
2. `KlineCycle`: shortlist lock, analysis semaphore and nested timeouts of
   handler, cycle and fallback runner; no permit leaks, no cycle blocks the next for ever.
3. `PidLock`, radar tiers and shortlist, the backtest's exits against the live review, the
   force-order buffer.

Theorems to come: for the journal, which of its promises survive the unlocked operations (a
forward-only status of the rows they do not touch).
