# Trade_ in TLA+

A model of the trading platform under `src/trade` and `scripts`: TLA+ modules, the TLC runs
that check them on small instances, and proofs checked by TLAPS. Paths below are
relative to the repository; `engine.py` without a directory is
`src/trade/paper/engine.py`, and so on.

1. [The system](#1-the-system)
2. [The modules](#2-the-modules)
3. [The runs](#3-the-runs)
4. [The proofs](#4-the-proofs)
5. [Where code and documents disagree](#5-where-code-and-documents-disagree)
6. [What is not modelled](#6-what-is-not-modelled)
7. [Plan](#7-plan)

To repeat the checks: `tlc -config EngineCrash.cfg MCPaperEngine` (the table of
section 3 names module and configuration of each run) and
`tlapm PaperEngine_proofs.tla` (likewise the other `_proofs` modules).

## 1. The system

Trade_ collects bars from Bybit and Binance, trains classifiers on them, and
trades the result on paper: the deployed program is `trade paper run`, one
process, asyncio for its feed, one helper thread for notifications. A live
exchange venue, a live reconciler and a health score exist as libraries and are
wired to nothing yet.

```
 Bybit WebSocket --> BybitKlineStream --> PaperTradingEngine --> notifier thread
                          |                |  |   |    |              |
                          |     predictor -+  |   |    +-> state.json Telegram
                          |      SimulatedVenue   |        decisions.jsonl
                          |      OrderManager     |        audit.jsonl
                          |      RiskManager      KillSwitchController
                          v
                  ingest --> QuestDB <-- bar reconciler <-- Bybit REST
 Bybit / Binance REST --> backfill --> parquet partitions + manifest
                                          |
                     MarketReplaySource --+--> backtest, walk-forward, training
```

### The paper engine and what it drives

| Component | State | Operations | What makes it correct |
|---|---|---|---|
| Paper engine, `paper/engine.py` | buffers of recent bars, closes, last bar time, cost basis, report boundaries | `run`, `process_bar_group`, `check_staleness`, `_settle_fill`, `_handle_decision`, `_snapshot_state`, `_restore_state`, `seed_history`, reports | A decision at a close fills at a later open; the account in memory is the one the journal replays; a restart is not noticed; a halted account only flattens; a disarmed one never trades. |
| Simulated venue, `mre/venue.py` | pending orders | `submit`, `process_open`, `cancel_all` (no caller) | Every pending order of a symbol fills once, at that symbol's next open. |
| Order manager, `mre/oms.py` | positions, cash, equity history, order counter | `apply_fill`, `compute_delta_orders`, `record_equity` | Deltas are against *filled* positions, so no symbol may have two orders in flight. |
| Drawdown gates, `mre/risk.py` | per layer (day, week, month): high-water mark, period key; halt reasons | `update`, `gate_targets` | A layer is halted from the close that breaches its limit to the end of the period, for no other reason and no longer. |
| Kill switch, `runtime/kill_switch.py` | active reasons, event history | `trip`, `clear`, predicates | Two sources raise reasons; neither clears the other's. |
| Journal and audit log, `paper/journal.py`, `audit/` | `audit.jsonl` (hash chain), `decisions.jsonl` | `record` appends to both, one after the other | What a restart replays is what happened. |
| Notifier, `paper/notifier.py` | bounded queue, one daemon thread, drop counter | `notify`, `flush`, `close`, `_run` | Trading never waits for a send; what was accepted is sent in order; shutting down ends. |
| Reports, `paper/report.py` | none of its own; reads `decisions.jsonl` | daily, weekly, monthly summaries | Each window's report is emitted once and counts its own events. |
| Configuration, bundles, predictor, bootstrap, `paper/` | frozen models and thresholds | load, warm up, predict | A decision only with enough history, and from closed bars. |

They interact by synchronous calls inside one coroutine. `run` takes a batch from
the feed (one `await`), groups it by bar time and processes each group without
giving up control: every symbol's pending orders fill at the open
(`process_open`, then `_settle_fill` for each, which writes the journal); the
close is marked, gates and kill switch follow; every symbol decides
(`_handle_decision`, which may queue an order and writes the journal); the state
is snapshotted. So within one process nothing interleaves but the notifier's
thread. What is hard is **the process boundary**: `decisions.jsonl` is appended
as things happen, `state.json` is rewritten once a bar, the drawdown marks and
the kill switch are in memory only, and a new process rebuilds itself from the
two files, which may disagree about anything that happened since the last bar
ended. Second, **splitting of a bar**: a replayed CSV delivers all symbols of a
time together, the WebSocket one message a symbol, so one symbol decides before
another of the same time has been marked.

### The data side

| Component | State | Operations | What makes it correct |
|---|---|---|---|
| WebSocket stream, `data/stream/bybit_ws.py` | attempt count, backoff | connect, subscribe, receive, reconnect | Confirmed bars in order; a reconnect loses bars and must not be mistaken for continuity. |
| Ingest, `data/stream/ingest.py` | stop event | `_run_stream`, `_run_reconciler` in one task group | Both tasks end when asked to; the reconciler outlives its own errors. |
| Bar reconciler, `data/stream/reconciler.py` | none (QuestDB) | find missing bars of a window, fetch, write | Every gap the exchange has the bars of is closed in the end. |
| QuestDB writer, `data/questdb/` | table with upsert keys | `write`, `latest_event_times` | A bar written twice is one row. |
| Backfill, `data/backfill/`, `exchanges/*_public.py` | cursor | page forward, group by month, write partitions and manifest | Every bar of the requested window is fetched once. |
| Storage and manifest, `data/storage.py`, `data/manifest.py` | objects and their hashes | `put`, `get`, `list_keys` | A manifest describes the bytes that are there. |
| Quality checks, `data/quality/` | counters | gaps, staleness, price sanity | Pure functions. |

### Execution against a real exchange (libraries, not wired)

| Component | State | Operations | What makes it correct |
|---|---|---|---|
| Bybit venue, `exchanges/bybit_venue.py` | none (the exchange's) | submit, cancel, positions, with retries | A retried submit executes once. |
| Paper venue, `execution/paper_venue.py` | positions, fills, acknowledged ids | the same protocol | An acknowledged order has its fill. |
| Sanity gate, `execution/gates.py` | caps | `check` | Gross exposure stays under its cap, as far as the caller knows it. |
| Live reconciler, `runtime/reconciler.py` | none | compare venue and local positions | A divergence that is reported has an order behind it. |
| Health score, `runtime/health_score.py` | none | weighted composite, floors | Pure function. |

### Research and training

| Component | State | Operations | What makes it correct |
|---|---|---|---|
| Replay source, clock, backtest loop, `mre/` | clock, pending orders, account | `history`, `run_backtest` | A strategy sees closed bars only, and its order fills at the next open. |
| Strategies, `strategies/` | `_entered` of buy-and-hold, else none | `on_bar` | The target follows from what was known at the close; what is journalled beside it says the same. |
| Features, `features/` | materialised values (memory, DuckDB) | `compute`, `materialize_feature`, `point_in_time_join` | A feature has the value in live use that it had in training. |
| Labels, `labels/` | none | triple barrier, binary or three-class | The label of a training row looks at no bar of the test window. |
| Walk-forward, `wfo/` | none | `walk_forward_splits`, `purged_embargo_folds`, `run_walk_forward*` | Train before test; trades inside the test window. |
| Training, persistence, `training/`, `model/`, `reproducibility/` | artifact directory: model, calibrator, manifest | `train_model*`, `save_*`, `load_*`, hash | What is loaded is one training, and it is the one asked for. |
| Freeze and forward test, `scripts/` | freeze manifest | `freeze_winners.py`, `forward_test.py` | A frozen model is judged on bars it has not seen. |
| Experiments, `research/`, `cli/research.py` | result files | run, rank, matrix, ablation, sweep | What is ranked and recommended is what was evaluated; one failure costs one row. |
| Metrics, `metrics/` | none | round trips, FIFO lots, ratios | The trades account for the cash. |

What is hard here is **time and selection**: indices of three lists (bars, labels,
features) that are cut at different ends, a warm-up that must reach back exactly
far enough, artifacts written one file at a time, and long batches in which some
members fail.

`PROJECT.json` lists every component with its status, and under `hazards` what
is hard to test in this code, line by line, with the property that watches it.

## 2. The modules

### RiskManager, DrawdownGates

`RiskManager` holds `mre/risk.py` as operators on a record `[key, hwm, reasons]`:
`RiskUpdate` is `update`, `GateTargets` is `gate_targets`. Limits are integers
per thousand and a breach is compared by cross-multiplication, which is exact
where the code divides floats. A calendar period (date, ISO week, month) is
`t \div PeriodLen[p]`: the code only ever compares keys for equality.

`DrawdownGates` feeds one manager an arbitrary equity curve, several closes of
one time included, and keeps the curve as history, so that the promise at the
head of `risk.py` can be stated without mentioning marks: *a layer is halted
exactly when, somewhere in its current period, equity closed too far below an
earlier close of that period* (`HaltedIffPeriodDrawdown`).

### PaperEngine

The engine with its venue, order manager, gates, kill switch, journal and files.
A time is a bar number; the bar that opens at `t` closes at `t + 1`.

| Variable | Code |
|---|---|
| `pos`, `pending` | `OrderManager._positions`; `SimulatedVenue._pending` by symbol |
| `risk`, `kill` | `RiskManager` fields; `KillSwitchController._active` |
| `lastBar`, `armed` | `_last_bar_time`; `execution_enabled` |
| `pc`, `now`, `syms`, `todo`, `fills` | where `process_bar_group` stands: its bar, the symbols of its loops still to come, the fills returned by `process_open` and not settled |
| `unwritten` | the event `journal.record` has put in `audit.jsonl` and not yet in `decisions.jsonl` |
| `ledger`, `filled`, `decided` | what the lines of `decisions.jsonl` say: positions they replay to, orders with a fill line, orders with a decision line |
| `snap` | `state.json`: pending orders, last bar time |
| `feed`, `equity`, `exposed` | the exchange: last bar delivered of each symbol, worth of the account at the last close, whether prices could have moved it since |
| `starts`, `halts` | history: process starts; halts raised, by process, layer and period |

| Action | Code |
|---|---|
| `DeliverGroup` | `run`, `process_batch`: one group of bars of one time, any subset of the symbols |
| `ProcessOpen`, `SettleFill`, `WriteFillLine` | the open phase: `process_open`; `_settle_fill` up to the audit append; the append to `decisions.jsonl` |
| `MarkClose` | equity recorded, `RiskManager.update`, `_sync_drawdown_halt` |
| `JournalOnly`, `Hold`, `QueueOrder`, `WriteDecisionLine` | the ways `_handle_decision` ends: warm-up or observe-only; hold; order queued and its decision journalled |
| `SnapshotState` | `_snapshot_state` |
| `CheckStaleness` | `check_staleness` past its threshold |
| `Restart` | the process ends (between bars, or anywhere if `CrashAnywhere`) and `__init__` with `_restore_state` runs |

One action is one stretch of code between two points at which the process can
die with a different outcome: every durable write has its own. Inputs are the
strategy's target (any of `Targets`), whether it has history enough, the equity
at a close (any of `Equities` if the account is exposed, unchanged if it is
flat) and the split of bars into groups.

`ExactlyOnceAccount` is the abstract specification: an account, at most one
outstanding order a symbol, each order executed once and all the way to its
target; no process, no files, no restart. `PaperEngine` implements it
(`RestartsTransparently`) under the mapping `account <- pos`, `outstanding` the
pending orders and unsettled fills, `executed` the fills that moved the account
-- as long as the process only ever stops between two bars.

### BackgroundNotifier

`paper/notifier.py` with its two threads: the main thread trades (`Notify`),
then stops (`Stop`, two flushes, the sentinel, the join, exit); the worker takes
an item (`Get`) and sends it (`Send`, which succeeds or raises). `flush` and
`join` have deadlines (`TimeOut`), the put of the sentinel has none. Messages
are numbered in the order `notify` accepts them.

### Backfill

`page_klines`, the partitions and manifest of `cli/backfill.py`, and
`fetch_seed_bars`, over one exchange's bars of one symbol. A time is a bar
number; of a bar's content only one thing is kept, whether it had closed when it
was fetched. `Tick` is the exchange opening its next bar, or having none of that
time. `Begin` fixes the window, `FetchPage` is one turn of the paging loop,
`EndPaging` its returns, `PutPartition` and `PutManifest` are the writes in their
order (`unlisted` is the months put since the last manifest, the only ones a load
may find of another run), `HandOver` is the bootstrap and the cross-validation,
which store nothing.
`Die` ends a command at any of these points, and another may follow.

`Answers` is the exchange, and not in this repository: at most `Batch` bars of
the window, from its old end (`order = "oldest"`) or its new one (`"newest"`,
which is what `exchanges/bybit_public.py:105` and `tests/test_backfill.py:28`
say of Bybit). The properties are stated for either; `WholeWindow` has the
condition under which paging forward is right.

### Ingest

The two tasks of `data/stream/ingest.py` and the table they share. The
environment is the clock and the exchange (`now`, `bars`, `order`, `Answers`: as
in `Backfill`), the network, and whoever starts, stops and kills the command.

| Variable | Code |
|---|---|
| `table` | QuestDB's `klines`, by symbol; a record keeps its time and whether the bar had closed when it was fetched |
| `alive`, `stop` | the process; `stop_event` |
| `link`, `inbox`, `streaming` | the WebSocket session is up; confirmed bars sent and not received; `_run_stream` has not returned |
| `recon`, `passNow`, `turn`, `missing` | where `_run_reconciler` stands: its wait, its loop over the targets or a request; `now_ts`; the target; the times asked for |

| Action | Code |
|---|---|
| `Connect`, `Disconnect` | `_session` up and subscribed; its end and the reconnect loop. What was in flight is lost |
| `Receive` | one turn of `_run_stream`: the stop event, then the write |
| `BeginPass`, `EndPass`, `StopReconciling` | the loop of `_run_reconciler` |
| `Look` | a target of `reconcile_once` up to its request |
| `Fill`, `Fail` | the answer and its write; an exception anywhere in the pass |
| `SetStop`, `Exit`, `Die` | a signal; the task group's end; a kill, or an exception of the stream task, which takes the reconciler down with it |

A message that is not a confirmed bar changes nothing and is a stutter. The table
starts with any set of closed bars, as earlier processes left it. Event times are
taken to come back from the table as they were written, with their time zone:
what the driver makes of QuestDB's `TIMESTAMP` is outside the repository, and a
naive time would make every comparison in `find_missing_bars` raise.

### Decision, Benchmarks, TradeMetrics

Operators without state. `Decision` is the step from probabilities to a target in
`model_driven.py` and `binary_model_driven.py`, and beside it the direction that
`paper/predictor.py` derives from the same probabilities for its journal;
probabilities are in percent, the quantity is an input. `Benchmarks` holds the
positions that buy-and-hold, crossover, momentum and the random signal may ask
for at a bar. `TradeMetrics` is `compute_trade_metrics` and `hit_rate` as folds
over the fills of a run, written as recursive functions of the number of fills;
of the lots a fill closes (`Kept`) those closed whole are the first ones. The
average entry price is kept as average times quantity, and prices of the instance
are even, so that halves of a position stay whole numbers.

### WalkForward

One evaluation: splits, labels, point-in-time join, training and calibration
rows, and the replay of each test window, once a threshold. Bars are numbered
from 0. Of a fitted model only its rows are kept: in the replay it may give any
of `Probs`.

| Variable | Code |
|---|---|
| `bars`, `plan` | the sorted timeline; the arguments of `run_walk_forward*` and the strategy |
| `pc`, `fold`, `theta` | where `run_walk_forward_model` or `run_walk_forward_threshold_sweep` stands |
| `rows` | rows the fold's model was fitted on (`fit`) and calibrated on (`cal`) |
| `first`, `at`, `pending`, `fills` | first bar of the replay, the bar it opens next, the venue's order, the fills of `run_backtest` |
| `served` | history: bars at whose close the strategy had all it needs |

| Action | Code |
|---|---|
| `TrainFold`, `SkipFold`, `FailFold` | `_train_fold` and `train_model`: trained; no usable label; `ValueError` because calibration leaves nothing |
| `PlainFold` | a split of `run_walk_forward`, which neither trains nor warms up |
| `WholeRun` | `backtest run`: any strategy over all bars, no split and no training (a plan with `train = 0`) |
| `ReplayBar` | a turn of `run_backtest`: fill at the open, `on_bar`, the risk manager's gate (which may drop a target), the order |
| `EndReplay`, `Finish` | `summarize` and the next threshold or fold; no split is left |
| `NextStrategy` | `backtest benchmark-suite`: the next strategy of the suite over the same bars, with a book of its own |

### FrozenModel

The forward-test protocol: `freeze_winners.py` trains one model a symbol, writes
model, calibrator and manifest of its artifact directory one after the other,
and after the last symbol the freeze manifest (`StartFreeze`, `Train`,
`SaveModel`, `SaveCalibrator`, `SaveManifest`, `WriteFreezeManifest`); `Abort`
ends it anywhere. History files grow (`Extend`) and code changes (`Commit`) in
between. `Forward` is `forward_test.py` judging one winner, and `Verified` the
check it shares with `PaperSymbolBundle`. `dirty` is history: an artifact was
written since the freeze manifest.

### Selection

The commands of `cli/research.py` and `funding_ablation.py`. Each evaluates
experiments one after the other (`RunExperiment`, `EvaluateCell`, `RunVariant`,
`RunArm`, `SweepFold`), and then ranks, compares or recommends (`RankDirectory`,
`PublishMatrix`, `CompareVariants`, `CompareArms`, `Recommend`). `Fail` is an
exception or a kill before the report. Outcomes are arbitrary lists of fold
reports; the consistency score is a constant, of which only its value for no
folds is assumed, and that it is a number. A ranking is any listing of the
rows that is in order (`Ranked`, `RankedByScore`): the model takes every order among equals, so
nothing rests on the sort being stable. `ReportsAt` gathers the reports of a
threshold, once for each place at which it was named. `ran` is history: what each
evaluation really gave.

### OrderVenue, LiveOrders

`OrderVenue` is what a caller of `submit_order` relies on: an order is executed at
most once, and confirmed only when it was. `LiveOrders` implements it
(`VenueSpec`) with either venue, under `executions <- executed` and `confirmed`
the orders the Bybit venue acknowledged or called duplicates.

| Variable | Code |
|---|---|
| `call`, `calls`, `tries`, `reply` | a submission: how it stands or ended, how many there were, the attempts of tenacity, the response at hand |
| `requests` | requests in the network, which may arrive at any later time or never |
| `links`, `executed`, `position` | the venue: `orderLinkId`s it knows (`_acked` of the paper venue), executions, positions |
| `applied`, `local` | the caller's account, which `local_positions_fn` and the gate read |
| `reading`, `seen`, `moved`, `drift` | `reconcile_once` across its `await`, and what it found |

`Submit`, `Retry`, `GiveUp`, `Return` are `_signed_post` and `_unwrap`; `Accept` and
`Refuse` are the exchange; `PaperSubmit` is the paper venue in one step;
`ReadVenue` and `Compare` are the reconciler on the two sides of its `await`. The
caller is not in the repository; what it may do is stated at the head of the
module.

## 3. The runs

| Run | Module, configuration | Checks | Result |
|---|---|---|---|
| `gates` | `MCDrawdownGates`, `MCDrawdownGates.cfg` | marks are the period's high; halted iff drawn down | holds |
| `engine_crash` | `MCPaperEngine`, `EngineCrash.cfg` | a process that may die anywhere: types, account = journal, one order a symbol, fills were decided, no look-ahead, halts last, staleness latched | holds |
| `engine_stops` | `MCPaperEngine`, `EngineStops.cfg` | a process that stops between bars, armed or not: halted orders flatten; refinement of `ExactlyOnceAccount` | holds |
| `notifier` | `MCBackgroundNotifier`, `BackgroundNotifier.cfg` | order, no loss, exit after all, liveness of shutdown and of sends | holds |
| `backfill` | `MCBackfill`, `Backfill.cfg` | batches ascend, closed bars only, windows are whole, a load gives the last run but for whole months a dead one replaced, a run ends | holds |
| `ingest` | `MCIngest`, `Ingest.cfg` | closed bars only, an answer closes a gap, gaps close in the end, the reconciler stops | holds |
| `evaluation` | `MCWalkForward`, `WalkForward.cfg` | training on settled labels of the past; fills inside the test window; features as trained; journalled direction = target, thresholds nest; round trips = cash when no fill closes a part; FIFO lots = position | holds |
| `forward` | `FrozenModel`, `FrozenModel.cfg` | judged bars come after those trained on, with the calibrator of the same training | holds |
| `selection` | `MCSelection`, `Selection.cfg` | rankings, comparisons and recommendations rest on what was evaluated | holds |
| `live` | `MCLiveOrders`, `LiveOrders.cfg` | refinement of `OrderVenue`; gross cap up to unsettled orders; drift has a cause | holds |
| `double_fill` | `MCPaperEngine`, `EngineDoubleFill.cfg` | "resumes exactly where it left off" | violated |
| `partial_close` | `MCWalkForward`, `PartialClose.cfg` | "closing all/part of the position" | violated |

Four further configurations, `EngineHaltLost.cfg`, `EngineDisarmed.cfg` (both of
`MCPaperEngine`), `BackfillNewest.cfg` (`MCBackfill`) and `IngestStop.cfg`
(`MCIngest`), reproduce disagreements of section 5 with `tlc` and are not among
the listed runs.

**Bounds.** *gates*: closes at times 0..4, curves of up to five closes, layers of
one and three bars, equities 900, 950, 1000 with limits of 35 and 80 per
thousand: a breach of both, of one and of neither layer, with every way of
falling and recovering inside and across periods. *engine_crash*: two symbols,
times 0..2, two starts. Three bars are what it takes to decide, fill and decide
again; two symbols give every split of a bar; one restart at any of the points
inside three bars covers each pair of files that disagree. *engine_stops*: one
start more, so that a restored order can be restored again, and either value of
`execution_enabled` at each start. Targets are -1, 0, 1 (open, reverse, flatten);
the layers are one and two bars long, so a halt ends inside the run for one and
not for the other. *notifier*: a queue of two and five messages: it fills, drops,
empties and fills again. *backfill*: four times, answers of two bars, months of
two: windows of one answer and of two, within a month and across, over and still
open when they are asked for, each with every set of gaps; as many commands one
after the other as there are, since nothing counts them. *ingest*: two symbols, of
one of which the exchange may lack bars, so that a failure at the first keeps
the second waiting; a look-back of three bars, so that a gap may lie before,
between or after bars that are there; the clock moves once, so that a bar closes
and the window moves during a pass; one bar of slack (the code has five). Drops,
failures, passes and restarts are not counted. *evaluation*: eight bars, of which three
move in any of four ways (a barrier up, a barrier down, both in one bar, not at
all) so that labels of every kind lie on either side of a cut; rolling and
expanding windows, horizons one and two, binary and three-class, long-only and
not; one feature over three bars, which has no value while closes stay the same, and
one that starts late, so that warm-up and join both matter; two thresholds, eight probability vectors at, between and
beyond them; quantities one and two, so that positions are opened, added to,
flipped and closed in parts; the benchmarks over a test window of five bars, long
enough for each to trade; and a suite of benchmarks over all bars. *forward*: two winners, files of up to three bars, two
versions of the code, any number of freezes: a freeze can be cut short at either
winner and repeated over a longer file with the same hash. *selection*: three
cells, two folds, four fold reports (idle, losing, winning, winning with too much
drawdown), sweeps of one threshold, two, and one named twice. *live*: a long
order and a short one which the caps allow one at a time, two attempts a
submission, two submissions an order: a late first request can arrive during the
second submission, or after the other order. What lies beyond the bounds is what
the proofs are for.

**Deadlock.** `CHECK_DEADLOCK FALSE` in the engine and gate runs: feed and
starts are bounded, and a bounded run stops; in the evaluation, which ends. The notifier is checked for
deadlock, with an explicit step for the exited process; so are the backfill, the ingest, the freeze, the
selection and the live orders, where a command can always be given or the
reconciler can always look.

**Fairness.** The notifier, the backfill and the ingest state some. The worker thread is weakly fair
because it blocks on nothing but its queue and because a send has a timeout
(`notifier.py:60`); the main thread's shutdown steps are weakly fair because
each is a loop with a deadline or a put the worker makes room for. Nothing is
assumed to end trading, and nothing makes a send succeed. Under this, `StopEnds`
(shutting down ends, although one put blocks on a full queue) and
`AcceptedIsTried` hold. In the backfill, a running command goes on (`Working`): every
request has a timeout (`binance_public.py:45`), and an answer, an error and the
death of the process each lead somewhere. `BackfillEnds` then says that paging
terminates, which is a matter of the cursor and not of the exchange.
In the ingest the reconciler goes on (its wait has a period, a request a timeout),
a message that has arrived is received, and what is asked of the table or the exchange
again and again is answered in the end (strong fairness of `Look` and `Fill`, for
each symbol: without it an exchange that always fails keeps every gap open, and
nothing the code could do would help). Nothing makes a session come up or last,
so gaps close by the reconciler alone.
The engine has no liveness property: nothing in the code
promises that a bar arrives. Nor have the evaluation, the freeze, the research commands
and the venues: each is a loop over a finite list or a bounded number of attempts.

**Mutants.** Every property of a passing run is broken by a mutant in the same
module, a variant of one definition marked `Mutant`: an order stamped one bar
early, a fill journalled and not applied, a halt that ends when the drawdown
recovers, a notifier that makes room by losing its oldest message, labels that
are not trimmed, a warm-up one bar short, a cutoff at the last label in place of
the last bar, an order id made anew for each attempt.

## 4. The proofs

Each theorem is about the specification without bounds on its constants: any set
of symbols, any targets and equities in the integers, any periods, any number of
bars and starts. The assumptions are `RiskAssumption`, `GatesAssumption`,
`EngineAssumption`, `NotifierAssumption`, `BackfillAssumption`, `IngestAssumption`,
`WalkForwardAssumption`, `BenchmarksAssumption`, `FeeRateAssumption`,
`FrozenModelAssumption`, `SelectionAssumption` and `LiveOrdersAssumption`, which give
the constants their types. Four say more. A binary plan's thresholds are above one
half, which `BinaryModelDrivenStrategy` checks when it is built
(`0.5 < confidence_threshold`); the features have a longest lookback, as `max()`
takes it; `Staleness \notin Periods` is what `engine.py:315` relies on when it
tells the two kinds of reason apart; and no folds have the score 0, as in
`research/robustness.py`.

| Theorem | Module | States |
|---|---|---|
| `GatesCorrect`, `MarksCorrect` | `PaperEngine_proofs` | `MarkIsPeriodHigh`, `HaltedIffPeriodDrawdown` and types are invariants of `DrawdownGates` |
| `Invariance`, `TypeCorrect` | | the inductive invariant `Inv`, types |
| `JournalCorrect` | | the account is what the journal replays, wherever the process died |
| `OneOrder`, `DecidedFirst`, `NoLookAheadEver` | | `OneOrderPerSymbol`, `FillsWereDecided`, `NoLookAhead` |
| `HaltLasts`, `StalenessLatched` | | the two action properties |
| `HaltedFlatten`, `FilledOnce`, `Transparent` | | with `~CrashAnywhere`: halted orders flatten; no order is settled twice; the engine implements `ExactlyOnceAccount` |
| `NotifierInvariance`, `InOrder`, `LastReturn`, `AllBeforeExit` | `BackgroundNotifier_proofs` | the notifier's inductive invariant and its safety properties |
| `BackfillInvariant`, `PagingAscends`, `ClosedBarsOnly`, `WindowIsWhole`, `ManifestIsOfOneRun` | `Backfill_proofs` | the backfill's inductive invariant and its four safety properties, for every batch size, month length, gap pattern and number of commands |
| `IngestInvariant`, `ClosedBarsStored`, `FillsClose` | `Ingest_proofs` | the ingest's inductive invariant, `OnlyClosedStored` and the action property `FillClosesAGap`, for any targets, look-back and any slack of at least one bar |
| `SplitsInOrder`, `PurgedFoldsApart`, `TrimmedEnd`, `LabelSettled` | `WalkForward_proofs` | the arithmetic of splits, purged folds, cut label lists and barriers, for all sizes |
| `Invariant`, `TypeCorrect` | | the evaluation's inductive invariant; types |
| `TrainingHonest`, `TradesInTest`, `ServingMatches` | | `HonestTraining`, `FilledInTest`, `ServedAsTrained` |
| `DirectionOfTarget`, `ThresholdsNest`, `DecisionsAgreeing` | | journalled direction and executed target agree, and a higher threshold only removes positions: `DecisionsAgree` |
| `ScoresMatchCash`, `LotsCorrect` | | `WholeTradesMatchCash` and `LotsMatchPosition`, for fills of any number and size; from `TradesAccount` and `LotsHeld`, which are about any list of fills |
| `Invariant`, `TypeCorrect`, `Reported`, `RecommendsBest` | `Winners_proofs` | of `Selection`: the inductive invariant, types, `ReportedAsJudged` and `RecommendedIsBest`, for any number of experiments, folds and thresholds, any score and any failures |
| `FreezeInvariant`, `FreezeTypeCorrect`, `ForwardOutOfSample` | | of `FrozenModel`: the inductive invariant, types and `OutOfSample`, for any number of winners, any horizon and any freezes |
| `Invariant`, `TypeCorrect` | `LiveOrders_proofs` | the inductive invariant of the order path, types |
| `Refines` | | `LiveOrders` implements `OrderVenue` (`VenueSpec`): an order is executed at most once however often it was asked for |
| `GrossIsBounded`, `DriftCorrect` | | `GrossBounded` and the action property `DriftIsReal`, for any number of orders of any size and any limit |
| `SumRemove`, `SumAdd`, `SumSame`, `SumZero`, `SumNat`, `SumChange`, `SumAppend` | `SumTheorems` | what a sum over a finite set or a sequence is, whatever order the recursive definition takes |

**Gates.** The two properties together are inductive once it is known that the
curve's times never decrease and that the key of a layer is the period of the
last close. A close in a new period leaves exactly one point in the period; a
close in the same period adds one, and a breach of the mark is a breach of the
point that is the mark, because `Breach` is monotone in the mark
(`BreachMonotone`). The lemmas about `RiskManager` serve the engine too, which is
why one module holds both proofs.

**Engine.** No property of the engine is inductive by itself. That a symbol has
one order rests on which symbols of the bar in hand have had their turn (a
symbol past its open and not at its decision has none) and on what `state.json`
holds, since a restart puts it back. `Inv` says this in named parts: `Phases`
(what each variable means in each phase), `Queues` (one order at most in queue,
hand and file), `Stamps` (no order is stamped later than the close of its
symbol's last bar), `Decisions` (an order that may fill has its decision line),
and `PositionsMatchJournal`. One lemma per part and one step per action shows
that it is preserved. `HaltLasts` needs in addition that a halt raised in a
period stays among the reasons while the key of its layer does not change
(`HaltsKept`), and that keys follow the feed (`KeysFollowFeed`).

**Stops between bars.** With `~CrashAnywhere` a restart finds `state.json` equal
to memory (`Settled`), an order on its way leads from the position to its target
and has not been executed (`OnTheirWay`). The refinement follows: `QueueOrder` is
`Place`, `SettleFill` is `Execute`, everything else, `Restart` included, stutters.

**Backfill.** That a finished window is whole is not inductive; that what has been
collected is *all there is below the cursor* is (`Complete`), and it needs that an
answer leaves out nothing before its newest bar (`NothingBefore`): true of answers
oldest first, and of a window that fits one answer because a set of at most
`Batch` times is then the whole of it (a cardinality argument, `FittingAnswer`).
`Written` says which partitions are this run's already while the others are not.
For a load over whatever runs have died, `Partitions` says that a partition has the
bars of its month and each once, which needs that no time is collected twice.

**Ingest.** That only closed bars are stored needs to know of both writers what they
hold in hand: what was sent has closed (`Sent`), and what is asked for lies in a
window that ended when the pass began (`Asking`). `FillsClose` is a counting
argument (`AnswerHasTheEnd`): were the gap at the answering end left out, the
answer would lie beyond it, where a request reaches one bar at most; but an
answer that leaves something out has `Limit` bars, which is at least two.

**Evaluation.** A training row is a row of the trimmed label list, and the list is
trimmed by *count*: that the last `horizon` entries are gone says nothing of bars
when a directional run left rows out of the list. `TrimmedEnd` is the counting
argument: `horizon` later rows inside the slice lie on as many different bars, so
the row's horizon ends inside the slice. `LabelSettled` then compares the label
with that of the whole timeline, because a first touch within the horizon does
not depend on where the data ends. The rest is carried through a replay by the
invariant: the replay began at the warm-up, an order on its way was decided at
the close of the bar before and where the strategy had its features, hence not
before the last bar ahead of the test window. `DecisionsAgree` needs no state: it
is a case distinction over the two decision rules.

**Sums and folds.** Positions, exposures and scores are sums, which the community
modules define by recursion, and the prover's library states induction with an
operator as parameter, which no installed prover can instantiate. `SumTheorems`
does without: a set that is not empty has a least number in it (`LeastNatural`)
and a minimal set among the subsets of a finite one (`MinimalSubset`), so a fact
about every sum is proved by the least case in which it would fail. The same
argument gives the recursive functions of `TradeMetrics` their values
(`TradesExist`, `LotsExist`) and carries facts along them (`CountingUp`).

**Scoring.** That a flat book's trades are its cash is a statement about the end of a
run. What holds after every fill (`Accounts`) is that the closed trades' results
differ from the cash by the open trade's notional and its fees: opening and adding
move both by as much, and closing the whole of a position moves the difference into
the result, the two divisions being exact there. With a partial close they are not,
and this is where the proof stops and `partial_close` begins. For the lots, the
units the first `k` of them hold grow with `k` (`HeldUpToGrows`), so that the lots
which a close of `c` units takes whole are those up to a last one, the next is taken
in part and the others are not touched (`GoneFacts`); what is kept then adds up to
what is left of the position (`KeptFacts`).

**Selection.** What is reported rests on what is kept of each evaluation: a row is
that of its cell (`RowsOfRuns`), a sweep's reports are those of its folds
(`RowsOfFolds`), and nothing but a session evaluates after it has reported
(`Commanded`). A passer is an experiment that was evaluated,
traded in enough folds and kept every drawdown (`PassedIsEarned`). `RankingReported` and `ComparisonReported` are then about the steps that
report, and `BestExists` is the fact that a finite set of passers has one that no
other is better than, two keys compared.

**Orders.** Venue and caller book an order at different times. Each position is a sum
over a set of orders, those executed and those acknowledged, so the books differ by
the orders in one set only (`SameBooks`, `ExecuteBooks`, `ApplyBooks`), and one more
order moves the gross notional by at most its own (`GrossMove`). `GrossBounded`
follows from the gate, which saw the caller's book, and a drift from an order that is
in one of the two. That a repeated request does nothing is the invariant of
`Refines`: an order is executed when the venue knows its id, and at most once.

**Freeze.** `OutOfSample` is about two files written by different processes. The
invariant says of each file which training it may hold in each phase, that a
symbol whose artifacts were not touched since the freeze manifest has all three
files of one training, whose cutoff is the manifest's, and that entries held in
memory are those of the files already written.

**Model-checked only.** `StopEnds` and `AcceptedIsTried` of the notifier,
`BackfillEnds`, `GapsClose` and `ReconcilerStops`: liveness under fairness is
outside what the prover handles. Every safety property of a passing run is stated
by a theorem. What the theorems do not give is that the constants of an instance
satisfy the assumptions, and that an interesting case occurs: this is what the runs
and their mutants are for.

## 5. Where code and documents disagree

The first two are runs; the next four can be repeated with the configuration that
is named; the others were met on the way.

**A crash between the fill line and the snapshot fills an order twice**
(`double_fill`). `decisions.jsonl` gets the fill at `engine.py:406-421`, without
an order id; `state.json` still lists the order until the end of the bar
(`engine.py:297`). A process that dies in between replays the fill *and* submits
the order again (`engine.py:622-625`). `engine.py:596-597` and
`eval_reports/memos/phase_4d_paper_armed.md:43-50` promise that a killed process
resumes exactly where it left off. `FilledOnce` proves the promise for a process
that stops between bars.

**A partial close corrupts the round trips** (`partial_close`). When a fill closes
part of a position, `compute_trade_metrics` sets its position to zero
(`metrics/trade_metrics.py:100-107`): what remains is forgotten, and the fill that
closes it opens a trade on the other side. The comments at lines 86 and 90 and the
docstring at 54-55 describe the partial close that the code does not do. The book
ends flat and the trades do not add up to its cash. Model strategies ask for
`equity * fraction / close` at every bar, so almost every position is closed in
parts, and win rate, expectancy and profit factor of the reports rest on this.
`WholeTradesMatchCash` is the same statement without such fills, and holds.

**A restart forgets a drawdown halt** (`EngineHaltLost.cfg`). `__init__` builds a new
`RiskManager` whose marks are the initial equity and an empty kill switch
(`engine.py:106-112`); `_restore_state` restores neither. In the period that was
halted, the new process opens positions again, against `mre/risk.py:3-4`.
`HaltLasts` proves the promise for the life of a process.

**A disarmed engine trades** (`EngineDisarmed.cfg`). `_restore_state` submits the
pending orders of `state.json` whatever the switch says, and they fill at the next
open (`engine.py:271-275`): an engine started disarmed after an armed one opens or
closes a position, against `engine.py:10-12`. It is one order a symbol, decided
while armed.

**Paging forward needs answers from the start of the window**
(`BackfillNewest.cfg`). Every request goes from the cursor to the end of the whole
window (`data/backfill/common.py:62`). An exchange that returns its list newest
first and cuts it at the limit answers the first request with the last batch of
the window; the cursor passes the end, and the run finishes with that batch as if
the window were complete, against `common.py:3`. Tests and comments of the
repository say that Bybit answers newest first; whether it also cuts from that
end is the exchange's behaviour, which the model leaves open: `WindowIsWhole`
proves that nothing is missed if it does not, or if the window fits one answer
(the engine's seed of some hundred bars does).

**An ingest that is told to stop waits for a bar** (`IngestStop.cfg`). The stream task
looks at the stop event when the stream has yielded a batch
(`data/stream/ingest.py:36-38`), and the stream yields nothing while it reconnects
or waits. The reconciler returns (`ReconcilerStops`), but the task group waits for
the stream: for the next closed bar, or for as long as the exchange cannot be
reached, against `ingest.py:10`.

**A freeze cut short can break the forward test.** New model files lie under the old
freeze manifest, and the hash that is checked covers data sets by name, not their
content (`reproducibility/hash.py:26-64`): over a longer file and the same code it
is the same hash, and the model is judged from the old cutoff, on bars it was
trained on. `NeverSeen` of `FrozenModel` states the promise without the
condition of `OutOfSample`; TLC violates it.

**A repeated submission to the paper venue may be acknowledged without a fill.**
`execution/paper_venue.py:64` takes the id before it asks for the mark; if that raises,
the next submission is answered as a repetition. `VenueSpec` therefore counts only
the Bybit venue's acknowledgements as confirmations.

**Momentum looks one bar less far back than it says.** `strategies/momentum.py:53`
says "Return from (lookback + skip) bars ago", and `history[-(lookback + skip)]` is
`lookback + skip - 1` bars before the last.

**A sweep without a passer recommends nothing.** `research/sweep.py:148` says that the
highest-consistency non-passer is recommended; the value returned is `None`, and
only the note names it.

**Benchmarks start cold.** `run_walk_forward` replays the test window alone
(`wfo/runner.py:72-76`), so a crossover or a momentum benchmark is idle until it has
its history, while a model strategy is warmed up before the window: they are
compared over different stretches.

## 6. What is not modelled

In the engine: feature buffers and `seed_history`; cost basis and realized
profit; prices, slippage and fees (an equity is an input instead); reports; a
replay of a CSV over an existing journal, which delivers old bars again (the feed
of the model repeats nothing, as `engine.py:199-200` assumes); lines torn by a
machine that loses power. The calendar is a period length. Floats are integers:
the model says nothing about rounding at `_MIN_DELTA_QTY` or at a drawdown limit.

In the backfill: the funding backfill, which is the same loop over settlements;
the bucket store; the hash in a manifest, which nothing reads back; the comparison
of two sources; quality checks. A later command replaces a month's partition
whole, also by fewer bars, and its manifest forgets the other months: the code
promises nothing else, and `LoadsLastRun` says what it does promise. A run that dies
between two partitions leaves its months under the old manifest, whose hashes
nothing checks: `LoadsLastRun` says how far that goes and does not exclude it.

In the ingest: counters and metrics; heartbeats; `max_reconnects`, which the command
line never sets; the cap of 1000 on a request, which a look-back of 240 bars never
reaches. `GapsClose` is stated for a symbol the exchange has every bar of. It would
not hold for others: a bar the exchange does not have is asked for in every pass
and widens the request, and an answer cut from the new end may then never reach an
older gap.

In the evaluation: several symbols in one replay (`risk_parity` weighs them by
volatility), the equity and the drawdown gates of a replay (a target may be
dropped at any bar instead), formulas of features (of `VolRegime`, which has no value
while returns do not vary, the closes that stay the same stand for that), fitting and calibrating
(a model may give any probabilities), slippage, ratios over the equity curve,
purge and embargo beyond their index arithmetic (no command calls the purged
folds). `Decision` takes a positive quantity: with equity at or below zero a long
signal is a sell, and the journalled direction says long.

In the freeze and the forward test: the self-test mode, bar files that are rewritten
and not extended. In the research commands: turnover as a tie-break, layout of
tables, `sweep_reports.py`, which formats. `RecommendedIsBest` is about distinct
thresholds; a threshold given twice is judged on its reports twice.

In the live libraries: cancellation, prices of fills, freshness and price checks of
the gate, time windows of signatures, and the exchange forgetting an
`orderLinkId`. A GET is retried by the same rule as a POST and changes nothing.

Not modelled at all: reports (sums over the journal and their layout), the health
score (a weighted sum), experiment tracking, request signing and HTTP, the
`train` command and the oracle of the benchmark suite (they pass data on), and the hash chain of the
audit log, whose verification is a fold over lines that nothing but `verify` reads.

## 7. Plan

| Step | Modules | About | State |
|---|---|---|---|
| 1 | `RiskManager`, `DrawdownGates` | gates against their promise | done, proved |
| 2 | `PaperEngine`, `ExactlyOnceAccount` | the account across decisions, fills and restarts | done, proved |
| 3 | `BackgroundNotifier` | two threads and a bounded queue | done, safety proved |
| 4 | `Backfill` | paging against exchanges that answer oldest or newest first; partitions and manifest | done, safety proved |
| 5 | `Ingest` | stream, reconnects, bar reconciler and QuestDB: every gap is closed | done, safety proved |
| 6 | `TradeMetrics`, `Decision`, `Benchmarks`, `WalkForward` | evaluation: no leak, replays, decisions, scoring | done, proved |
| 7 | `FrozenModel` | freeze and forward test over crashes and repetitions | done, proved |
| 8 | `Selection` | experiments, rankings, sweeps with failures | done, proved |
| 9 | `OrderVenue`, `LiveOrders` | submission with retries executes once; gross cap; live reconciler | done, proved |
| 10 | `AuditJournal`, reports | hash chain, torn lines, report windows | open |
| 11 | history buffers of the engine | gaps and repetitions in live history | open |

Every safety property the runs check has its theorem; the modules of the last two
steps will need theirs.
