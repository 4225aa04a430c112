---------------------------- MODULE WalkForward ----------------------------
(***************************************************************************)
(* Walk-forward evaluation: the splits (src/trade/wfo/splitter.py), the    *)
(* triple-barrier labels (src/trade/labels/triple_barrier.py), the         *)
(* point-in-time join and the training of each fold                        *)
(* (src/trade/features/store.py, src/trade/training/pipeline.py), and the  *)
(* replay of its test window, once for every confidence threshold          *)
(* (src/trade/wfo/model_runner.py, src/trade/mre/backtest.py).  A plan     *)
(* without training bars is a plain backtest of the whole timeline         *)
(* (src/trade/cli/backtest.py).                                            *)
(*                                                                         *)
(* Bars are numbered from 0 in the order of their open times.  Of a fitted *)
(* model only the rows it was fitted and calibrated on are kept: the       *)
(* probabilities it gives in the replay are any of Probs.                  *)
(***************************************************************************)
EXTENDS Integers, FiniteSets, Sequences, TradeMetrics, Decision, Benchmarks

CONSTANTS
    Histories,    \* bar sequences: functions on 0..n-1
    Plans,        \* what the caller asks for
    Features,     \* of each: lookback_bars, first bar with data, and how many
                  \* closes it needs a movement in, if it is a ratio of volatilities
    Barrier,      \* distance of both barriers from the entry price
    CalPercent,   \* calibration_fraction, in percent
    Thresholds,   \* confidence thresholds replayed on each trained fold
    Probs,        \* probabilities a model may give
    Sizes         \* quantities that equity and price may give

Plan == [ strategy : Benchmarks \cup {"model"}, train : Nat, test : Nat \ {0},
          step : Nat \ {0}, expanding : BOOLEAN, horizon : Nat \ {0},
          directional : BOOLEAN, short : BOOLEAN ]

Bar == [open : Int, high : Int, low : Int, close : Int]

ASSUME WalkForwardAssumption ==
    /\ \A b \in Histories : IsFiniteSet(DOMAIN b) /\ b \in [0..Cardinality(DOMAIN b) - 1 -> Bar]
    /\ Plans \subseteq Plan
    /\ Features \subseteq [lookback : Nat \ {0}, since : Nat, moving : Nat]
    /\ \A f \in Features : f.moving <= f.lookback
    /\ \E f \in Features : \A g \in Features : g.lookback <= f.lookback
    /\ Barrier \in Nat \ {0}
    /\ CalPercent \in 1..99
    /\ Thresholds \in Seq(1..100) \ {<<>>}
    /\ \A p \in Plans : p.directional => \A k \in DOMAIN Thresholds : Thresholds[k] > 50
    /\ Probs \subseteq Probabilities
    /\ Sizes \subseteq Nat \ {0}

VARIABLES
    bars,      \* the timeline, sorted
    plan,      \* the caller's arguments
    pc,        \* "train", "replay", "done" or "failed"
    fold,      \* number of the split at hand
    theta,     \* number of the threshold being replayed
    rows,      \* bars whose labels the fold's model was fitted, calibrated on
    first,     \* first bar of the replay, warm-up included
    at,        \* bar the replay opens next
    pending,   \* order decided at the last close
    fills,     \* fills of this replay
    served     \* bars at whose close the strategy had all it needs

vars == <<bars, plan, pc, fold, theta, rows, first, at, pending, fills,
          served>>

replay == <<at, pending, fills, served>>

----------------------------------------------------------------------------
NThresholds == Len(Thresholds)

NBars == Cardinality(DOMAIN bars)

Greater(a, b) == IF a >= b THEN a ELSE b

\* walk_forward_splits: the k-th split, while its test window fits.
TestStart(p, k) == p.train + k * p.step
TestEnd(p, k) == TestStart(p, k) + p.test
TrainStart(p, k) == IF p.expanding THEN 0 ELSE TestStart(p, k) - p.train

HasSplit(p, k, n) == TestEnd(p, k) <= n

\* purged_embargo_folds: the i-th of k test windows and its training bars.
FoldStart(n, k, i) == i * (n \div k)
FoldEnd(n, k, i) == IF i = k - 1 THEN n ELSE FoldStart(n, k, i) + n \div k

PurgedTrain(n, k, i, purge, embargo) ==
    {j \in 0..n - 1 : \/ j < FoldStart(n, k, i) - purge
                      \/ j >= FoldEnd(n, k, i) + embargo}

----------------------------------------------------------------------------
\* triple_barrier_labels, over the bars up to `last`.
Rises(b, i, k) == b[k].high >= b[i].close + Barrier
Falls(b, i, k) == b[k].low <= b[i].close - Barrier

FirstTouch(b, i, h, last) ==
    {k \in i + 1 .. Lesser(i + h, last) :
        /\ Rises(b, i, k) \/ Falls(b, i, k)
        /\ \A j \in i + 1 .. k - 1 : ~Rises(b, i, j) /\ ~Falls(b, i, j)}

Label(b, i, h, last) ==
    LET touch == FirstTouch(b, i, h, last)
    IN  IF \E k \in touch : Rises(b, i, k) /\ ~Falls(b, i, k) THEN 1
        ELSE IF \E k \in touch : Falls(b, i, k) /\ ~Rises(b, i, k) THEN -1
        ELSE 0

\* Rows labelled from the bars lo..hi-1; a directional run drops the flat ones.
Labelled(b, p, lo, hi) ==
    {i \in lo .. hi - 1 :
        p.directional => Label(b, i, p.horizon, hi - 1) # 0}

Later(S, i) == {j \in S : j > i}

\* Mutant: no row is trimmed.
UntrimmedRows(b, p, lo, hi) == Labelled(b, p, lo, hi)

\* labels[: len(labels) - label_horizon_bars]
TrimmedRows(b, p, lo, hi) ==
    {i \in Labelled(b, p, lo, hi) :
        Cardinality(Later(Labelled(b, p, lo, hi), i)) >= p.horizon}

\* round() of a share, halves to even.
RoundShare(m) ==
    LET q == (m * CalPercent) \div 100
        r == (m * CalPercent) % 100
    IN  IF r > 50 \/ (r = 50 /\ q % 2 = 1) THEN q + 1 ELSE q

CalRows(m) == Greater(1, RoundShare(m))

\* The calibration rows are the last ones.
LastRows(S) == {i \in S : Cardinality(Later(S, i)) < CalRows(Cardinality(S))}

----------------------------------------------------------------------------
\* A funding feature has no value before its first window of settlements.
Recorded(f, i) == i >= f.since

\* VolRegime has no value while its short volatility is zero.
Moving(f, i) ==
    f.moving > 0 => \E j \in i - f.moving + 1 .. i : bars[j].close # bars[i].close

\* Mutant: a value from too few bars.
DefinedEarly(f, s, i) == Recorded(f, i)

\* Feature.compute on the bars s..i: no value with fewer bars than its lookback.
Defined(f, s, i) == Recorded(f, i) /\ i - s + 1 >= f.lookback /\ Moving(f, i)

\* The bars its value is computed from.
Window(f, s, i) == {j \in s..i : j > i - f.lookback}

\* point_in_time_join: the newest materialised value at or before bar i.
Joined(f, i) == {j \in 0..i : Defined(f, 0, j) /\ \A k \in j + 1 .. i : ~Defined(f, 0, k)}

\* The same join in SQL: of the rows available by then, the one ranked first.
Available(f, i) == {j \in 0..i : Defined(f, 0, j)}

RankedFirst(f, i) == {j \in Available(f, i) : \A k \in Available(f, i) : k <= j}

MaxLookback == CHOOSE m \in {f.lookback : f \in Features} :
                  \A f \in Features : f.lookback <= m

\* Mutant: a warm-up that is one bar short.
ShortWarmup(k) == Greater(0, TestStart(plan, k) - MaxLookback + 1)

WarmupStart(k) == Greater(0, TestStart(plan, k) - MaxLookback)

TrainRows(k) == TrimmedRows(bars, plan, TrainStart(plan, k), TestStart(plan, k))

\* Mutant: one threshold too many.
MoreThresholdsInclusive == theta <= NThresholds

MoreThresholds == theta < NThresholds

NoRows == [fit |-> {}, cal |-> {}]
NoOrder == [qty |-> 0, by |-> -1]

Held == Position(fills)

RuleAt(k) == [ directional |-> plan.directional, theta |-> Thresholds[k],
               short |-> plan.short ]

\* A backtest trains nothing: its model, if any, was saved by train.
Trained(p) == p.strategy = "model" /\ p.train > 0

\* _load_source: a backtest replays every bar of its manifest.
TakesAll(p, n) == p.train = 0 => p.test = n /\ p.step = n /\ ~p.directional

\* benchmark_suite, in its order; risk_parity wants a second symbol.
Suite == <<"buy_hold", "ma_cross", "momentum", "random", "model">>

\* q is the plan that follows p in the suite.
NextOfSuite(p, q) == \E i \in 1 .. Len(Suite) - 1 :
    p.strategy = Suite[i] /\ q = [p EXCEPT !.strategy = Suite[i + 1]]

\* The strategy has its features, or the history it asks for, at bar i.
Seen(i) ==
    IF plan.strategy = "model" THEN \A f \in Features : Defined(f, first, i)
    ELSE i - first + 1 >= Needed(plan.strategy)

Asked(n) ==
    IF plan.strategy = "model" THEN {Target(RuleAt(theta), p, n) : p \in Probs}
    ELSE BenchmarkTargets(plan.strategy, bars, first, at, n)

\* Positions it may want at the close of this bar.  Without what it needs it
\* leaves the position alone, and so does a target the risk manager drops.
Wanted == {Held + pending.qty} \cup IF Seen(at) THEN UNION {Asked(n) : n \in Sizes} ELSE {}

----------------------------------------------------------------------------
Init ==
    /\ bars \in Histories
    /\ plan \in Plans
    /\ TakesAll(plan, NBars)
    /\ pc = "train"
    /\ fold = 0
    /\ theta = 1
    /\ rows = NoRows
    /\ first = 0
    /\ at = 0
    /\ pending = NoOrder
    /\ fills = <<>>
    /\ served = {}

BeginReplay(start) ==
    /\ pc' = "replay"
    /\ first' = start
    /\ at' = start
    /\ pending' = NoOrder
    /\ fills' = <<>>
    /\ served' = {}

\* _train_fold: the labels of the training slice, joined, split and fitted.
TrainFold ==
    /\ pc = "train"
    /\ HasSplit(plan, fold, NBars)
    /\ Trained(plan)
    /\ LET kept == TrainRows(fold)
       IN  /\ Cardinality(kept) > CalRows(Cardinality(kept))
           /\ rows' = [fit |-> kept \ LastRows(kept), cal |-> LastRows(kept)]
    /\ theta' = 1
    /\ BeginReplay(WarmupStart(fold))
    /\ UNCHANGED <<bars, plan, fold>>

\* No usable label: the fold is skipped.
SkipFold ==
    /\ pc = "train"
    /\ HasSplit(plan, fold, NBars)
    /\ Trained(plan)
    /\ TrainRows(fold) = {}
    /\ fold' = fold + 1
    /\ UNCHANGED <<bars, plan, pc, theta, rows, first, replay>>

\* train_model raises when calibration leaves no row to fit: the run is lost.
FailFold ==
    /\ pc = "train"
    /\ HasSplit(plan, fold, NBars)
    /\ Trained(plan)
    /\ LET m == Cardinality(TrainRows(fold)) IN m > 0 /\ m <= CalRows(m)
    /\ pc' = "failed"
    /\ UNCHANGED <<bars, plan, fold, theta, rows, first, replay>>

\* run_walk_forward: a strategy that is not trained, without warm-up.
PlainFold ==
    /\ pc = "train"
    /\ HasSplit(plan, fold, NBars)
    /\ plan.strategy # "model"
    /\ plan.train > 0
    /\ rows' = NoRows
    /\ theta' = NThresholds
    /\ BeginReplay(TestStart(plan, fold))
    /\ UNCHANGED <<bars, plan, fold>>

\* backtest run: any strategy, from the first bar to the last, at one threshold.
WholeRun ==
    /\ pc = "train"
    /\ HasSplit(plan, fold, NBars)
    /\ plan.train = 0
    /\ rows' = NoRows
    /\ theta' = NThresholds
    /\ BeginReplay(0)
    /\ UNCHANGED <<bars, plan, fold>>

(***************************************************************************)
(* One turn of run_backtest: the order decided at the last close fills at  *)
(* this open, then the strategy sees the bar closed and its new target     *)
(* leaves an order for the next open.                                      *)
(***************************************************************************)
ReplayBar ==
    /\ pc = "replay"
    /\ at < TestEnd(plan, fold)
    /\ fills' = IF pending.qty = 0 THEN fills
                ELSE Append(fills, [qty |-> pending.qty, by |-> pending.by,
                                    price |-> bars[at].open, at |-> at])
    /\ served' = IF Seen(at) THEN served \cup {at} ELSE served
    /\ \E target \in Wanted :
          LET held == Held + pending.qty
          IN  pending' = IF target = held THEN NoOrder
                         ELSE [qty |-> target - held, by |-> at]
    /\ at' = at + 1
    /\ UNCHANGED <<bars, plan, pc, fold, theta, rows, first>>

\* The replay is scored; the next threshold replays the same trained fold.
EndReplay ==
    /\ pc = "replay"
    /\ at = TestEnd(plan, fold)
    /\ IF MoreThresholds
       THEN BeginReplay(first) /\ theta' = theta + 1 /\ UNCHANGED fold
       ELSE /\ fold' = fold + 1
            /\ pc' = "train"
            /\ fills' = <<>> /\ served' = {} /\ pending' = NoOrder
            /\ UNCHANGED <<theta, first, at>>
    /\ UNCHANGED <<bars, plan, rows>>

Finish ==
    /\ pc = "train"
    /\ ~HasSplit(plan, fold, NBars)
    /\ pc' = "done"
    /\ UNCHANGED <<bars, plan, fold, theta, rows, first, replay>>

\* backtest benchmark-suite: the next strategy gets a source and a book of its
\* own, over the same bars.
NextStrategy ==
    /\ pc = "done"
    /\ plan.train = 0
    /\ \E p \in Plans : NextOfSuite(plan, p) /\ plan' = p
    /\ fold' = 0
    /\ pc' = "train"
    /\ UNCHANGED <<bars, theta, rows, first, replay>>

Next ==
    \/ TrainFold
    \/ SkipFold
    \/ FailFold
    \/ PlainFold
    \/ WholeRun
    \/ ReplayBar
    \/ EndReplay
    \/ Finish
    \/ NextStrategy

Spec == Init /\ [][Next]_vars

----------------------------------------------------------------------------
Bars == DOMAIN bars

TypeOK ==
    /\ bars \in [0..NBars - 1 -> Bar]
    /\ plan \in Plan
    /\ pc \in {"train", "replay", "done", "failed"}
    /\ fold \in Nat
    /\ theta \in 1..NThresholds
    /\ rows \in [fit : SUBSET Bars, cal : SUBSET Bars]
    /\ first \in Nat
    /\ at \in Nat
    /\ pending \in [qty : Int, by : Bars \cup {-1}]
    /\ fills \in Seq([qty : Int \ {0}, by : Bars, price : Int, at : Bars])
    /\ served \subseteq Bars

Rows == rows.fit \cup rows.cal

\* score_holdout: the rows the model is scored on, from the test window.
HoldoutRows(k) == TrimmedRows(bars, plan, TestStart(plan, k), TestEnd(plan, k))

(***************************************************************************)
(* Whatever a model was fitted or calibrated on was over when its test     *)
(* window began: the bars of a row's features and the bars its label looks *)
(* at, although the labels are cut off by their number in a list that, in  *)
(* a directional run, skips rows.  The calibration rows come last.         *)
(***************************************************************************)
TrainedOnThePast ==
    \A i \in Rows :
        /\ TrainStart(plan, fold) <= i
        /\ i + plan.horizon < TestStart(plan, fold)
        /\ \A f \in Features : \A j \in Joined(f, i) : Window(f, 0, j) \subseteq 0..i
        /\ i \in rows.fit => \A j \in rows.cal : i < j

(***************************************************************************)
(* A label computed on a slice of the timeline is the one the whole        *)
(* timeline gives: no row that is trained or scored on was cut short.      *)
(***************************************************************************)
LabelsFinal ==
    LET h == plan.horizon
    IN  /\ \A i \in Rows : Label(bars, i, h, TestStart(plan, fold) - 1)
                             = Label(bars, i, h, NBars - 1)
        /\ plan.strategy = "model" => \A i \in HoldoutRows(fold) :
              Label(bars, i, h, TestEnd(plan, fold) - 1) = Label(bars, i, h, NBars - 1)

HonestTraining == pc = "replay" => TrainedOnThePast /\ LabelsFinal

(***************************************************************************)
(* A replay trades in its test window only, though it starts before it to  *)
(* warm up: each fill is at the open that follows the close it was decided *)
(* at, and that close is none the model was trained on.                    *)
(***************************************************************************)
FilledInTest ==
    pc = "replay" => \A i \in DOMAIN fills :
        /\ fills[i].at \in TestStart(plan, fold) .. TestEnd(plan, fold) - 1
        /\ fills[i].at = fills[i].by + 1
        /\ fills[i].by \notin Rows

(***************************************************************************)
(* The strategy sees in the replay what the model was trained on: wherever *)
(* it decides, each feature is computed from the bars it was materialised  *)
(* from, and either join would return that very value.  The warm-up is     *)
(* long enough for the first fill of the test window to be decided.        *)
(***************************************************************************)
ServedAsTrained ==
    pc = "replay" /\ plan.strategy = "model" =>
        /\ \A i \in served, f \in Features :
              /\ Window(f, first, i) = Window(f, 0, i)
              /\ Joined(f, i) = {i} /\ RankedFirst(f, i) = {i}
        /\ \A i \in TestStart(plan, fold) - 1 .. at - 1 :
              (\A f \in Features : Defined(f, 0, i)) => i \in served

(***************************************************************************)
(* The paper engine journals the direction it trades in, with the binary   *)
(* and with the three-class model, short or not; and a higher threshold    *)
(* only removes trades: where it wants a position, so do the lower ones,   *)
(* and the same.                                                           *)
(***************************************************************************)
DecisionsAgree ==
    pc = "train" => \A p \in Probs, size \in Sizes, k \in DOMAIN Thresholds :
        LET d == Decide(RuleAt(k), p, size)
        IN  /\ d.direction = "long" <=> d.target > 0
            /\ d.direction = "short" <=> d.target < 0
            /\ \A j \in DOMAIN Thresholds :
                  (Thresholds[j] <= Thresholds[k] /\ d.target # 0)
                     => Target(RuleAt(j), p, size) = d.target

(***************************************************************************)
(* Scoring: when the book is flat, the round trips account for all the     *)
(* cash it gained or lost, fees included, unless some fill closed a part   *)
(* of a position.                                                          *)
(***************************************************************************)
WholeTradesMatchCash ==
    Held = 0 /\ ~HasPartialClose(fills) => TotalPnl(TradesOf(fills)) = CashOf(fills)

(***************************************************************************)
(* The same, whatever the fills: what trade_metrics.py says of itself.     *)
(***************************************************************************)
TradesMatchCash == Held = 0 => TotalPnl(TradesOf(fills)) = CashOf(fills)

(***************************************************************************)
(* The lots hit_rate leaves open are the position, all on one side.        *)
(***************************************************************************)
LotsMatchPosition ==
    LET lots == LotsOf(fills).lots
    IN  /\ HeldIn(lots) = Held
        /\ \A j \in DOMAIN lots : Sign(lots[j].qty) = Sign(Held)

============================================================================
