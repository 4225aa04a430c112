------------------------- MODULE WalkForward_proofs -------------------------
(***************************************************************************)
(* Proofs about WalkForward: what a model is trained on has ended before   *)
(* its test window, and its replay trades in that window only, for every   *)
(* history, plan and set of features.                                      *)
(*                                                                         *)
(* Two facts carry them.  A row with h labelled rows after it, in whatever *)
(* subset of the bars, is at least h bars old (TrimmedEnd); and a warm-up  *)
(* of the longest lookback has the strategy decide from the bar before the *)
(* test window on, and never earlier (ServedFrom).                         *)
(*                                                                         *)
(* The last part is about the scores of a replay (TradeMetrics): what its  *)
(* round trips and its open lots say of the book.                          *)
(***************************************************************************)
EXTENDS WalkForward, SumTheorems

LEMMA PlanFacts ==
    ASSUME NEW p \in Plan
    PROVE  /\ p.expanding \in BOOLEAN
           /\ p.directional \in BOOLEAN
           /\ p.train \in Nat /\ p.test \in Nat \ {0}
           /\ p.step \in Nat \ {0} /\ p.horizon \in Nat \ {0}
BY DEF Plan

(***************************************************************************)
(* walk_forward_splits: a training window ends where its test window       *)
(* begins, holds train_bars bars or more, and the windows of a later split *)
(* come later; test windows are disjoint when they are not longer than the *)
(* step.                                                                   *)
(***************************************************************************)
THEOREM SplitsInOrder ==
    ASSUME NEW p \in Plan, NEW k \in Nat, NEW l \in Nat, k < l, NEW n \in Nat,
           HasSplit(p, l, n)
    PROVE  /\ 0 <= TrainStart(p, k) /\ TrainStart(p, k) + p.train <= TestStart(p, k)
           /\ TestStart(p, k) < TestEnd(p, k) /\ TestEnd(p, k) <= n
           /\ TestStart(p, k) < TestStart(p, l)
           /\ p.test <= p.step => TestEnd(p, k) <= TestStart(p, l)
<1>. DEFINE a == k * p.step
            b == l * p.step
<1>1. /\ p.train \in Nat /\ p.test \in Nat \ {0} /\ p.step \in Nat \ {0}
  BY PlanFacts
<1>2. a \in Nat /\ b \in Nat /\ a + p.step <= b
  <2>1. PICK d \in Nat : l = k + 1 + d
    <3>1. l - k - 1 \in Nat /\ l = k + 1 + (l - k - 1)
      OBVIOUS
    <3>. QED  BY <3>1
  <2>2. \A s \in Nat : (k + 1 + d) * s = k * s + s + d * s /\ d * s \in Nat /\ k * s \in Nat
    BY <2>1
  <2>. QED  BY <1>1, <2>1, <2>2
<1>3. TestStart(p, k) = p.train + a /\ TestStart(p, l) = p.train + b
  BY DEF TestStart
<1>4. TestEnd(p, k) = TestStart(p, k) + p.test /\ TestEnd(p, l) = TestStart(p, l) + p.test
  BY DEF TestEnd
<1>5. TrainStart(p, k) = 0 \/ TrainStart(p, k) = TestStart(p, k) - p.train
  BY DEF TrainStart
<1>6. TestEnd(p, l) <= n
  BY DEF HasSplit
<1>. HIDE DEF a, b
<1>. QED  BY <1>1, <1>2, <1>3, <1>4, <1>5, <1>6

(***************************************************************************)
(* purged_embargo_folds: no training bar is within the purge before the    *)
(* test window or the embargo after it, and none is in it.                 *)
(***************************************************************************)
THEOREM PurgedFoldsApart ==
    ASSUME NEW n \in Nat, NEW k \in Nat \ {0}, NEW i \in 0..k - 1,
           NEW purge \in Nat, NEW embargo \in Nat,
           NEW j \in PurgedTrain(n, k, i, purge, embargo)
    PROVE  \A t \in FoldStart(n, k, i) .. FoldEnd(n, k, i) - 1 :
              j + purge < t \/ t + embargo < j
<1>1. n \div k \in Nat
  BY Z3
<1>2. FoldStart(n, k, i) \in Nat /\ FoldEnd(n, k, i) \in Nat
  <2>1. i * (n \div k) \in Nat
    BY <1>1
  <2>. QED  BY <1>1, <2>1 DEF FoldStart, FoldEnd
<1>. QED  BY <1>2 DEF PurgedTrain

-----------------------------------------------------------------------------
\* Rows have as many bars after them as later rows.
LEMMA LaterBounded ==
    ASSUME NEW lo \in Int, NEW hi \in Int, NEW S, S \subseteq lo .. hi - 1, NEW i \in S
    PROVE  /\ IsFiniteSet(S) /\ IsFiniteSet(Later(S, i))
           /\ Cardinality(Later(S, i)) \in Nat
           /\ i + Cardinality(Later(S, i)) < hi
<1>1. i \in Int /\ i < hi
  OBVIOUS
<1>2. /\ IsFiniteSet(i + 1 .. hi - 1)
      /\ Cardinality(i + 1 .. hi - 1) = IF i + 1 > hi - 1 THEN 0 ELSE hi - 1 - (i + 1) + 1
  BY <1>1, FS_Interval
<1>3. IsFiniteSet(lo .. hi - 1)
  BY FS_Interval
<1>4. Later(S, i) \subseteq i + 1 .. hi - 1
  <2>. SUFFICES ASSUME NEW x \in Later(S, i) PROVE x \in i + 1 .. hi - 1
    OBVIOUS
  <2>1. x \in lo .. hi - 1 /\ x > i
    BY DEF Later
  <2>. QED  BY <1>1, <2>1
<1>5. /\ IsFiniteSet(Later(S, i))
      /\ Cardinality(Later(S, i)) <= Cardinality(i + 1 .. hi - 1)
  BY <1>2, <1>4, FS_Subset
<1>6. IsFiniteSet(S)
  BY <1>3, FS_Subset
<1>7. Cardinality(Later(S, i)) \in Nat
  BY <1>5, FS_CardinalityType
<1>. QED  BY <1>1, <1>2, <1>5, <1>6, <1>7

(***************************************************************************)
(* labels[: len(labels) - horizon]: the bars a kept row's label looks at   *)
(* all come before the end of the slice, however many bars of the slice    *)
(* have no row of their own.                                               *)
(***************************************************************************)
THEOREM TrimmedEnd ==
    ASSUME NEW b, NEW p \in Plan, NEW lo \in Nat, NEW hi \in Nat,
           NEW i \in TrimmedRows(b, p, lo, hi)
    PROVE  i \in Nat /\ lo <= i /\ i + p.horizon < hi
<1>. DEFINE S == Labelled(b, p, lo, hi)
<1>1. S \subseteq lo .. hi - 1
  BY DEF Labelled
<1>2. i \in S /\ Cardinality(Later(S, i)) >= p.horizon
  BY DEF TrimmedRows
<1>3. /\ Cardinality(Later(S, i)) \in Nat
      /\ i + Cardinality(Later(S, i)) < hi
  BY <1>1, <1>2, LaterBounded
<1>4. i \in lo .. hi - 1
  BY <1>1, <1>2
<1>5. p.horizon \in Nat
  BY PlanFacts
<1>. HIDE DEF S
<1>. QED  BY <1>2, <1>3, <1>4, <1>5

\* The rows the calibrator is fitted on follow those the model is fitted on.
LEMMA LastRowsLast ==
    ASSUME NEW lo \in Int, NEW hi \in Int, NEW S, S \subseteq lo .. hi - 1,
           NEW i \in S \ LastRows(S), NEW j \in LastRows(S)
    PROVE  i < j
<1>. DEFINE m == CalRows(Cardinality(S))
<1>1. j \in S /\ Cardinality(Later(S, j)) < m /\ ~(Cardinality(Later(S, i)) < m)
  BY DEF LastRows
<1>2. i \in Int /\ j \in Int
  BY <1>1
<1>3. SUFFICES ASSUME j <= i PROVE FALSE
  BY <1>2
<1>4. Later(S, i) \subseteq Later(S, j)
  <2>. SUFFICES ASSUME NEW x \in Later(S, i) PROVE x \in Later(S, j)
    OBVIOUS
  <2>1. x \in S /\ x \in lo .. hi - 1 /\ x > i
    BY DEF Later
  <2>2. x \in Int /\ x > j
    BY <1>2, <1>3, <2>1
  <2>. QED  BY <2>1, <2>2 DEF Later
<1>5. IsFiniteSet(Later(S, j)) /\ Cardinality(Later(S, j)) \in Nat
  BY <1>1, LaterBounded
<1>6. Cardinality(Later(S, i)) <= Cardinality(Later(S, j))
  BY <1>4, <1>5, FS_Subset
<1>7. Cardinality(Later(S, i)) \in Nat
  BY LaterBounded
<1>8. S \subseteq lo .. hi - 1 /\ IsFiniteSet(S)
  BY <1>1, LaterBounded
<1>9. m \in Int
  <2>1. Cardinality(S) \in Nat
    BY <1>8, FS_CardinalityType
  <2>. QED  BY <2>1, WalkForwardAssumption DEF CalRows, RoundShare, Greater
<1>. HIDE DEF m
<1>. QED  BY <1>1, <1>5, <1>6, <1>7, <1>9

(***************************************************************************)
(* A label whose horizon ends within a slice is the same on the slice as   *)
(* on any longer one.                                                      *)
(***************************************************************************)
THEOREM LabelSettled ==
    ASSUME NEW b, NEW i \in Nat, NEW h \in Nat, NEW m \in Int, NEW n \in Int,
           i + h <= m, m <= n
    PROVE  Label(b, i, h, m) = Label(b, i, h, n)
<1>1. Lesser(i + h, m) = i + h /\ Lesser(i + h, n) = i + h
  BY DEF Lesser
<1>2. FirstTouch(b, i, h, m) = FirstTouch(b, i, h, n)
  BY <1>1 DEF FirstTouch
<1>. QED  BY <1>2 DEF Label

-----------------------------------------------------------------------------
\* The longest lookback is that of a feature.
LEMMA MaxLookbackFacts ==
    /\ MaxLookback \in Nat \ {0}
    /\ \A f \in Features : /\ f.lookback \in Nat \ {0} /\ f.since \in Nat
                           /\ f.lookback <= MaxLookback
    /\ \E f \in Features : f.lookback = MaxLookback
<1>1. \A f \in Features : f.lookback \in Nat \ {0} /\ f.since \in Nat
  BY WalkForwardAssumption
<1>2. PICK g \in Features : \A f \in Features : f.lookback <= g.lookback
  BY WalkForwardAssumption
<1>. DEFINE L == {f.lookback : f \in Features}
<1>3. g.lookback \in L /\ \A f \in Features : f.lookback <= g.lookback
  BY <1>2
<1>4. MaxLookback \in L /\ \A f \in Features : f.lookback <= MaxLookback
  BY <1>3 DEF MaxLookback
<1>5. PICK e \in Features : MaxLookback = e.lookback
  BY <1>4
<1>. QED  BY <1>1, <1>4, <1>5

\* A history has a number of bars.
LEMMA HistoryFacts ==
    ASSUME NEW b \in Histories
    PROVE  Cardinality(DOMAIN b) \in Nat
BY WalkForwardAssumption, FS_CardinalityType

\* The bars of a split are numbers.
LEMMA SplitFacts ==
    ASSUME NEW p \in Plan, NEW k \in Nat
    PROVE  /\ TestStart(p, k) \in Nat /\ TestEnd(p, k) \in Nat
           /\ p.train > 0 => TestStart(p, k) > 0
           /\ TestStart(p, k) < TestEnd(p, k)
           /\ TrainStart(p, k) \in Nat
<1>1. /\ p.train \in Nat /\ p.test \in Nat \ {0} /\ p.step \in Nat \ {0}
  BY PlanFacts
<1>. DEFINE a == k * p.step
<1>2. a \in Nat
  BY <1>1
<1>3. TestStart(p, k) = p.train + a
  BY DEF TestStart
<1>4. TestEnd(p, k) = TestStart(p, k) + p.test
  BY DEF TestEnd
<1>5. TrainStart(p, k) = 0 \/ TrainStart(p, k) = TestStart(p, k) - p.train
  BY DEF TrainStart
<1>. HIDE DEF a
<1>. QED  BY <1>1, <1>2, <1>3, <1>4, <1>5

\* A backtest of all the bars has one split, and it begins at the first bar.
LEMMA WholeSplit ==
    ASSUME NEW p \in Plan, NEW k \in Nat, NEW n \in Nat, TakesAll(p, n),
           p.train = 0, HasSplit(p, k, n)
    PROVE  k = 0 /\ TestStart(p, k) = 0
<1>1. p.test = n /\ p.step = n /\ n \in Nat \ {0}
  BY PlanFacts DEF TakesAll
<1>2. k * n + n <= n
  <2>1. TestEnd(p, k) = k * n + n
    <3>1. k * n \in Nat
      BY <1>1
    <3>. QED  BY <1>1, <3>1 DEF TestEnd, TestStart
  <2>. QED  BY <2>1 DEF HasSplit
<1>3. k = 0
  <2>1. \A a \in Nat \ {0}, b \in Nat \ {0} : a * b \in Nat \ {0}
    BY Z3
  <2>. QED  BY <1>1, <1>2, <2>1
<1>. QED  BY <1>1, <1>3 DEF TestStart

\* A warm-up starts before the test window, by the longest lookback or at 0.
LEMMA WarmupFacts ==
    ASSUME plan \in Plan, fold \in Nat, plan.train > 0
    PROVE  /\ WarmupStart(fold) \in Nat
           /\ WarmupStart(fold) < TestStart(plan, fold)
           /\ WarmupStart(fold) >= TestStart(plan, fold) - MaxLookback
           /\ WarmupStart(fold) = 0 \/ WarmupStart(fold) = TestStart(plan, fold) - MaxLookback
<1>1. MaxLookback \in Nat \ {0}
  BY MaxLookbackFacts
<1>2. TestStart(plan, fold) \in Nat \ {0}
  <2>1. TestStart(plan, fold) \in Nat /\ TestStart(plan, fold) > 0
    BY SplitFacts
  <2>. QED  BY <2>1
<1>3. WarmupStart(fold) = Greater(0, TestStart(plan, fold) - MaxLookback)
  BY DEF WarmupStart
<1>. QED  BY <1>1, <1>2, <1>3 DEF Greater

-----------------------------------------------------------------------------
(***************************************************************************)
(* The inductive invariant: what TrainFold, PlainFold or WholeRun left for *)
(* the replay, and where each order and fill comes from.                   *)
(***************************************************************************)
Given == bars \in Histories /\ plan \in Plans /\ fold \in Nat /\ TakesAll(plan, NBars)

KeptRows == TrainRows(fold)

Prepared ==
    /\ HasSplit(plan, fold, NBars)
    /\ Trained(plan) => /\ first = WarmupStart(fold)
                        /\ rows = [fit |-> KeptRows \ LastRows(KeptRows), cal |-> LastRows(KeptRows)]
    /\ ~Trained(plan) => first = TestStart(plan, fold) /\ rows = NoRows

Reached == first \in Nat /\ at \in Nat /\ first <= at /\ at <= TestEnd(plan, fold)

ServedBars == served = {i \in first .. at - 1 : Seen(i)}

Ordered == pending = NoOrder \/ (pending.by \in served /\ pending.by = at - 1)

Filled ==
    /\ \E S : fills \in Seq(S)
    /\ \A i \in DOMAIN fills : /\ fills[i].by \in served
                               /\ fills[i].at = fills[i].by + 1
                               /\ fills[i].at < TestEnd(plan, fold)

Replaying == Prepared /\ Reached /\ ServedBars /\ Ordered /\ Filled

IInv == Given /\ TypeOK /\ (pc = "replay" => Replaying)

LEMMA GivenFacts ==
    ASSUME Given
    PROVE  plan \in Plan /\ fold \in Nat /\ NBars \in Nat /\ plan.train \in Nat
<1>1. plan \in Plan /\ fold \in Nat /\ NBars \in Nat
  BY WalkForwardAssumption, HistoryFacts DEF Given, NBars
<1>. QED  BY <1>1, PlanFacts

\* What every replay begins with.
LEMMA BegunReplay ==
    ASSUME NEW start \in Nat, BeginReplay(start)
    PROVE  /\ first' = start /\ at' = start
           /\ ServedBars' /\ Ordered' /\ Filled'
<1>1. /\ first' = start /\ at' = start /\ pending' = NoOrder
      /\ fills' = <<>> /\ served' = {}
  BY DEF BeginReplay
<1>2. ServedBars'
  <2>1. first' .. at' - 1 = {}
    BY <1>1
  <2>. QED  BY <1>1, <2>1 DEF ServedBars
<1>3. Ordered'
  BY <1>1 DEF Ordered
<1>4. fills' \in Seq({}) /\ DOMAIN fills' = {}
  BY <1>1
<1>5. Filled'
  BY <1>4 DEF Filled
<1>. QED  BY <1>1, <1>2, <1>3, <1>5

\* One more fill.
LEMMA AppendFacts ==
    ASSUME NEW S, NEW s \in Seq(S), NEW e
    PROVE  /\ Append(s, e) \in Seq(S \cup {e})
           /\ DOMAIN s = 1..Len(s) /\ Len(s) \in Nat
           /\ DOMAIN Append(s, e) = 1 .. Len(s) + 1
           /\ \A i \in 1..Len(s) : Append(s, e)[i] = s[i]
           /\ Append(s, e)[Len(s) + 1] = e
<1>1. s \in Seq(S \cup {e}) /\ e \in S \cup {e}
  OBVIOUS
<1>. QED  BY <1>1

\* What the strategy has at a bar depends on the bars and the replay's start.
LEMMA SeenKept ==
    ASSUME UNCHANGED <<bars, plan, first>>
    PROVE  \A i : Seen(i)' = Seen(i)
<1>1. bars' = bars /\ plan' = plan /\ first' = first
  OBVIOUS
<1>2. \A f, i : Moving(f, i)' = Moving(f, i)
  BY <1>1 DEF Moving
<1>3. \A f, i : Defined(f, first, i)' = Defined(f, first, i)
  BY <1>1, <1>2 DEF Defined, Recorded
<1>. QED  BY <1>1, <1>3 DEF Seen

\* What the caller gave stays so: the next plan of a suite is of the same bars.
LEMMA GivenKept ==
    ASSUME Given, bars' = bars, fold' \in Nat,
           plan' = plan \/ (plan' \in Plans /\ NextOfSuite(plan, plan'))
    PROVE  Given' /\ NBars' = NBars
<1>1. NBars' = NBars
  BY DEF NBars
<1>2. CASE plan' = plan
  BY <1>1, <1>2 DEF Given
<1>3. CASE plan' \in Plans /\ NextOfSuite(plan, plan')
  <2>1. PICK i \in 1 .. Len(Suite) - 1 : plan' = [plan EXCEPT !.strategy = Suite[i + 1]]
    BY <1>3 DEF NextOfSuite
  <2>2. plan \in Plan
    BY GivenFacts
  <2>3. plan'.train = plan.train /\ plan'.test = plan.test /\ plan'.step = plan.step
        /\ plan'.directional = plan.directional
    BY <2>1, <2>2 DEF Plan
  <2>4. TakesAll(plan, NBars) => TakesAll(plan', NBars)
    BY <2>3, Zenon DEF TakesAll
  <2>. QED  BY <1>1, <1>3, <2>4 DEF Given
<1>. QED  BY <1>2, <1>3

\* What a replay is prepared with does not change while it runs.
LEMMA PreparedKept ==
    ASSUME Given, Prepared, UNCHANGED <<bars, plan, fold, rows, first>>
    PROVE  Prepared'
<1>1. NBars' = NBars /\ KeptRows' = KeptRows /\ WarmupStart(fold)' = WarmupStart(fold)
  BY DEF NBars, KeptRows, TrainRows, WarmupStart
<1>. QED  BY <1>1 DEF Prepared

(***************************************************************************)
(* Types.  An order is a target, which is a size, its opposite or nothing, *)
(* less a position, which is a sum of fills.                               *)
(***************************************************************************)
FillType == [qty : Int \ {0}, by : Bars, price : Int, at : Bars]

OrderType == [qty : Int, by : Bars \cup {-1}]

RowsType == [fit : SUBSET Bars, cal : SUBSET Bars]

\* The bars of a history are numbered from 0.
LEMMA BarsFacts ==
    ASSUME Given
    PROVE  Bars = 0..NBars - 1 /\ bars \in [0..NBars - 1 -> Bar]
BY WalkForwardAssumption DEF Given, NBars, Bars

\* The position that fills of a whole quantity leave is whole.
LEMMA PositionType ==
    ASSUME NEW F, \A f \in F : f.qty \in Int, NEW s \in Seq(F)
    PROVE  Position(s) \in Int
<1>. DEFINE q == [i \in DOMAIN s |-> s[i].qty]
<1>1. DOMAIN s = 1..Len(s) /\ Len(s) \in Nat /\ \A i \in DOMAIN s : s[i] \in F
  OBVIOUS
<1>2. IsFiniteSet(DOMAIN s)
  BY <1>1, FS_Interval
<1>3. \A i \in DOMAIN s : q[i] \in Int
  BY <1>1
<1>4. Position(s) = SumFunctionOnSet(q, DOMAIN s)
  BY Zenon DEF Position, SumFunction
<1>. HIDE DEF q
<1>. QED  BY <1>2, <1>3, <1>4, SumType

LEMMA TargetType ==
    ASSUME NEW r, NEW p, NEW size
    PROVE  Target(r, p, size) \in {size, -size, 0}
<1>1. BinaryTarget(r, p, size) \in {size, -size, 0}
  BY DEF BinaryTarget
<1>2. ThreeClassTarget(r, p, size) \in {size, -size, 0}
  BY DEF ThreeClassTarget
<1>. QED  BY <1>1, <1>2 DEF Target

LEMMA BenchmarkType ==
    ASSUME NEW name \in Benchmarks, NEW b, NEW f, NEW i, NEW size
    PROVE  BenchmarkTargets(name, b, f, i, size) \subseteq {0, size}
<1>1. name = "buy_hold" => BenchmarkTargets(name, b, f, i, size) \subseteq {0, size}
  BY DEF BenchmarkTargets
<1>2. name = "ma_cross" => BenchmarkTargets(name, b, f, i, size) \subseteq {0, size}
  BY DEF BenchmarkTargets
<1>3. name = "momentum" => BenchmarkTargets(name, b, f, i, size) \subseteq {0, size}
  BY DEF BenchmarkTargets
<1>4. name = "random" => BenchmarkTargets(name, b, f, i, size) \subseteq {0, size}
  BY DEF BenchmarkTargets
<1>. QED  BY <1>1, <1>2, <1>3, <1>4 DEF Benchmarks

LEMMA WantedType ==
    ASSUME Given, TypeOK, NEW target \in Wanted
    PROVE  Held + pending.qty \in Int /\ target \in Int
<1>1. Held \in Int
  <2>1. \A f \in FillType : f.qty \in Int
    BY DEF FillType
  <2>2. fills \in Seq(FillType)
    BY DEF TypeOK, FillType
  <2>. QED  BY <2>1, <2>2, PositionType DEF Held
<1>2. pending.qty \in Int
  BY DEF TypeOK
<1>3. ASSUME NEW n \in Sizes, NEW t \in Asked(n) PROVE t \in Int
  <2>1. n \in Int /\ -n \in Int /\ 0 \in Int
    BY WalkForwardAssumption
  <2>2. CASE plan.strategy = "model"
    <3>1. PICK p \in Probs : t = Target(RuleAt(theta), p, n)
      BY <2>2 DEF Asked
    <3>. QED  BY <2>1, <3>1, TargetType
  <2>3. CASE plan.strategy # "model"
    <3>1. t \in BenchmarkTargets(plan.strategy, bars, first, at, n)
      BY <2>3 DEF Asked
    <3>2. plan \in Plan
      BY GivenFacts
    <3>3. plan.strategy \in Benchmarks
      BY <2>3, <3>2 DEF Plan
    <3>. QED  BY <2>1, <3>1, <3>3, BenchmarkType
  <2>. QED  BY <2>2, <2>3
<1>4. target = Held + pending.qty \/ \E n \in Sizes : target \in Asked(n)
  BY DEF Wanted
<1>. QED  BY <1>1, <1>2, <1>3, <1>4

LEMMA InitType ==
    ASSUME Init
    PROVE  TypeOK
<1>1. bars \in Histories /\ plan \in Plans /\ fold = 0
      /\ TakesAll(plan, NBars)
  BY DEF Init
<1>2. Given
  BY <1>1 DEF Given
<1>3. bars \in [0..NBars - 1 -> Bar] /\ plan \in Plan
  BY <1>2, BarsFacts, GivenFacts
<1>4. theta \in 1..NThresholds
  BY WalkForwardAssumption DEF Init, NThresholds
<1>5. rows \in RowsType /\ pending \in OrderType /\ fills \in Seq(FillType) /\ served \subseteq Bars
  BY DEF Init, NoRows, NoOrder, RowsType, OrderType
<1>6. pc \in {"train", "replay", "done", "failed"} /\ fold \in Nat /\ first \in Nat /\ at \in Nat
  BY DEF Init
<1>. QED  BY <1>3, <1>4, <1>5, <1>6 DEF TypeOK, RowsType, OrderType, FillType

\* The variables a step may change, apart from those Given speaks of.
StepTyped ==
    /\ pc \in {"train", "replay", "done", "failed"}
    /\ theta \in 1..NThresholds
    /\ rows \in RowsType
    /\ first \in Nat
    /\ at \in Nat
    /\ pending \in OrderType
    /\ fills \in Seq(FillType)
    /\ served \subseteq Bars

LEMMA TypeParts == Given => (TypeOK <=> StepTyped)
<1>. SUFFICES ASSUME Given PROVE TypeOK <=> StepTyped
  OBVIOUS
<1>1. bars \in [0..NBars - 1 -> Bar] /\ plan \in Plan /\ fold \in Nat
  BY BarsFacts, GivenFacts
<1>. QED  BY <1>1, Zenon DEF TypeOK, StepTyped, RowsType, OrderType, FillType

\* A replay begins with no order and no fill.
LEMMA BegunTyped ==
    ASSUME NEW start \in Nat, BeginReplay(start), StepTyped,
           rows' \in RowsType, theta' \in 1..NThresholds, bars' = bars
    PROVE  StepTyped'
<1>1. /\ pc' = "replay" /\ first' = start /\ at' = start /\ pending' = NoOrder
      /\ fills' = <<>> /\ served' = {}
  BY DEF BeginReplay
<1>2. RowsType' = RowsType /\ OrderType' = OrderType /\ FillType' = FillType /\ Bars' = Bars
  BY Zenon DEF RowsType, OrderType, FillType, Bars
<1>3. NoOrder \in OrderType /\ <<>> \in Seq(FillType)
  BY DEF NoOrder, OrderType
<1>. QED  BY <1>1, <1>2, <1>3 DEF StepTyped

LEMMA StepType ==
    ASSUME Given, TypeOK, (pc = "replay" => Replaying), [Next]_vars
    PROVE  TypeOK'
<1>0. /\ StepTyped /\ plan \in Plan /\ fold \in Nat /\ NBars \in Nat
      /\ plan.train \in Nat /\ Bars = 0..NBars - 1 /\ bars \in [0..NBars - 1 -> Bar]
  BY TypeParts, GivenFacts, BarsFacts
<1>1. /\ TestStart(plan, fold) \in Nat /\ TestEnd(plan, fold) \in Nat
      /\ TestStart(plan, fold) < TestEnd(plan, fold) /\ TrainStart(plan, fold) \in Nat
  BY <1>0, SplitFacts
<1>2. bars' = bars => RowsType' = RowsType /\ OrderType' = OrderType
                      /\ FillType' = FillType /\ Bars' = Bars
  BY Zenon DEF RowsType, OrderType, FillType, Bars
<1>3. NThresholds \in Nat \ {0}
  BY WalkForwardAssumption DEF NThresholds
<1>4. NoRows \in RowsType /\ NoOrder \in OrderType
  BY DEF NoRows, RowsType, NoOrder, OrderType
<1>5. SUFFICES Given' /\ StepTyped'
  <2>1. Given' => (TypeOK' <=> StepTyped')
    BY TypeParts, PTL
  <2>. QED  BY <2>1
<1>6. CASE TrainFold
  <2>1. /\ HasSplit(plan, fold, NBars) /\ plan.train > 0
        /\ rows' = [fit |-> KeptRows \ LastRows(KeptRows), cal |-> LastRows(KeptRows)]
        /\ BeginReplay(WarmupStart(fold)) /\ theta' = 1
        /\ bars' = bars /\ plan' = plan /\ fold' = fold
    BY <1>6 DEF TrainFold, KeptRows, Trained
  <2>2. KeptRows \subseteq Bars
    <3>1. KeptRows \subseteq TrainStart(plan, fold) .. TestStart(plan, fold) - 1
      BY DEF KeptRows, TrainRows, TrimmedRows, Labelled
    <3>2. TestEnd(plan, fold) <= NBars
      BY <2>1 DEF HasSplit
    <3>. QED  BY <1>0, <1>1, <3>1, <3>2
  <2>3. rows' \in RowsType
    BY <2>1, <2>2 DEF RowsType, LastRows
  <2>4. WarmupStart(fold) \in Nat
    BY <1>0, <2>1, WarmupFacts
  <2>5. theta' \in 1..NThresholds
    BY <1>3, <2>1
  <2>. QED  BY <1>0, <2>1, <2>3, <2>4, <2>5, BegunTyped, GivenKept
<1>7. CASE SkipFold
  <2>1. UNCHANGED <<bars, plan, pc, theta, rows, first, at, pending, fills, served>>
        /\ fold' = fold + 1
    BY <1>7 DEF SkipFold, replay
  <2>. QED  BY <1>0, <1>2, <2>1, GivenKept DEF StepTyped
<1>8. CASE FailFold
  <2>1. UNCHANGED <<bars, plan, fold, theta, rows, first, at, pending, fills, served>>
        /\ pc' = "failed"
    BY <1>8 DEF FailFold, replay
  <2>. QED  BY <1>0, <1>2, <2>1, GivenKept DEF StepTyped
<1>9. CASE PlainFold
  <2>1. rows' = NoRows /\ theta' = NThresholds /\ BeginReplay(TestStart(plan, fold))
        /\ UNCHANGED <<bars, plan, fold>>
    BY <1>9 DEF PlainFold
  <2>2. theta' \in 1..NThresholds
    BY <1>3, <2>1
  <2>. QED  BY <1>0, <1>1, <1>4, <2>1, <2>2, BegunTyped, GivenKept
<1>10. CASE WholeRun
  <2>1. rows' = NoRows /\ theta' = NThresholds /\ BeginReplay(0)
        /\ UNCHANGED <<bars, plan, fold>>
    BY <1>10 DEF WholeRun
  <2>2. theta' \in 1..NThresholds /\ 0 \in Nat
    BY <1>3, <2>1
  <2>. QED  BY <1>0, <1>4, <2>1, <2>2, BegunTyped, GivenKept
<1>11. CASE ReplayBar
  <2>. DEFINE fill == [qty |-> pending.qty, by |-> pending.by,
                       price |-> bars[at].open, at |-> at]
  <2>1. /\ pc = "replay" /\ at < TestEnd(plan, fold)
        /\ fills' = IF pending.qty = 0 THEN fills ELSE Append(fills, fill)
        /\ served' = IF Seen(at) THEN served \cup {at} ELSE served
        /\ at' = at + 1
        /\ UNCHANGED <<bars, plan, pc, fold, theta, rows, first>>
    BY <1>11 DEF ReplayBar
  <2>2. PICK target \in Wanted :
           pending' = IF target = Held + pending.qty THEN NoOrder
                      ELSE [qty |-> target - (Held + pending.qty), by |-> at]
    BY <1>11 DEF ReplayBar
  <2>3. TestEnd(plan, fold) <= NBars /\ Ordered /\ ServedBars /\ first \in Nat
    BY <2>1 DEF Replaying, Prepared, HasSplit, Reached
  <2>4. at \in Bars
    BY <1>0, <1>1, <2>1, <2>3 DEF StepTyped
  <2>5. pending' \in OrderType
    <3>1. Held + pending.qty \in Int /\ target \in Int
      BY WantedType
    <3>2. target - (Held + pending.qty) \in Int
      BY <3>1
    <3>. QED  BY <1>4, <2>2, <2>4, <3>2 DEF OrderType
  <2>6. fills' \in Seq(FillType)
    <3>1. CASE pending.qty = 0
      BY <1>0, <2>1, <3>1 DEF StepTyped
    <3>2. CASE pending.qty # 0
      <4>1. pending.by \in served
        BY <2>3, <3>2 DEF Ordered, NoOrder
      <4>2. pending.qty \in Int \ {0} /\ pending.by \in Bars
        BY <1>0, <3>2, <4>1 DEF StepTyped, OrderType
      <4>3. bars[at].open \in Int
        BY <1>0, <2>4 DEF Bar
      <4>4. fill \in FillType
        BY <2>4, <4>2, <4>3 DEF FillType
      <4>5. fills' = Append(fills, fill)
        BY <2>1, <3>2
      <4>. HIDE DEF fill
      <4>. QED  BY <1>0, <4>4, <4>5 DEF StepTyped
    <3>. QED  BY <3>1, <3>2
  <2>7. served' \subseteq Bars /\ at' \in Nat
    BY <1>0, <2>1, <2>4 DEF StepTyped
  <2>. HIDE DEF fill
  <2>. QED  BY <1>0, <1>2, <2>1, <2>5, <2>6, <2>7, GivenKept DEF StepTyped
<1>12. CASE EndReplay
  <2>1. bars' = bars /\ plan' = plan /\ rows' = rows /\ rows \in RowsType
        /\ theta \in 1..NThresholds /\ first \in Nat
    BY <1>0, <1>12 DEF EndReplay, StepTyped
  <2>2. CASE MoreThresholds
    <3>1. BeginReplay(first) /\ theta' = theta + 1 /\ fold' = fold
      BY <1>12, <2>2 DEF EndReplay
    <3>2. theta' \in 1..NThresholds
      BY <1>3, <2>1, <2>2, <3>1 DEF MoreThresholds
    <3>. QED  BY <1>0, <2>1, <3>1, <3>2, BegunTyped, GivenKept
  <2>3. CASE ~MoreThresholds
    <3>1. /\ fold' = fold + 1 /\ pc' = "train" /\ fills' = <<>> /\ served' = {}
          /\ pending' = NoOrder /\ UNCHANGED <<theta, first, at>>
      BY <1>12, <2>3 DEF EndReplay
    <3>2. fills' \in Seq(FillType) /\ fold' \in Nat
      BY <1>0, <3>1
    <3>. QED  BY <1>0, <1>2, <1>4, <2>1, <3>1, <3>2, GivenKept DEF StepTyped
  <2>. QED  BY <2>2, <2>3
<1>13. CASE Finish
  <2>1. UNCHANGED <<bars, plan, fold, theta, rows, first, at, pending, fills, served>>
        /\ pc' = "done"
    BY <1>13 DEF Finish, replay
  <2>. QED  BY <1>0, <1>2, <2>1, GivenKept DEF StepTyped
<1>14. CASE NextStrategy
  <2>1. UNCHANGED <<bars, theta, rows, first, at, pending, fills, served>>
        /\ pc' = "train" /\ fold' = 0 /\ plan' \in Plans /\ NextOfSuite(plan, plan')
    BY <1>14 DEF NextStrategy, replay
  <2>2. fold' \in Nat
    BY <2>1
  <2>. QED  BY <1>0, <1>2, <2>1, <2>2, GivenKept DEF StepTyped
<1>15. CASE UNCHANGED vars
  <2>1. UNCHANGED <<bars, plan, pc, fold, theta, rows, first, at, pending, fills, served>>
    BY <1>15 DEF vars
  <2>. QED  BY <1>0, <1>2, <2>1, GivenKept DEF StepTyped
<1>. QED
  BY <1>6, <1>7, <1>8, <1>9, <1>10, <1>11, <1>12, <1>13, <1>14, <1>15 DEF Next

LEMMA InitIInv == Init => IInv
<1>. SUFFICES ASSUME Init PROVE IInv
  OBVIOUS
<1>1. bars \in Histories /\ plan \in Plans /\ fold = 0 /\ pc = "train"
      /\ TakesAll(plan, NBars)
  BY DEF Init
<1>2. Given
  BY <1>1 DEF Given
<1>. QED  BY <1>1, <1>2, InitType DEF IInv

LEMMA StepIInv == IInv /\ [Next]_vars => IInv'
<1>. SUFFICES ASSUME IInv, [Next]_vars PROVE IInv'
  OBVIOUS
<1>0. /\ Given /\ (pc = "replay" => Replaying)
      /\ plan \in Plan /\ fold \in Nat /\ NBars \in Nat /\ plan.train \in Nat
  BY GivenFacts DEF IInv
<1>t. TypeOK'
  BY StepType DEF IInv
<1>1. CASE TrainFold
  <2>1. /\ HasSplit(plan, fold, NBars) /\ Trained(plan) /\ plan.train > 0
        /\ rows' = [fit |-> KeptRows \ LastRows(KeptRows), cal |-> LastRows(KeptRows)]
        /\ BeginReplay(WarmupStart(fold))
        /\ bars' = bars /\ plan' = plan /\ fold' = fold
    BY <1>1 DEF TrainFold, KeptRows, Trained
  <2>2. /\ WarmupStart(fold) \in Nat /\ WarmupStart(fold) < TestStart(plan, fold)
        /\ TestStart(plan, fold) \in Nat /\ TestEnd(plan, fold) \in Nat
        /\ TestStart(plan, fold) < TestEnd(plan, fold)
    BY <1>0, <2>1, WarmupFacts, SplitFacts
  <2>3. /\ first' = WarmupStart(fold) /\ at' = WarmupStart(fold)
        /\ ServedBars' /\ Ordered' /\ Filled'
    BY <2>1, <2>2, BegunReplay
  <2>4. NBars' = NBars /\ KeptRows' = KeptRows /\ WarmupStart(fold)' = WarmupStart(fold)
    BY <2>1 DEF NBars, KeptRows, TrainRows, WarmupStart
  <2>5. Given'
    BY <1>0, <2>1, GivenKept
  <2>6. Prepared'
    BY <2>1, <2>3, <2>4 DEF Prepared
  <2>7. Reached'
    BY <2>1, <2>2, <2>3 DEF Reached
  <2>. QED  BY <1>t, <2>3, <2>5, <2>6, <2>7 DEF IInv, Replaying
<1>2. CASE SkipFold
  <2>1. pc = "train" /\ pc' = pc /\ bars' = bars /\ plan' = plan /\ fold' = fold + 1
    BY <1>2 DEF SkipFold
  <2>2. Given'
    BY <1>0, <2>1, GivenKept
  <2>. QED  BY <1>t, <2>1, <2>2 DEF IInv
<1>3. CASE FailFold
  <2>1. pc' = "failed" /\ bars' = bars /\ plan' = plan /\ fold' = fold
    BY <1>3 DEF FailFold
  <2>2. Given'
    BY <1>0, <2>1, GivenKept
  <2>. QED  BY <1>t, <2>1, <2>2 DEF IInv
<1>4. CASE PlainFold
  <2>1. /\ HasSplit(plan, fold, NBars) /\ ~Trained(plan)
        /\ rows' = NoRows
        /\ BeginReplay(TestStart(plan, fold))
        /\ bars' = bars /\ plan' = plan /\ fold' = fold
    BY <1>4 DEF PlainFold, Trained
  <2>2. /\ TestStart(plan, fold) \in Nat /\ TestEnd(plan, fold) \in Nat
        /\ TestStart(plan, fold) < TestEnd(plan, fold)
    BY <1>0, SplitFacts
  <2>3. /\ first' = TestStart(plan, fold) /\ at' = TestStart(plan, fold)
        /\ ServedBars' /\ Ordered' /\ Filled'
    BY <2>1, <2>2, BegunReplay
  <2>4. NBars' = NBars
    BY <2>1 DEF NBars
  <2>5. Given'
    BY <1>0, <2>1, GivenKept
  <2>6. Prepared'
    BY <2>1, <2>3, <2>4 DEF Prepared
  <2>7. Reached'
    BY <2>1, <2>2, <2>3 DEF Reached
  <2>. QED  BY <1>t, <2>3, <2>5, <2>6, <2>7 DEF IInv, Replaying
<1>9. CASE WholeRun
  <2>1. /\ HasSplit(plan, fold, NBars) /\ ~Trained(plan)
        /\ rows' = NoRows
        /\ TestStart(plan, fold) = 0 /\ BeginReplay(TestStart(plan, fold))
        /\ bars' = bars /\ plan' = plan /\ fold' = fold
    <3>1. plan.train = 0 /\ HasSplit(plan, fold, NBars) /\ rows' = NoRows
          /\ BeginReplay(0) /\ bars' = bars /\ plan' = plan /\ fold' = fold
      BY <1>9 DEF WholeRun
    <3>2. TestStart(plan, fold) = 0
      BY <1>0, <3>1, WholeSplit DEF Given
    <3>. QED  BY <3>1, <3>2 DEF Trained
  <2>2. /\ TestStart(plan, fold) \in Nat /\ TestEnd(plan, fold) \in Nat
        /\ TestStart(plan, fold) < TestEnd(plan, fold)
    BY <1>0, SplitFacts
  <2>3. /\ first' = TestStart(plan, fold) /\ at' = TestStart(plan, fold)
        /\ ServedBars' /\ Ordered' /\ Filled'
    BY <2>1, <2>2, BegunReplay
  <2>4. NBars' = NBars
    BY <2>1 DEF NBars
  <2>5. Given'
    BY <1>0, <2>1, GivenKept
  <2>6. Prepared'
    BY <2>1, <2>3, <2>4 DEF Prepared
  <2>7. Reached'
    BY <2>1, <2>2, <2>3 DEF Reached
  <2>. QED  BY <1>t, <2>3, <2>5, <2>6, <2>7 DEF IInv, Replaying
<1>5. CASE ReplayBar
  <2>. DEFINE fill == [qty |-> pending.qty, by |-> pending.by,
                       price |-> bars[at].open, at |-> at]
  <2>1. /\ pc = "replay" /\ at < TestEnd(plan, fold)
        /\ fills' = IF pending.qty = 0 THEN fills ELSE Append(fills, fill)
        /\ served' = IF Seen(at) THEN served \cup {at} ELSE served
        /\ pending' = NoOrder \/ (Seen(at) /\ pending'.by = at)
        /\ at' = at + 1
        /\ bars' = bars /\ plan' = plan /\ fold' = fold /\ rows' = rows /\ first' = first
    <3>1. \A target \in Wanted : ~Seen(at) => target = Held + pending.qty
      BY DEF Wanted
    <3>. QED  BY <1>5, <3>1 DEF ReplayBar
  <2>2. Replaying /\ at \in Nat /\ first \in Nat /\ first <= at
    BY <1>0, <2>1 DEF Replaying, Reached
  <2>3. TestEnd(plan, fold) \in Nat
    BY <1>0, SplitFacts
  <2>4. Given'
    BY <1>0, <2>1, GivenKept
  <2>5. Prepared'
    BY <1>0, <2>1, <2>2, PreparedKept DEF Replaying
  <2>6. Reached'
    BY <2>1, <2>2, <2>3 DEF Reached
  <2>7. ServedBars'
    <3>1. first .. (at + 1) - 1 = (first .. at - 1) \cup {at}
      BY <2>2
    <3>2. served = {i \in first .. at - 1 : Seen(i)}
      BY <2>2 DEF Replaying, ServedBars
    <3>3. served' = {i \in (first .. at - 1) \cup {at} : Seen(i)}
      BY <2>1, <3>2
    <3>4. ASSUME NEW i PROVE Seen(i)' = Seen(i)
      BY <2>1, SeenKept
    <3>5. served' = {i \in first' .. at' - 1 : Seen(i)'}
      BY <2>1, <3>1, <3>3, <3>4
    <3>. QED  BY <3>5 DEF ServedBars
  <2>8. Ordered'
    <3>1. pending' = NoOrder \/ (pending'.by \in served' /\ pending'.by = at' - 1)
      BY <2>1, <2>2
    <3>. QED  BY <3>1 DEF Ordered
  <2>9. Filled'
    <3>1. PICK S : fills \in Seq(S)
      BY <2>2 DEF Replaying, Filled
    <3>2. \A i \in DOMAIN fills : /\ fills[i].by \in served'
                                  /\ fills[i].at = fills[i].by + 1
                                  /\ fills[i].at < TestEnd(plan, fold)
      BY <2>1, <2>2 DEF Replaying, Filled
    <3>3. CASE pending.qty = 0
      BY <2>1, <3>1, <3>2, <3>3 DEF Filled
    <3>4. CASE pending.qty # 0
      <4>1. pending.by \in served /\ pending.by = at - 1
        BY <2>2, <3>4 DEF Replaying, Ordered, NoOrder
      <4>2. fill.by \in served' /\ fill.at = fill.by + 1 /\ fill.at < TestEnd(plan, fold)
        BY <2>1, <2>2, <4>1
      <4>. HIDE DEF fill
      <4>3. fills' = Append(fills, fill)
        BY <2>1, <3>4
      <4>4. /\ fills' \in Seq(S \cup {fill})
            /\ DOMAIN fills = 1..Len(fills) /\ Len(fills) \in Nat
            /\ DOMAIN fills' = 1 .. Len(fills) + 1
            /\ \A i \in 1..Len(fills) : fills'[i] = fills[i]
            /\ fills'[Len(fills) + 1] = fill
        BY <3>1, <4>3, AppendFacts
      <4>5. \A i \in DOMAIN fills' : i \in DOMAIN fills \/ i = Len(fills) + 1
        BY <4>4
      <4>6. \A i \in DOMAIN fills' : /\ fills'[i].by \in served'
                                     /\ fills'[i].at = fills'[i].by + 1
                                     /\ fills'[i].at < TestEnd(plan, fold)
        BY <3>2, <4>2, <4>4, <4>5
      <4>. QED  BY <2>1, <4>4, <4>6 DEF Filled
    <3>. QED  BY <3>3, <3>4
  <2>. QED  BY <1>t, <2>4, <2>5, <2>6, <2>7, <2>8, <2>9 DEF IInv, Replaying
<1>6. CASE EndReplay
  <2>1. pc = "replay" /\ bars' = bars /\ plan' = plan /\ rows' = rows
    BY <1>6 DEF EndReplay
  <2>2. Replaying /\ first \in Nat /\ at = TestEnd(plan, fold) /\ first <= at
    BY <1>0, <1>6, <2>1 DEF EndReplay, Replaying, Reached
  <2>3. CASE MoreThresholds
    <3>1. BeginReplay(first) /\ fold' = fold
      BY <1>6, <2>3 DEF EndReplay
    <3>2. first' = first /\ at' = first /\ ServedBars' /\ Ordered' /\ Filled'
      BY <2>2, <3>1, BegunReplay
    <3>4. Prepared'
      BY <1>0, <2>1, <2>2, <3>1, <3>2, PreparedKept DEF Replaying
    <3>5. Reached'
      BY <2>1, <2>2, <3>1, <3>2 DEF Reached
    <3>6. Given'
      BY <1>0, <2>1, <3>1, GivenKept
    <3>. QED  BY <1>t, <3>2, <3>4, <3>5, <3>6 DEF IInv, Replaying
  <2>4. CASE ~MoreThresholds
    <3>1. fold' = fold + 1 /\ pc' = "train"
      BY <1>6, <2>4 DEF EndReplay
    <3>2. Given'
      BY <1>0, <2>1, <3>1, GivenKept
    <3>. QED  BY <1>t, <3>1, <3>2 DEF IInv
  <2>. QED  BY <2>3, <2>4
<1>7. CASE Finish
  <2>1. pc' = "done" /\ bars' = bars /\ plan' = plan /\ fold' = fold
    BY <1>7 DEF Finish
  <2>2. Given'
    BY <1>0, <2>1, GivenKept
  <2>. QED  BY <1>t, <2>1, <2>2 DEF IInv
<1>8. CASE UNCHANGED vars
  <2>1. /\ bars' = bars /\ plan' = plan /\ pc' = pc /\ fold' = fold /\ rows' = rows
        /\ first' = first /\ at' = at /\ pending' = pending /\ fills' = fills
        /\ served' = served
    BY <1>8 DEF vars
  <2>2. Given'
    BY <1>0, <2>1, GivenKept
  <2>3. pc = "replay" => Prepared'
    BY <1>0, <2>1, PreparedKept DEF Replaying
  <2>4. Reached' = Reached /\ Ordered' = Ordered /\ Filled' = Filled
    BY <2>1 DEF Reached, Ordered, Filled
  <2>5. ServedBars' = ServedBars
    BY <2>1, SeenKept DEF ServedBars
  <2>. QED  BY <1>0, <1>t, <2>1, <2>2, <2>3, <2>4, <2>5 DEF IInv, Replaying
<1>10. CASE NextStrategy
  <2>1. pc' = "train" /\ bars' = bars /\ fold' = 0
        /\ plan' \in Plans /\ NextOfSuite(plan, plan')
    BY <1>10 DEF NextStrategy
  <2>2. Given'
    BY <1>0, <2>1, GivenKept
  <2>. QED  BY <1>t, <2>1, <2>2 DEF IInv
<1>. QED  BY <1>1, <1>2, <1>3, <1>4, <1>5, <1>6, <1>7, <1>8, <1>9, <1>10 DEF Next

-----------------------------------------------------------------------------
\* The rows of a trained fold, and none of a strategy that is not trained.
LEMMA RowsOld ==
    ASSUME Given, Prepared, NEW i \in Rows
    PROVE  /\ Trained(plan)
           /\ i \in Nat /\ TrainStart(plan, fold) <= i
           /\ i + plan.horizon < TestStart(plan, fold)
<1>1. plan \in Plan /\ fold \in Nat
  BY GivenFacts
<1>2. Trained(plan)
  BY DEF Prepared, NoRows, Rows
<1>3. rows = [fit |-> KeptRows \ LastRows(KeptRows), cal |-> LastRows(KeptRows)]
  BY <1>2 DEF Prepared
<1>4. i \in KeptRows
  BY <1>3 DEF Rows, LastRows
<1>5. TrainStart(plan, fold) \in Nat /\ TestStart(plan, fold) \in Nat
  BY <1>1, SplitFacts
<1>6. KeptRows = TrimmedRows(bars, plan, TrainStart(plan, fold), TestStart(plan, fold))
  BY DEF KeptRows, TrainRows
<1>. QED  BY <1>1, <1>2, <1>4, <1>5, <1>6, TrimmedEnd

\* The strategy decides from the bar before the test window on.
LEMMA ServedFrom ==
    ASSUME Given, Prepared, Reached, ServedBars, NEW i \in served
    PROVE  /\ i \in Nat /\ first <= i /\ i < at
           /\ plan.strategy = "model" => \A f \in Features : Defined(f, first, i)
           /\ i >= TestStart(plan, fold) - 1
<1>1. plan \in Plan /\ fold \in Nat
  BY GivenFacts
<1>2. first \in Nat /\ at \in Nat
  BY DEF Reached
<1>3. /\ i \in first .. at - 1
      /\ plan.strategy = "model" => \A f \in Features : Defined(f, first, i)
  BY DEF ServedBars, Seen
<1>4. i \in Nat /\ first <= i /\ i < at
  BY <1>2, <1>3
<1>5. TestStart(plan, fold) \in Nat
  BY <1>1, SplitFacts
<1>6. CASE Trained(plan)
  <2>0. plan.strategy = "model" /\ plan.train > 0
    BY <1>6 DEF Trained
  <2>1. PICK f \in Features : f.lookback = MaxLookback
    BY MaxLookbackFacts
  <2>2. i - first + 1 >= MaxLookback
    BY <1>3, <2>0, <2>1 DEF Defined
  <2>3. first >= TestStart(plan, fold) - MaxLookback
    BY <1>1, <1>6, <2>0, WarmupFacts DEF Prepared
  <2>. QED  BY <1>2, <1>3, <1>4, <1>5, <2>2, <2>3, MaxLookbackFacts
<1>7. CASE ~Trained(plan)
  <2>1. first = TestStart(plan, fold)
    BY <1>7 DEF Prepared
  <2>. QED  BY <1>3, <1>4, <1>5, <2>1
<1>. QED  BY <1>6, <1>7

(***************************************************************************)
(* No fold trains or calibrates its model on a bar its test window would   *)
(* change, and no row it trains or scores on has a label cut short by the  *)
(* end of a slice.                                                         *)
(***************************************************************************)
LEMMA IInvHonest == IInv => HonestTraining
<1>. SUFFICES ASSUME IInv, pc = "replay" PROVE TrainedOnThePast /\ LabelsFinal
  BY DEF HonestTraining
<1>1. Given /\ Prepared /\ plan \in Plan /\ fold \in Nat /\ NBars \in Nat
  BY GivenFacts DEF IInv, Replaying
<1>2. /\ TrainStart(plan, fold) \in Nat /\ TestStart(plan, fold) \in Nat
      /\ TestEnd(plan, fold) \in Nat /\ TestStart(plan, fold) < TestEnd(plan, fold)
  BY <1>1, SplitFacts
<1>3. plan.horizon \in Nat
  BY <1>1, PlanFacts
<1>4. TestEnd(plan, fold) <= NBars
  BY <1>1 DEF Prepared, HasSplit
<1>5. TrainedOnThePast
  <2>. SUFFICES ASSUME NEW i \in Rows
                PROVE /\ TrainStart(plan, fold) <= i
                      /\ i + plan.horizon < TestStart(plan, fold)
                      /\ \A f \in Features : \A j \in Joined(f, i) : Window(f, 0, j) \subseteq 0..i
                      /\ i \in rows.fit => \A j \in rows.cal : i < j
    BY DEF TrainedOnThePast
  <2>1. /\ Trained(plan) /\ i \in Nat /\ TrainStart(plan, fold) <= i
        /\ i + plan.horizon < TestStart(plan, fold)
    BY <1>1, RowsOld
  <2>2. ASSUME NEW f \in Features, NEW j \in Joined(f, i), NEW w \in Window(f, 0, j)
        PROVE  w \in 0..i
    <3>1. j \in 0..i
      BY DEF Joined
    <3>2. w \in 0..j
      BY DEF Window
    <3>. QED  BY <2>1, <3>1, <3>2
  <2>3. ASSUME i \in rows.fit, NEW j \in rows.cal PROVE i < j
    <3>1. rows = [fit |-> KeptRows \ LastRows(KeptRows), cal |-> LastRows(KeptRows)]
      BY <1>1, <2>1 DEF Prepared
    <3>2. i \in KeptRows \ LastRows(KeptRows) /\ j \in LastRows(KeptRows)
      BY <2>3, <3>1
    <3>. DEFINE lo == TrainStart(plan, fold)
                hi == TestStart(plan, fold)
                S == KeptRows
    <3>3. S \subseteq lo .. hi - 1 /\ lo \in Int /\ hi \in Int
      BY <1>2 DEF KeptRows, TrainRows, TrimmedRows, Labelled
    <3>4. i \in S \ LastRows(S) /\ j \in LastRows(S)
      BY <3>2
    <3>. HIDE DEF lo, hi, S
    <3>. QED  BY <3>3, <3>4, LastRowsLast
  <2>. QED  BY <2>1, <2>2, <2>3
<1>6. LabelsFinal
  <2>1. ASSUME NEW i \in Rows
        PROVE  Label(bars, i, plan.horizon, TestStart(plan, fold) - 1)
                 = Label(bars, i, plan.horizon, NBars - 1)
    <3>1. i \in Nat /\ i + plan.horizon < TestStart(plan, fold)
      BY <1>1, RowsOld
    <3>. DEFINE m == TestStart(plan, fold) - 1
                n == NBars - 1
    <3>2. m \in Int /\ n \in Int /\ i + plan.horizon <= m /\ m <= n
      BY <1>1, <1>2, <1>3, <1>4, <3>1
    <3>. HIDE DEF m, n
    <3>3. Label(bars, i, plan.horizon, m) = Label(bars, i, plan.horizon, n)
      BY <1>3, <3>1, <3>2, LabelSettled
    <3>. QED  BY <3>3 DEF m, n
  <2>2. ASSUME NEW i \in HoldoutRows(fold)
        PROVE  Label(bars, i, plan.horizon, TestEnd(plan, fold) - 1)
                 = Label(bars, i, plan.horizon, NBars - 1)
    <3>1. i \in Nat /\ i + plan.horizon < TestEnd(plan, fold)
      BY <1>1, <1>2, TrimmedEnd DEF HoldoutRows
    <3>. DEFINE m == TestEnd(plan, fold) - 1
                n == NBars - 1
    <3>2. m \in Int /\ n \in Int /\ i + plan.horizon <= m /\ m <= n
      BY <1>1, <1>2, <1>3, <1>4, <3>1
    <3>. HIDE DEF m, n
    <3>3. Label(bars, i, plan.horizon, m) = Label(bars, i, plan.horizon, n)
      BY <1>3, <3>1, <3>2, LabelSettled
    <3>. QED  BY <3>3 DEF m, n
  <2>. QED  BY <2>1, <2>2 DEF LabelsFinal
<1>. QED  BY <1>5, <1>6

(***************************************************************************)
(* Every fill of a replay is in its test window, at the open after the     *)
(* close that decided it, and that close is no bar the model was fitted on.*)
(***************************************************************************)
LEMMA IInvFilled == IInv => FilledInTest
<1>. SUFFICES ASSUME IInv, pc = "replay", NEW i \in DOMAIN fills
              PROVE /\ fills[i].at \in TestStart(plan, fold) .. TestEnd(plan, fold) - 1
                    /\ fills[i].at = fills[i].by + 1
                    /\ fills[i].by \notin Rows
  BY DEF FilledInTest
<1>1. /\ Given /\ Prepared /\ Reached /\ ServedBars /\ Filled
      /\ plan \in Plan /\ fold \in Nat
  BY GivenFacts DEF IInv, Replaying
<1>2. TestStart(plan, fold) \in Nat /\ TestEnd(plan, fold) \in Nat
  BY <1>1, SplitFacts
<1>. DEFINE j == fills[i].by
<1>3. j \in served /\ fills[i].at = j + 1 /\ fills[i].at < TestEnd(plan, fold)
  BY <1>1 DEF Filled
<1>. HIDE DEF j
<1>4. j \in Nat /\ j >= TestStart(plan, fold) - 1
  BY <1>1, <1>3, ServedFrom
<1>5. j \notin Rows
  <2>. SUFFICES ASSUME j \in Rows PROVE FALSE
    OBVIOUS
  <2>1. j + plan.horizon < TestStart(plan, fold)
    BY <1>1, RowsOld
  <2>2. plan.horizon \in Nat \ {0}
    BY <1>1, PlanFacts
  <2>. QED  BY <1>2, <1>4, <2>1, <2>2
<1>6. fills[i].at \in TestStart(plan, fold) .. TestEnd(plan, fold) - 1
  BY <1>2, <1>3, <1>4
<1>. QED  BY <1>3, <1>5, <1>6 DEF j

(***************************************************************************)
(* A trained model is served, in the replay, the feature values the        *)
(* training joined, from the bar before its test window on.                *)
(***************************************************************************)
LEMMA IInvServed == IInv => ServedAsTrained
<1>. SUFFICES ASSUME IInv, pc = "replay", plan.strategy = "model"
              PROVE /\ \A i \in served, f \in Features :
                          /\ Window(f, first, i) = Window(f, 0, i)
                          /\ Joined(f, i) = {i} /\ RankedFirst(f, i) = {i}
                    /\ \A i \in TestStart(plan, fold) - 1 .. at - 1 :
                          (\A f \in Features : Defined(f, 0, i)) => i \in served
  BY DEF ServedAsTrained
<1>1. /\ Given /\ Prepared /\ Reached /\ ServedBars /\ plan \in Plan /\ fold \in Nat
  BY GivenFacts DEF IInv, Replaying
<1>2. TestStart(plan, fold) \in Nat /\ first \in Nat /\ at \in Nat
  BY <1>1, SplitFacts DEF Reached
<1>3. ASSUME NEW i \in served, NEW f \in Features
      PROVE  /\ Window(f, first, i) = Window(f, 0, i)
             /\ Joined(f, i) = {i} /\ RankedFirst(f, i) = {i}
  <2>1. i \in Nat /\ first <= i /\ Defined(f, first, i)
    BY <1>1, ServedFrom
  <2>2. f.lookback \in Nat \ {0} /\ f.since \in Nat
    BY MaxLookbackFacts
  <2>3. i >= f.since /\ i - first + 1 >= f.lookback
    BY <2>1 DEF Defined, Recorded
  <2>4. \A j \in Int : j > i - f.lookback => j >= first
    BY <1>2, <2>1, <2>2, <2>3
  <2>5. ASSUME NEW j \in Window(f, 0, i) PROVE j \in Window(f, first, i)
    <3>1. j \in 0..i /\ j > i - f.lookback
      BY DEF Window
    <3>2. j \in first..i
      BY <1>2, <2>1, <2>4, <3>1
    <3>. QED  BY <3>1, <3>2 DEF Window
  <2>6. ASSUME NEW j \in Window(f, first, i) PROVE j \in Window(f, 0, i)
    <3>1. j \in first..i /\ j > i - f.lookback
      BY DEF Window
    <3>2. j \in 0..i
      BY <1>2, <2>1, <3>1
    <3>. QED  BY <3>1, <3>2 DEF Window
  <2>7. Defined(f, 0, i)
    BY <1>2, <2>1, <2>2, <2>3 DEF Defined, Recorded
  <2>8. i \in Joined(f, i)
    <3>1. i \in 0..i /\ i + 1 .. i = {}
      BY <2>1
    <3>. QED  BY <2>7, <3>1 DEF Joined
  <2>9. ASSUME NEW j \in Joined(f, i) PROVE j = i
    <3>1. j \in 0..i /\ \A k \in j + 1 .. i : ~Defined(f, 0, k)
      BY DEF Joined
    <3>2. i \notin j + 1 .. i
      BY <2>7, <3>1
    <3>. QED  BY <2>1, <3>1, <3>2
  <2>10. Window(f, first, i) = Window(f, 0, i)
    BY <2>5, <2>6
  <2>11. i \in Available(f, i)
    BY <2>1, <2>7 DEF Available
  <2>12. i \in RankedFirst(f, i)
    <3>. SUFFICES ASSUME NEW k \in Available(f, i) PROVE k <= i
      BY <2>11 DEF RankedFirst
    <3>1. k \in 0..i
      BY DEF Available
    <3>. QED  BY <2>1, <3>1
  <2>13. ASSUME NEW j \in RankedFirst(f, i) PROVE j = i
    <3>1. j \in Available(f, i) /\ i <= j
      BY <2>11 DEF RankedFirst
    <3>2. j \in 0..i
      BY <3>1 DEF Available
    <3>. QED  BY <2>1, <3>1, <3>2
  <2>. QED  BY <2>8, <2>9, <2>10, <2>12, <2>13
<1>4. ASSUME NEW i \in TestStart(plan, fold) - 1 .. at - 1,
             \A f \in Features : Defined(f, 0, i)
      PROVE  i \in served
  <2>1. PICK g \in Features : g.lookback \in Nat \ {0} /\ g.since \in Nat
    BY MaxLookbackFacts
  <2>a. i \in Nat
    BY <1>2, <1>4, <2>1 DEF Defined, Recorded
  <2>2. i >= first /\ (first = 0 \/ first = TestStart(plan, fold) - MaxLookback)
    <3>1. CASE plan.train > 0
      <4>1. first = WarmupStart(fold)
        BY <1>1, <3>1 DEF Prepared, Trained
      <4>2. first < TestStart(plan, fold)
            /\ (first = 0 \/ first = TestStart(plan, fold) - MaxLookback)
        BY <1>1, <3>1, <4>1, WarmupFacts
      <4>. QED  BY <1>2, <4>2
    <3>2. CASE ~(plan.train > 0)
      <4>1. plan.train = 0 /\ NBars \in Nat
        BY <1>1, <3>2, GivenFacts
      <4>2. first = TestStart(plan, fold)
        BY <1>1, <3>2 DEF Prepared, Trained
      <4>3. TestStart(plan, fold) = 0
        BY <1>1, <4>1, WholeSplit DEF Given, Prepared
      <4>. QED  BY <2>a, <4>2, <4>3
    <3>. QED  BY <3>1, <3>2
  <2>3. i \in first .. at - 1
    BY <1>2, <2>2
  <2>4. ASSUME NEW f \in Features PROVE Defined(f, first, i)
    <3>1. f.lookback \in Nat /\ f.lookback <= MaxLookback /\ MaxLookback \in Nat
      BY MaxLookbackFacts
    <3>2. i >= f.since /\ i - 0 + 1 >= f.lookback /\ Moving(f, i)
      BY <1>4 DEF Defined, Recorded
    <3>3. i - first + 1 >= f.lookback
      BY <1>2, <2>2, <2>3, <3>1, <3>2
    <3>. QED  BY <3>2, <3>3 DEF Defined, Recorded
  <2>. QED  BY <1>1, <2>3, <2>4 DEF ServedBars, Seen
<1>. QED  BY <1>3, <1>4

\* The invariant of every reachable state.
THEOREM Invariant == Spec => []IInv
BY InitIInv, StepIInv, PTL DEF Spec

(***************************************************************************)
(* Every variable keeps its type, and so do the quantities of every order  *)
(* and fill, for every size equity and price may give.                     *)
(***************************************************************************)
THEOREM TypeCorrect == Spec => []TypeOK
<1>1. IInv => TypeOK
  BY DEF IInv
<1>. QED  BY <1>1, Invariant, PTL

(***************************************************************************)
(* Training is honest, whatever the history, the plan and the features.    *)
(***************************************************************************)
THEOREM TrainingHonest == Spec => []HonestTraining
BY Invariant, IInvHonest, PTL

(***************************************************************************)
(* A replay trades in its test window only.                                *)
(***************************************************************************)
THEOREM TradesInTest == Spec => []FilledInTest
BY Invariant, IInvFilled, PTL

(***************************************************************************)
(* A replay serves what training joined.                                   *)
(***************************************************************************)
THEOREM ServingMatches == Spec => []ServedAsTrained
BY Invariant, IInvServed, PTL

-----------------------------------------------------------------------------
\* What a rule is applied to.
LEMMA RuleFacts ==
    ASSUME plan \in Plans, NEW k \in DOMAIN Thresholds
    PROVE  /\ RuleAt(k).directional = plan.directional
           /\ RuleAt(k).theta = Thresholds[k] /\ RuleAt(k).short = plan.short
           /\ plan.directional \in BOOLEAN /\ plan.short \in BOOLEAN
           /\ Thresholds[k] \in 1..100
           /\ plan.directional => Thresholds[k] > 50
BY WalkForwardAssumption DEF RuleAt, Plan

\* The largest probability is one of the three.
LEMMA BestFacts ==
    ASSUME NEW p \in Probabilities
    PROVE  /\ p.down \in 0..100 /\ p.flat \in 0..100 /\ p.up \in 0..100
           /\ Best(p) \in {"down", "flat", "up"}
           /\ p[Best(p)] \in 0..100
BY DEF Probabilities, Best

\* The strategies' decisions, case by case.
LEMMA BinaryCases ==
    ASSUME NEW r, NEW p, NEW size
    PROVE  /\ p.up > r.theta => BinaryTarget(r, p, size) = size
           /\ ~(p.up > r.theta) /\ p.up < 100 - r.theta /\ r.short
                 => BinaryTarget(r, p, size) = -size
           /\ ~(p.up > r.theta) /\ ~(p.up < 100 - r.theta /\ r.short)
                 => BinaryTarget(r, p, size) = 0
           /\ p.up > r.theta => BinaryDirection(r, p) = "long"
           /\ ~(p.up > r.theta) /\ p.up < 100 - r.theta /\ r.short
                 => BinaryDirection(r, p) = "short"
           /\ ~(p.up > r.theta) /\ ~(p.up < 100 - r.theta /\ r.short)
                 => BinaryDirection(r, p) = "flat"
BY Zenon DEF BinaryTarget, BinaryDirection

LEMMA ThreeClassCases ==
    ASSUME NEW r, NEW p, NEW size, p[Best(p)] \in Int, r.theta \in Int
    PROVE  /\ p[Best(p)] >= r.theta /\ Best(p) = "up"
                 => /\ ThreeClassTarget(r, p, size) = size
                    /\ ThreeClassDirection(r, p) = "long"
           /\ p[Best(p)] >= r.theta /\ Best(p) = "down" /\ r.short
                 => /\ ThreeClassTarget(r, p, size) = -size
                    /\ ThreeClassDirection(r, p) = "short"
           /\ (~(p[Best(p)] >= r.theta) \/ Best(p) = "flat" \/ (Best(p) = "down" /\ ~r.short))
                 => /\ ThreeClassTarget(r, p, size) = 0
                    /\ ThreeClassDirection(r, p) = "flat"
<1>. DEFINE q == p[Best(p)]
<1>1. q < r.theta <=> ~(q >= r.theta)
  OBVIOUS
<1>2. /\ q < r.theta => ThreeClassTarget(r, p, size) = 0
      /\ ~(q < r.theta) /\ Best(p) = "up" => ThreeClassTarget(r, p, size) = size
      /\ ~(q < r.theta) /\ Best(p) # "up" /\ Best(p) = "down" /\ r.short
            => ThreeClassTarget(r, p, size) = -size
      /\ ~(q < r.theta) /\ Best(p) # "up" /\ ~(Best(p) = "down" /\ r.short)
            => ThreeClassTarget(r, p, size) = 0
  BY Zenon DEF ThreeClassTarget
<1>3. /\ ~(q >= r.theta) \/ Best(p) = "flat" \/ (Best(p) = "down" /\ ~r.short)
            => ThreeClassDirection(r, p) = "flat"
      /\ q >= r.theta /\ Best(p) = "up" /\ Best(p) # "flat" /\ Best(p) # "down"
            => ThreeClassDirection(r, p) = "long"
      /\ q >= r.theta /\ Best(p) # "up" /\ Best(p) # "flat" /\ r.short
            => ThreeClassDirection(r, p) = "short"
  BY Zenon DEF ThreeClassDirection
<1>4. "up" # "flat" /\ "up" # "down" /\ "down" # "flat"
  OBVIOUS
<1>. HIDE DEF q
<1>5. /\ q >= r.theta /\ Best(p) = "up" => /\ ThreeClassTarget(r, p, size) = size
                                           /\ ThreeClassDirection(r, p) = "long"
      /\ q >= r.theta /\ Best(p) = "down" /\ r.short
            => /\ ThreeClassTarget(r, p, size) = -size
               /\ ThreeClassDirection(r, p) = "short"
      /\ ~(q >= r.theta) \/ Best(p) = "flat" \/ (Best(p) = "down" /\ ~r.short)
            => /\ ThreeClassTarget(r, p, size) = 0
               /\ ThreeClassDirection(r, p) = "flat"
  BY <1>1, <1>2, <1>3, <1>4, Zenon
<1>. QED  BY <1>5 DEF q

(***************************************************************************)
(* PaperSymbolBundle._direction against the strategies' on_bar: the        *)
(* direction is the sign of the target, for every rule and probabilities.  *)
(***************************************************************************)
THEOREM DirectionOfTarget ==
    ASSUME NEW r, r.theta \in 1..100, NEW p \in Probabilities, NEW size \in Nat \ {0}
    PROVE  /\ Decide(r, p, size).direction = "long" <=> Decide(r, p, size).target > 0
           /\ Decide(r, p, size).direction = "short" <=> Decide(r, p, size).target < 0
<1>. DEFINE t == Decide(r, p, size).target
            d == Decide(r, p, size).direction
<1>1. /\ t = IF r.directional THEN BinaryTarget(r, p, size) ELSE ThreeClassTarget(r, p, size)
      /\ d = IF r.directional THEN BinaryDirection(r, p) ELSE ThreeClassDirection(r, p)
  BY Zenon DEF Decide, Target
<1>2. (t = size /\ d = "long") \/ (t = -size /\ d = "short") \/ (t = 0 /\ d = "flat")
  <2>1. CASE r.directional
    <3>1. t = BinaryTarget(r, p, size) /\ d = BinaryDirection(r, p)
      BY <1>1, <2>1, Zenon
    <3>. HIDE DEF t, d
    <3>. QED  BY <3>1, BinaryCases, Zenon
  <2>2. CASE ~r.directional
    <3>1. t = ThreeClassTarget(r, p, size) /\ d = ThreeClassDirection(r, p)
      BY <1>1, <2>2, Zenon
    <3>2. Best(p) \in {"down", "flat", "up"} /\ p[Best(p)] \in Int /\ r.theta \in Int
      BY BestFacts
    <3>3. Best(p) = "down" \/ Best(p) = "flat" \/ Best(p) = "up"
      BY <3>2
    <3>. HIDE DEF t, d
    <3>4. /\ p[Best(p)] >= r.theta /\ Best(p) = "up" => t = size /\ d = "long"
          /\ p[Best(p)] >= r.theta /\ Best(p) = "down" /\ r.short => t = -size /\ d = "short"
          /\ (~(p[Best(p)] >= r.theta) \/ Best(p) = "flat" \/ (Best(p) = "down" /\ ~r.short))
                => t = 0 /\ d = "flat"
      <4>. HIDE DEF t, d
      <4>1. /\ p[Best(p)] >= r.theta /\ Best(p) = "up"
                 => /\ ThreeClassTarget(r, p, size) = size
                    /\ ThreeClassDirection(r, p) = "long"
            /\ p[Best(p)] >= r.theta /\ Best(p) = "down" /\ r.short
                 => /\ ThreeClassTarget(r, p, size) = -size
                    /\ ThreeClassDirection(r, p) = "short"
            /\ (~(p[Best(p)] >= r.theta) \/ Best(p) = "flat" \/ (Best(p) = "down" /\ ~r.short))
                 => /\ ThreeClassTarget(r, p, size) = 0
                    /\ ThreeClassDirection(r, p) = "flat"
        BY <3>2, ThreeClassCases, Zenon
      <4>. QED  BY <3>1, <4>1, Zenon
    <3>. QED  BY <3>3, <3>4, Zenon
  <2>. QED  BY <2>1, <2>2
<1>3. size \in Nat \ {0}
  OBVIOUS
<1>. HIDE DEF t, d
<1>4. (d = "long" <=> t > 0) /\ (d = "short" <=> t < 0)
  BY <1>2, <1>3
<1>. QED  BY <1>4 DEF t, d

LEMMA LowerThreshold ==
    ASSUME NEW x \in 0..100, NEW a \in 1..100, NEW b \in 1..100, b <= a
    PROVE  /\ x >= a => x >= b
           /\ x > a => x > b
           /\ b > 50 /\ x < 100 - a => x < 100 - b /\ ~(x > b)
OBVIOUS

(***************************************************************************)
(* A rule with a lower threshold wants every position a higher one wants.  *)
(***************************************************************************)
THEOREM ThresholdsNest ==
    ASSUME NEW r, NEW s, s.directional = r.directional, s.short = r.short,
           r.theta \in 1..100, s.theta \in 1..100, s.theta <= r.theta,
           r.directional => s.theta > 50,
           NEW p \in Probabilities, NEW size \in Nat \ {0},
           Target(r, p, size) # 0
    PROVE  Target(s, p, size) = Target(r, p, size)
<1>1. /\ p.up \in 0..100 /\ Best(p) \in {"down", "flat", "up"} /\ p[Best(p)] \in 0..100
  BY BestFacts
<1>2. CASE r.directional
  <2>1. /\ Target(r, p, size) = BinaryTarget(r, p, size)
        /\ Target(s, p, size) = BinaryTarget(s, p, size)
    BY <1>2, Zenon DEF Target
  <2>2. /\ p.up > r.theta => p.up > s.theta
        /\ p.up < 100 - r.theta => p.up < 100 - s.theta /\ ~(p.up > s.theta)
    BY <1>1, <1>2, LowerThreshold, Zenon
  <2>. QED  BY <2>1, <2>2, BinaryCases, Zenon
<1>3. CASE ~r.directional
  <2>1. /\ Target(r, p, size) = ThreeClassTarget(r, p, size)
        /\ Target(s, p, size) = ThreeClassTarget(s, p, size)
    BY <1>3, Zenon DEF Target
  <2>2. p[Best(p)] >= r.theta => p[Best(p)] >= s.theta
    BY <1>1, LowerThreshold, Zenon
  <2>3. Best(p) = "down" \/ Best(p) = "flat" \/ Best(p) = "up"
    BY <1>1
  <2>4. p[Best(p)] \in Int /\ r.theta \in Int /\ s.theta \in Int
    <3>1. \A x \in 0..100 : x \in Int
      OBVIOUS
    <3>2. \A x \in 1..100 : x \in Int
      OBVIOUS
    <3>. QED  BY <1>1, <3>1, <3>2, Zenon
  <2>5. p[Best(p)] >= r.theta /\ (Best(p) = "up" \/ (Best(p) = "down" /\ r.short))
    <3>1. (~(p[Best(p)] >= r.theta) \/ Best(p) = "flat" \/ (Best(p) = "down" /\ ~r.short))
             => ThreeClassTarget(r, p, size) = 0
      BY <2>4, ThreeClassCases, Zenon
    <3>. QED  BY <2>1, <2>3, <3>1, Zenon
  <2>6. /\ Best(p) = "up" => ThreeClassTarget(r, p, size) = size
        /\ Best(p) = "down" /\ r.short => ThreeClassTarget(r, p, size) = -size
    BY <2>4, <2>5, ThreeClassCases, Zenon
  <2>7. /\ Best(p) = "up" => ThreeClassTarget(s, p, size) = size
        /\ Best(p) = "down" /\ s.short => ThreeClassTarget(s, p, size) = -size
    BY <2>2, <2>4, <2>5, ThreeClassCases, Zenon
  <2>. QED  BY <2>1, <2>5, <2>6, <2>7, Zenon
<1>. QED  BY <1>2, <1>3

LEMMA IInvDecisions == IInv => DecisionsAgree
<1>. SUFFICES ASSUME IInv, NEW p \in Probs, NEW size \in Sizes, NEW k \in DOMAIN Thresholds
              PROVE /\ Decide(RuleAt(k), p, size).direction = "long"
                          <=> Decide(RuleAt(k), p, size).target > 0
                    /\ Decide(RuleAt(k), p, size).direction = "short"
                          <=> Decide(RuleAt(k), p, size).target < 0
                    /\ \A j \in DOMAIN Thresholds :
                          (Thresholds[j] <= Thresholds[k]
                             /\ Decide(RuleAt(k), p, size).target # 0)
                             => Target(RuleAt(j), p, size)
                                  = Decide(RuleAt(k), p, size).target
  BY DEF DecisionsAgree
<1>1. plan \in Plans /\ p \in Probabilities /\ size \in Nat \ {0}
  BY WalkForwardAssumption DEF IInv, Given
<1>2. /\ RuleAt(k).directional = plan.directional /\ RuleAt(k).short = plan.short
      /\ RuleAt(k).theta = Thresholds[k]
      /\ plan.directional \in BOOLEAN /\ plan.short \in BOOLEAN
      /\ Thresholds[k] \in 1..100 /\ (plan.directional => Thresholds[k] > 50)
  BY <1>1, RuleFacts
<1>3. /\ Decide(RuleAt(k), p, size).direction = "long"
           <=> Decide(RuleAt(k), p, size).target > 0
      /\ Decide(RuleAt(k), p, size).direction = "short"
           <=> Decide(RuleAt(k), p, size).target < 0
  BY <1>1, <1>2, DirectionOfTarget
<1>4. ASSUME NEW j \in DOMAIN Thresholds, Thresholds[j] <= Thresholds[k],
             Decide(RuleAt(k), p, size).target # 0
      PROVE  Target(RuleAt(j), p, size) = Decide(RuleAt(k), p, size).target
  <2>1. Decide(RuleAt(k), p, size).target = Target(RuleAt(k), p, size)
    BY DEF Decide
  <2>2. /\ RuleAt(j).directional = plan.directional /\ RuleAt(j).short = plan.short
        /\ RuleAt(j).theta = Thresholds[j]
        /\ Thresholds[j] \in 1..100 /\ (plan.directional => Thresholds[j] > 50)
    BY <1>1, RuleFacts
  <2>. QED  BY <1>1, <1>2, <1>4, <2>1, <2>2, ThresholdsNest
<1>. QED  BY <1>3, <1>4

(***************************************************************************)
(* What is journalled is what is traded, and thresholds nest, for every    *)
(* plan, list of thresholds and probabilities.                             *)
(***************************************************************************)
THEOREM DecisionsAgreeing == Spec => []DecisionsAgree
BY Invariant, IInvDecisions, PTL

-----------------------------------------------------------------------------
(***************************************************************************)
(* Scoring: what the trades and the lots of a run account for, after each  *)
(* fill.  The folds over the fills have a value for every number of them   *)
(* and keep what they have: by the least number it would fail for.         *)
(***************************************************************************)
\* Fills, as far as their scores go.
AreFills(fs) ==
    \E S : fs \in Seq(S) /\ \A f \in S : f.qty \in Int \ {0} /\ f.price \in Int

LEMMA FillsFacts ==
    ASSUME NEW fs, AreFills(fs)
    PROVE  /\ Len(fs) \in Nat /\ DOMAIN fs = 1..Len(fs)
           /\ \A i \in 1..Len(fs) : fs[i].qty \in Int \ {0} /\ fs[i].price \in Int
BY DEF AreFills

QtyOf(fs) == [i \in DOMAIN fs |-> fs[i].qty]

PaidOf(fs) == [i \in DOMAIN fs |-> -(fs[i].qty * fs[i].price) - FeeOf(fs[i])]

\* Position and cash after the first k fills.
PositionAt(fs, k) == PrefixSum(QtyOf(fs), k)
CashAt(fs, k) == PrefixSum(PaidOf(fs), k)

LEMMA ProductType == \A a, b \in Int : a * b \in Int
OBVIOUS

LEMMA SizeFacts ==
    ASSUME NEW q \in Int
    PROVE  /\ Size(q) \in Nat /\ (q # 0 => Size(q) > 0)
           /\ (q >= 0 => Size(q) = q) /\ (q <= 0 => Size(q) = -q)
BY DEF Size

LEMMA FeeType ==
    ASSUME NEW f, f.qty \in Int
    PROVE  FeeOf(f) \in Int /\ FeeOf(f) = FeeRate * Size(f.qty) /\ FeeRate \in Int
BY FeeRateAssumption, SizeFacts, ProductType DEF FeeOf

LEMMA PositionAtFacts ==
    ASSUME NEW fs, AreFills(fs)
    PROVE  /\ PositionAt(fs, 0) = 0
           /\ \A k \in 0..Len(fs) : PositionAt(fs, k) \in Int
           /\ \A k \in 1..Len(fs) : PositionAt(fs, k) = PositionAt(fs, k - 1) + fs[k].qty
           /\ Position(fs) = PositionAt(fs, Len(fs))
           /\ \A k \in 0..Len(fs) : Position(SubSeq(fs, 1, k)) = PositionAt(fs, k)
<1>. DEFINE n == Len(fs)
            f == QtyOf(fs)
<1>1. /\ n \in Nat /\ DOMAIN fs = 1..n /\ DOMAIN f = 1..n
      /\ \A i \in 1..n : f[i] = fs[i].qty /\ f[i] \in Int
  BY FillsFacts DEF QtyOf
<1>. HIDE DEF n, f
<1>2. ASSUME NEW k \in 0..n PROVE PrefixSum(f, k) \in Int
  <2>1. k \in Nat /\ \A i \in 1..k : f[i] \in Int
    BY <1>1
  <2>. QED  BY <2>1, PrefixSumType
<1>3. ASSUME NEW k \in 1..n PROVE PrefixSum(f, k) = PrefixSum(f, k - 1) + fs[k].qty
  <2>1. k - 1 \in Nat /\ (k - 1) + 1 = k /\ \A i \in 1..k : f[i] \in Int
    BY <1>1
  <2>2. PrefixSum(f, (k - 1) + 1) = PrefixSum(f, k - 1) + f[(k - 1) + 1]
    BY <2>1, PrefixSumNext
  <2>. QED  BY <1>1, <2>1, <2>2
<1>4. Position(fs) = PrefixSum(f, n)
  BY <1>1 DEF Position, SumFunction, PrefixSum, f, QtyOf
<1>5. ASSUME NEW k \in 0..n PROVE Position(SubSeq(fs, 1, k)) = PrefixSum(f, k)
  <2>. DEFINE s == SubSeq(fs, 1, k)
              g == [i \in DOMAIN s |-> s[i].qty]
  <2>1. DOMAIN s = 1..k /\ \A i \in 1..k : s[i] = fs[i]
    <3>1. PICK S : fs \in Seq(S)
      BY DEF AreFills
    <3>2. k \in 0..Len(fs)
      BY DEF n
    <3>. HIDE DEF n
    <3>. QED  BY <3>1, <3>2
  <2>2. DOMAIN g = 1..k /\ \A i \in 1..k : g[i] = f[i]
    BY <1>1, <2>1
  <2>3. Position(s) = PrefixSum(g, k)
    <3>1. Position(s) = SumFunction(g)
      BY DEF Position
    <3>. HIDE DEF g, s
    <3>. QED  BY <2>2, <3>1 DEF SumFunction, PrefixSum
  <2>4. PrefixSum(g, k) = PrefixSum(f, k)
    <3>. HIDE DEF g, s
    <3>. QED  BY <2>2, PrefixSumSame
  <2>. QED  BY <2>3, <2>4
<1>. QED  BY <1>2, <1>3, <1>4, <1>5, PrefixSumZero DEF PositionAt, f, n

LEMMA CashAtFacts ==
    ASSUME NEW fs, AreFills(fs)
    PROVE  /\ CashAt(fs, 0) = 0
           /\ \A k \in 0..Len(fs) : CashAt(fs, k) \in Int
           /\ \A k \in 1..Len(fs) :
                 CashAt(fs, k) = CashAt(fs, k - 1) - fs[k].qty * fs[k].price - FeeOf(fs[k])
           /\ CashOf(fs) = CashAt(fs, Len(fs))
<1>. DEFINE n == Len(fs)
            f == PaidOf(fs)
<1>1. /\ n \in Nat /\ DOMAIN fs = 1..n /\ DOMAIN f = 1..n
      /\ \A i \in 1..n : f[i] = -(fs[i].qty * fs[i].price) - FeeOf(fs[i])
  BY FillsFacts DEF PaidOf
<1>2. \A i \in 1..n : fs[i].qty * fs[i].price \in Int /\ FeeOf(fs[i]) \in Int
  BY FeeType, ProductType, FillsFacts
<1>3. \A i \in 1..n : f[i] \in Int
  BY <1>1, <1>2
<1>. HIDE DEF n, f
<1>4. ASSUME NEW k \in 0..n PROVE PrefixSum(f, k) \in Int
  <2>1. k \in Nat /\ \A i \in 1..k : f[i] \in Int
    BY <1>1, <1>3
  <2>. QED  BY <2>1, PrefixSumType
<1>5. ASSUME NEW k \in 1..n
      PROVE  PrefixSum(f, k) = PrefixSum(f, k - 1) - fs[k].qty * fs[k].price - FeeOf(fs[k])
  <2>1. k - 1 \in Nat /\ (k - 1) + 1 = k /\ k - 1 \in 0..n /\ \A i \in 1..k : f[i] \in Int
    BY <1>1, <1>3
  <2>2. PrefixSum(f, (k - 1) + 1) = PrefixSum(f, k - 1) + f[(k - 1) + 1]
    BY <2>1, PrefixSumNext
  <2>3. PrefixSum(f, k - 1) \in Int
    BY <1>4, <2>1
  <2>. DEFINE a == PrefixSum(f, k - 1)
              b == fs[k].qty * fs[k].price
              c == FeeOf(fs[k])
  <2>4. PrefixSum(f, k) = a + (-b - c) /\ a \in Int /\ b \in Int /\ c \in Int
    BY <1>1, <1>2, <2>1, <2>2, <2>3
  <2>. HIDE DEF a, b, c
  <2>5. PrefixSum(f, k) = a - b - c
    BY <2>4
  <2>. QED  BY <2>5 DEF a, b, c
<1>6. CashOf(fs) = PrefixSum(f, n)
  BY <1>1 DEF CashOf, SumFunction, PrefixSum, f, PaidOf
<1>. QED  BY <1>4, <1>5, <1>6, PrefixSumZero DEF CashAt, f, n

-----------------------------------------------------------------------------
\* a has the trade open, and the results so far, after each number of fills.
TradesAfter(fs, a) ==
    a = [k \in 0..Len(fs) |-> IF k = 0 THEN NoTrades ELSE TradeStep(a[k - 1], fs[k])]

\* The fold has a value: by the least number of fills after which it had none.
LEMMA TradesExist ==
    ASSUME NEW fs, Len(fs) \in Nat
    PROVE  \E a : TradesAfter(fs, a) /\ TradesOf(fs) = a[Len(fs)]
<1>. DEFINE n == Len(fs)
            Upto_(m, g) == \A k \in 0..m :
                              g[k] = IF k = 0 THEN NoTrades ELSE TradeStep(g[k - 1], fs[k])
            C == {m \in 0..n : ~\E g : Upto_(m, g)}
<1>1. C = {}
  <2>. SUFFICES ASSUME C # {} PROVE FALSE
    OBVIOUS
  <2>0. n \in Nat
    OBVIOUS
  <2>1. PICK m \in C : \A k \in C : m <= k
    <3>1. C \subseteq Nat
      OBVIOUS
    <3>. HIDE DEF C
    <3>. QED  BY <3>1, LeastNatural
  <2>2. m # 0
    <3>1. Upto_(0, [k \in 0..n |-> NoTrades])
      OBVIOUS
    <3>. QED  BY <2>1, <3>1
  <2>. HIDE DEF n
  <2>3. m \in 1..n /\ m - 1 \in 0..n /\ m - 1 \notin C
    <3>1. m \in 0..n
      OBVIOUS
    <3>. HIDE DEF C
    <3>. QED  BY <2>0, <2>1, <2>2, <3>1
  <2>4. PICK g : Upto_(m - 1, g)
    BY <2>3
  <2>. DEFINE h == [k \in 0..n |-> IF k < m THEN g[k] ELSE TradeStep(g[m - 1], fs[m])]
  <2>5. Upto_(m, h)
    <3>. SUFFICES ASSUME NEW k \in 0..m
                  PROVE  h[k] = IF k = 0 THEN NoTrades ELSE TradeStep(h[k - 1], fs[k])
      OBVIOUS
    <3>1. k \in 0..n /\ (k # 0 => k - 1 \in 0..n /\ k - 1 < m)
      <4>. HIDE DEF C
      <4>. QED  BY <2>0, <2>3
    <3>4. k # 0 => h[k - 1] = g[k - 1]
      BY <3>1
    <3>2. CASE k < m
      <4>1. k \in 0..m - 1 /\ h[k] = g[k]
        BY <2>3, <3>1, <3>2
      <4>. QED  BY <2>4, <3>1, <3>4, <4>1
    <3>3. CASE k = m
      <4>1. h[k] = TradeStep(g[m - 1], fs[m]) /\ k # 0
        BY <2>3, <3>1, <3>3
      <4>. QED  BY <3>1, <3>3, <3>4, <4>1
    <3>. QED  BY <2>3, <3>2, <3>3
  <2>. QED  BY <2>1, <2>5
<1>2. PICK g : Upto_(n, g)
  <2>1. n \in 0..n
    OBVIOUS
  <2>. QED  BY <1>1, <2>1
<1>. DEFINE a == [k \in 0..n |-> g[k]]
<1>3. \A k \in 0..n : a[k] = IF k = 0 THEN NoTrades ELSE TradeStep(a[k - 1], fs[k])
  <2>1. \A k \in 0..n : k # 0 => k - 1 \in 0..n
    OBVIOUS
  <2>. QED  BY <1>2, <2>1
<1>4. TradesAfter(fs, a)
  <2>. DEFINE b == [k \in 0..n |-> IF k = 0 THEN NoTrades ELSE TradeStep(a[k - 1], fs[k])]
  <2>1. \A k \in 0..n : a[k] = b[k]
    BY <1>3
  <2>2. a = [k \in 0..n |-> a[k]] /\ b = [k \in 0..n |-> b[k]]
    OBVIOUS
  <2>. HIDE DEF a, b
  <2>3. a = b
    BY <2>1, <2>2
  <2>. QED  BY <2>3 DEF b, TradesAfter
<1>5. TradesAfter(fs, CHOOSE x : TradesAfter(fs, x))
  <2>. HIDE DEF a
  <2>. QED  BY <1>4
<1>6. TradesOf(fs) = (CHOOSE x : TradesAfter(fs, x))[Len(fs)]
  BY DEF TradesOf, TradesAfter
<1>. QED  BY <1>5, <1>6

-----------------------------------------------------------------------------
LEMMA Distribute ==
    \A a, b, x \in Int : /\ (a + b) * x = a * x + b * x /\ (a - b) * x = a * x - b * x
                         /\ x * (a - b) = x * a - x * b /\ (-a) * x = -(a * x)
                         /\ a * x = x * a /\ 0 * x = 0 /\ 1 * x = x
OBVIOUS

LEMMA WholeShare == \A s \in Nat \ {0}, c \in Int : (s * c) \div s = c
OBVIOUS

LEMMA SumFunctionType == \A s \in Seq(Int) : SumFunction(s) \in Int
<1>. TAKE s \in Seq(Int)
<1>1. 0 \in Int
  OBVIOUS
<1>. QED  BY <1>1, SumAppend

\* The open trade t of a book of q units and c cash: its notional and its fees
\* are what the results of the closed trades do not account for.
Accounts(t, q, c) ==
    /\ t \in [qty : Int, cost : Int, fees : Int, pnl : Seq(Int)] /\ t.qty = q
    /\ q = 0 => t.cost = 0 /\ t.fees = 0
    /\ c = TotalPnl(t) - Sign(q) * t.cost - t.fees

LEMMA SignFacts ==
    ASSUME NEW q \in Int
    PROVE  /\ (q > 0 => Sign(q) = 1) /\ (q < 0 => Sign(q) = -1) /\ (q = 0 => Sign(q) = 0)
           /\ \A c \in Int : /\ (q > 0 => Sign(q) * c = c) /\ (q < 0 => Sign(q) * c = -c)
                             /\ (q = 0 => Sign(q) * c = 0)
BY DEF Sign

LEMMA AddingAccounts ==
    ASSUME NEW t, NEW q, NEW c, Accounts(t, q, c),
           NEW f, f.qty \in Int \ {0}, f.price \in Int, Adds(q, f)
    PROVE  Accounts(AddToTrade(t, f), q + f.qty, c - f.qty * f.price - FeeOf(f))
<1>. DEFINE u == AddToTrade(t, f)
            x == f.qty
            w == Size(x) * f.price
            fee == FeeOf(f)
            p == TotalPnl(t)
<1>1. /\ t.qty = q /\ q \in Int /\ t.cost \in Int /\ t.fees \in Int /\ t.pnl \in Seq(Int)
      /\ q = 0 => t.cost = 0 /\ t.fees = 0
      /\ c = p - Sign(q) * t.cost - t.fees
  BY DEF Accounts
<1>2. u = [qty |-> q + x, cost |-> t.cost + w, fees |-> t.fees + fee, pnl |-> t.pnl]
  <2>1. t \in [qty : Int, cost : Int, fees : Int, pnl : Seq(Int)]
    BY DEF Accounts
  <2>. HIDE DEF w, fee
  <2>2. u = [t EXCEPT !.qty = @ + x, !.cost = @ + w, !.fees = @ + fee]
    BY DEF AddToTrade, w, fee
  <2>. HIDE DEF u
  <2>. QED  BY <1>1, <2>1, <2>2
<1>3. TotalPnl(u) = p /\ p \in Int
  <2>1. TotalPnl(u) = p
    BY <1>2 DEF TotalPnl
  <2>2. SumFunction(t.pnl) \in Int
    BY <1>1, SumFunctionType
  <2>. QED  BY <2>1, <2>2 DEF TotalPnl
<1>4. x \in Int /\ x # 0 /\ w \in Int /\ fee \in Int /\ x * f.price \in Int
  BY FeeType, SizeFacts, ProductType
<1>5. (x > 0 => w = x * f.price) /\ (x < 0 => w = -(x * f.price))
  <2>1. (x > 0 => Size(x) = x) /\ (x < 0 => Size(x) = -x)
    BY SizeFacts
  <2>. QED  BY <2>1, Distribute
<1>6. (q > 0 <=> x > 0) \/ q = 0
  BY DEF Adds
<1>. DEFINE y == x * f.price
            q2 == q + x
            k == t.cost
            e == t.fees
<1>7. /\ (x > 0 => q + x > 0) /\ (x < 0 => q + x < 0)
      /\ (x > 0 => q >= 0) /\ (x < 0 => q <= 0)
  BY <1>1, <1>4, <1>6
<1>8. q2 \in Int /\ k + w \in Int
  BY <1>1, <1>4
<1>9. /\ (q2 > 0 => Sign(q2) * (k + w) = k + w) /\ (q2 < 0 => Sign(q2) * (k + w) = -(k + w))
  BY <1>8, SignFacts
<1>10. /\ (q > 0 => Sign(q) * k = k) /\ (q < 0 => Sign(q) * k = -k) /\ (q = 0 => Sign(q) * k = 0)
  BY <1>1, SignFacts
<1>11. c - y - fee = p - Sign(q2) * (k + w) - (e + fee)
  <2>. DEFINE s1 == Sign(q) * k
              s2 == Sign(q2) * (k + w)
  <2>1. /\ c = p - s1 - e /\ (x > 0 => w = y) /\ (x < 0 => w = -y)
        /\ (q2 > 0 => s2 = k + w) /\ (q2 < 0 => s2 = -(k + w))
        /\ (q > 0 => s1 = k) /\ (q < 0 => s1 = -k) /\ (q = 0 => s1 = 0 /\ k = 0)
        /\ p \in Int /\ e \in Int /\ k \in Int /\ w \in Int /\ y \in Int /\ fee \in Int
        /\ x \in Int /\ x # 0 /\ q \in Int /\ q2 = q + x
    BY <1>1, <1>3, <1>4, <1>5, <1>9, <1>10
  <2>. HIDE DEF s1, s2, y, fee, w, p, k, e, q2, x
  <2>2. CASE x > 0
    <3>1. q2 > 0 /\ q >= 0
      BY <1>7, <2>2 DEF q2
    <3>2. s1 = k /\ s2 = k + w /\ w = y
      BY <2>1, <2>2, <3>1
    <3>. QED  BY <2>1, <3>2 DEF s1, s2
  <2>3. CASE x < 0
    <3>1. q2 < 0 /\ q <= 0
      BY <1>7, <2>3 DEF q2
    <3>2. s1 = -k /\ s2 = -(k + w) /\ w = -y
      BY <2>1, <2>3, <3>1
    <3>. QED  BY <2>1, <3>2 DEF s1, s2
  <2>. QED  BY <2>1, <2>2, <2>3
<1>12. q + x # 0
  BY <1>4, <1>7
<1>. HIDE DEF u, w, fee, p
<1>13. u \in [qty : Int, cost : Int, fees : Int, pnl : Seq(Int)]
  BY <1>1, <1>2, <1>4
<1>14. /\ u.qty = q + x /\ u.cost = t.cost + w /\ u.fees = t.fees + fee /\ u.pnl = t.pnl
  BY <1>2
<1>15. t.fees + fee \in Int
  BY <1>1, <1>4
<1>. QED  BY <1>1, <1>3, <1>8, <1>11, <1>12, <1>13, <1>14, <1>15 DEF Accounts, u, fee

LEMMA ClosingAccounts ==
    ASSUME NEW t, NEW q, NEW c, Accounts(t, q, c),
           NEW f, f.qty \in Int \ {0}, f.price \in Int, ~Adds(q, f), ~ClosesPart(q, f)
    PROVE  Accounts(CloseTrade(t, f), q + f.qty, c - f.qty * f.price - FeeOf(f))
<1>. DEFINE u == CloseTrade(t, f)
            x == f.qty
            z == f.price
            n == Size(q)
            rest == Size(x) - n
            e == t.fees
            k == t.cost
            p == TotalPnl(t)
            g == IF q > 0 THEN n * z - k ELSE k - n * z
            r == g - e - FeeRate * n
<1>1. /\ t.qty = q /\ q \in Int /\ k \in Int /\ e \in Int /\ t.pnl \in Seq(Int)
      /\ c = p - Sign(q) * k - e
  BY DEF Accounts
<1>2. q # 0 /\ ~(q > 0 <=> x > 0) /\ x \in Int /\ x # 0 /\ z \in Int
  BY DEF Adds
<1>3. /\ n \in Nat \ {0} /\ Size(x) \in Nat /\ n <= Size(x)
      /\ (q > 0 => n = q /\ Size(x) = -x) /\ (q < 0 => n = -q /\ Size(x) = x)
  <2>1. n \in Nat /\ n > 0 /\ Size(x) \in Nat
    BY <1>1, <1>2, SizeFacts
  <2>2. ~(Size(x) < n)
    BY DEF ClosesPart
  <2>3. /\ (q > 0 => n = q) /\ (q < 0 => n = -q)
        /\ (x > 0 => Size(x) = x) /\ (x < 0 => Size(x) = -x)
    BY <1>1, <1>2, SizeFacts
  <2>. HIDE DEF n
  <2>. QED  BY <1>1, <1>2, <2>1, <2>2, <2>3
<1>4. Lesser(Size(t.qty), Size(f.qty)) = n
  BY <1>1, <1>3 DEF Lesser
<1>5. (n * k) \div n = k /\ (e * n) \div n = e
  <2>1. e * n = n * e
    BY <1>1, <1>3
  <2>. HIDE DEF n, k, e
  <2>. QED  BY <1>1, <1>3, <2>1, WholeShare
<1>6. ClosedPnl(t, f, n) = r
  <2>1. Size(t.qty) = n /\ t.qty = q
    BY <1>1
  <2>. HIDE DEF n
  <2>. QED  BY <1>5, <2>1 DEF ClosedPnl
<1>7. rest \in Nat /\ n * z \in Int /\ FeeRate * n \in Int /\ rest * z \in Int
      /\ FeeRate * rest \in Int /\ FeeRate \in Int /\ g \in Int /\ r \in Int
  <2>. HIDE DEF n
  <2>1. rest \in Nat /\ FeeRate \in Int
    BY <1>3, FeeRateAssumption
  <2>2. n * z \in Int /\ FeeRate * n \in Int
    BY <1>2, <1>3, <2>1, ProductType
  <2>3. rest * z \in Int /\ FeeRate * rest \in Int
    <3>. HIDE DEF rest
    <3>. QED  BY <1>2, <2>1, ProductType
  <2>4. g \in Int
    BY <1>1, <2>2
  <2>. HIDE DEF g
  <2>. QED  BY <1>1, <2>1, <2>2, <2>3, <2>4
<1>8. u = [ qty  |-> IF rest > 0 THEN q + x ELSE 0, cost |-> rest * z,
            fees |-> FeeRate * rest, pnl |-> Append(t.pnl, r) ]
  <2>. HIDE DEF n, r
  <2>. QED  BY <1>1, <1>4, <1>6 DEF CloseTrade
<1>. HIDE DEF u, g
<1>9. (rest = 0 => q + x = 0) /\ (rest > 0 => q + x # 0 /\ (q + x > 0 <=> q < 0))
  <2>. HIDE DEF n
  <2>. QED  BY <1>1, <1>2, <1>3
<1>10. TotalPnl(u) = p + r /\ p \in Int
  <2>. HIDE DEF r, rest
  <2>1. p = SumFunction(t.pnl) /\ SumFunction(t.pnl) \in Int
    BY <1>1, SumFunctionType DEF TotalPnl
  <2>2. TotalPnl(u) = SumFunction(Append(t.pnl, r))
    BY <1>8 DEF TotalPnl
  <2>. QED  BY <1>1, <1>7, <2>1, <2>2, SumAppend
<1>11. u.qty = q + x
  <2>. HIDE DEF r
  <2>. QED  BY <1>7, <1>8, <1>9
<1>12. (rest = 0 => rest * z = 0 /\ FeeRate * rest = 0)
  BY <1>2, <1>7
<1>13. FeeOf(f) = FeeRate * n + FeeRate * rest
  <2>1. FeeOf(f) = FeeRate * Size(x)
    BY DEF FeeOf
  <2>2. Size(x) = n + rest
    <3>. HIDE DEF n
    <3>. QED  BY <1>3
  <2>. HIDE DEF rest, n
  <2>3. n \in Int /\ rest \in Int
    BY <1>3, <1>7
  <2>. QED  BY <1>7, <2>1, <2>2, <2>3, Distribute
<1>14. (q > 0 => x * z = -(n * z) - rest * z) /\ (q < 0 => x * z = n * z + rest * z)
  <2>1. (q > 0 => x = -(n + rest)) /\ (q < 0 => x = n + rest)
    <3>. HIDE DEF n
    <3>. QED  BY <1>3
  <2>. HIDE DEF n, rest
  <2>2. n \in Int /\ rest \in Int /\ n + rest \in Int
    BY <1>3, <1>7
  <2>3. (n + rest) * z = n * z + rest * z /\ (-(n + rest)) * z = -((n + rest) * z)
    BY <1>2, <2>2, Distribute
  <2>4. n * z \in Int /\ rest * z \in Int
    BY <1>7
  <2>. QED  BY <2>1, <2>3, <2>4
<1>15. Sign(q + x) * (rest * z) = IF q > 0 THEN -(rest * z) ELSE rest * z
  <2>. DEFINE w == rest * z
  <2>1. q + x \in Int /\ w \in Int /\ (q > 0 \/ q < 0)
    BY <1>1, <1>2, <1>7
  <2>2. /\ (q + x > 0 => Sign(q + x) * w = w) /\ (q + x < 0 => Sign(q + x) * w = -w)
        /\ (q + x = 0 => Sign(q + x) * w = 0)
    BY <2>1, SignFacts
  <2>3. rest \in Nat /\ (rest = 0 => w = 0)
    BY <1>7, <1>12
  <2>. HIDE DEF w, rest
  <2>. QED  BY <1>1, <1>2, <1>9, <2>1, <2>2, <2>3 DEF w
<1>16. Sign(q) * k = IF q > 0 THEN k ELSE -k
  BY <1>1, <1>2, SignFacts
<1>17. c - x * z - FeeOf(f) = (p + r) - Sign(q + x) * (rest * z) - FeeRate * rest
  <2>. DEFINE a == n * z
              b == rest * z
              d == FeeRate * n
              h == FeeRate * rest
              y == x * z
              s1 == Sign(q) * k
              s2 == Sign(q + x) * b
              fee == FeeOf(f)
  <2>1. /\ c = p - s1 - e /\ fee = d + h
        /\ (q > 0 => y = -a - b /\ s1 = k /\ s2 = -b /\ r = (a - k) - e - d)
        /\ (q < 0 => y = a + b /\ s1 = -k /\ s2 = b /\ r = (k - a) - e - d)
        /\ p \in Int /\ e \in Int /\ k \in Int /\ a \in Int /\ b \in Int /\ d \in Int /\ h \in Int
    BY <1>1, <1>2, <1>7, <1>10, <1>13, <1>14, <1>15, <1>16 DEF g
  <2>. HIDE DEF a, b, d, h, y, s1, s2, fee, r, p, e, k, rest, n, x, z
  <2>2. c - y - fee = (p + r) - s2 - h
    <3>1. CASE q > 0
      BY <2>1, <3>1
    <3>2. CASE q < 0
      BY <2>1, <3>2
    <3>. QED  BY <1>1, <1>2, <3>1, <3>2
  <2>. QED  BY <2>2 DEF b, h, y, s2, fee
<1>. HIDE DEF r, p, rest
<1>18. u \in [qty : Int, cost : Int, fees : Int, pnl : Seq(Int)]
  BY <1>1, <1>7, <1>8
<1>20. u.cost = rest * z /\ u.fees = FeeRate * rest
  BY <1>8
<1>19. q + x \in Int /\ (q + x = 0 => rest = 0)
  <2>1. rest \in Nat
    BY <1>7
  <2>. QED  BY <1>1, <1>2, <1>9, <2>1
<1>. QED  BY <1>7, <1>10, <1>11, <1>12, <1>17, <1>18, <1>19, <1>20 DEF Accounts, u

-----------------------------------------------------------------------------
\* Induction up to n, by the set G of the numbers a fact holds of.
LEMMA CountingUp ==
    ASSUME NEW n \in Nat, NEW G, 0 \in G, \A k \in 1..n : k - 1 \in G => k \in G
    PROVE  \A k \in 0..n : k \in G
<1>. DEFINE C == {k \in 0..n : k \notin G}
<1>1. SUFFICES ASSUME C # {} PROVE FALSE
  OBVIOUS
<1>2. C \subseteq Nat
  OBVIOUS
<1>3. PICK m \in C : \A k \in C : m <= k
  <2>. HIDE DEF C
  <2>. QED  BY <1>1, <1>2, LeastNatural
<1>4. m \in 0..n /\ m \notin G /\ m # 0
  OBVIOUS
<1>5. m \in 1..n /\ m - 1 \in 0..n /\ ~(m <= m - 1)
  <2>. HIDE DEF C
  <2>. QED  BY <1>4
<1>. QED  BY <1>3, <1>4, <1>5

LEMMA NothingAccounts == Accounts(NoTrades, 0, 0)
<1>1. SumFunction(<<>>) = 0
  BY SumEmpty DEF SumFunction
<1>2. <<>> \in Seq(Int) /\ Sign(0) * 0 = 0
  BY SignFacts
<1>. QED  BY <1>1, <1>2 DEF Accounts, NoTrades, TotalPnl

\* What the trades of a run account for, when no fill of it closed a part of
\* the position it met.
THEOREM TradesAccount ==
    ASSUME NEW fs, AreFills(fs), ~HasPartialClose(fs)
    PROVE  Accounts(TradesOf(fs), Position(fs), CashOf(fs))
<1>. DEFINE n == Len(fs)
<1>1. n \in Nat /\ DOMAIN fs = 1..n
  BY FillsFacts
<1>2. PICK a : TradesAfter(fs, a) /\ TradesOf(fs) = a[n]
  BY <1>1, TradesExist
<1>3. a[0] = NoTrades /\ \A k \in 1..n : a[k] = TradeStep(a[k - 1], fs[k])
  <2>1. a = [k \in 0..n |-> IF k = 0 THEN NoTrades ELSE TradeStep(a[k - 1], fs[k])]
    BY <1>2 DEF TradesAfter
  <2>2. 0 \in 0..n /\ \A k \in 1..n : k \in 0..n /\ k # 0
    BY <1>1
  <2>. HIDE DEF n
  <2>3. \A k \in 0..n : a[k] = IF k = 0 THEN NoTrades ELSE TradeStep(a[k - 1], fs[k])
    BY <2>1
  <2>. QED  BY <2>2, <2>3
<1>. DEFINE G == {k \in Nat : Accounts(a[k], PositionAt(fs, k), CashAt(fs, k))}
<1>4. 0 \in G
  BY <1>3, NothingAccounts, PositionAtFacts, CashAtFacts
<1>5. ASSUME NEW k \in 1..n, k - 1 \in G
      PROVE  k \in G
  <2>1. k \in Nat /\ k - 1 \in 0..n
    BY <1>1
  <2>. DEFINE q == PositionAt(fs, k - 1)
              f == fs[k]
  <2>2. Accounts(a[k - 1], q, CashAt(fs, k - 1))
    BY <1>5
  <2>3. f.qty \in Int \ {0} /\ f.price \in Int
    BY FillsFacts
  <2>4. ~ClosesPart(q, f)
    <3>1. Position(SubSeq(fs, 1, k - 1)) = q
      BY <2>1, PositionAtFacts
    <3>. QED  BY <1>1, <3>1 DEF HasPartialClose
  <2>5. /\ a[k] = TradeStep(a[k - 1], f)
        /\ PositionAt(fs, k) = q + f.qty
        /\ CashAt(fs, k) = CashAt(fs, k - 1) - f.qty * f.price - FeeOf(f)
    BY <1>3, PositionAtFacts, CashAtFacts
  <2>6. a[k - 1].qty = q
    BY <2>2 DEF Accounts
  <2>7. Accounts(a[k], PositionAt(fs, k), CashAt(fs, k))
    <3>. HIDE DEF q, f, n, G
    <3>1. CASE Adds(q, f)
      BY <2>2, <2>3, <2>5, <2>6, <3>1, AddingAccounts DEF TradeStep
    <3>2. CASE ~Adds(q, f)
      BY <2>2, <2>3, <2>4, <2>5, <2>6, <3>2, ClosingAccounts DEF TradeStep
    <3>. QED  BY <3>1, <3>2
  <2>. QED  BY <2>1, <2>7
<1>6. n \in G
  <2>. HIDE DEF n, G
  <2>1. n \in 0..n
    BY <1>1
  <2>. QED  BY <1>1, <1>4, <1>5, <2>1, CountingUp
<1>7. Position(fs) = PositionAt(fs, n) /\ CashOf(fs) = CashAt(fs, n)
  BY PositionAtFacts, CashAtFacts
<1>. QED  BY <1>2, <1>6, <1>7

-----------------------------------------------------------------------------
\* a has the lots open, and the pairs so far, after each number of fills.
LotsAfter(fs, a) ==
    a = [k \in 0..Len(fs) |-> IF k = 0 THEN NoLots ELSE PairFill(a[k - 1], fs[k])]

LEMMA LotsExist ==
    ASSUME NEW fs, Len(fs) \in Nat
    PROVE  \E a : LotsAfter(fs, a) /\ LotsOf(fs) = a[Len(fs)]
<1>. DEFINE n == Len(fs)
            Upto_(m, g) == \A k \in 0..m :
                              g[k] = IF k = 0 THEN NoLots ELSE PairFill(g[k - 1], fs[k])
            C == {m \in 0..n : ~\E g : Upto_(m, g)}
<1>1. C = {}
  <2>. SUFFICES ASSUME C # {} PROVE FALSE
    OBVIOUS
  <2>0. n \in Nat
    OBVIOUS
  <2>1. PICK m \in C : \A k \in C : m <= k
    <3>1. C \subseteq Nat
      OBVIOUS
    <3>. HIDE DEF C
    <3>. QED  BY <3>1, LeastNatural
  <2>2. m # 0
    <3>1. Upto_(0, [k \in 0..n |-> NoLots])
      OBVIOUS
    <3>. QED  BY <2>1, <3>1
  <2>. HIDE DEF n
  <2>3. m \in 1..n /\ m - 1 \in 0..n /\ m - 1 \notin C
    <3>1. m \in 0..n
      OBVIOUS
    <3>. HIDE DEF C
    <3>. QED  BY <2>0, <2>1, <2>2, <3>1
  <2>4. PICK g : Upto_(m - 1, g)
    BY <2>3
  <2>. DEFINE h == [k \in 0..n |-> IF k < m THEN g[k] ELSE PairFill(g[m - 1], fs[m])]
  <2>5. Upto_(m, h)
    <3>. SUFFICES ASSUME NEW k \in 0..m
                  PROVE  h[k] = IF k = 0 THEN NoLots ELSE PairFill(h[k - 1], fs[k])
      OBVIOUS
    <3>1. k \in 0..n /\ (k # 0 => k - 1 \in 0..n /\ k - 1 < m)
      <4>. HIDE DEF C
      <4>. QED  BY <2>0, <2>3
    <3>4. k # 0 => h[k - 1] = g[k - 1]
      BY <3>1
    <3>2. CASE k < m
      <4>1. k \in 0..m - 1 /\ h[k] = g[k]
        BY <2>3, <3>1, <3>2
      <4>. QED  BY <2>4, <3>1, <3>4, <4>1
    <3>3. CASE k = m
      <4>1. h[k] = PairFill(g[m - 1], fs[m]) /\ k # 0
        BY <2>3, <3>1, <3>3
      <4>. QED  BY <3>1, <3>3, <3>4, <4>1
    <3>. QED  BY <2>3, <3>2, <3>3
  <2>. QED  BY <2>1, <2>5
<1>2. PICK g : Upto_(n, g)
  <2>1. n \in 0..n
    OBVIOUS
  <2>. QED  BY <1>1, <2>1
<1>. DEFINE a == [k \in 0..n |-> g[k]]
<1>3. \A k \in 0..n : a[k] = IF k = 0 THEN NoLots ELSE PairFill(a[k - 1], fs[k])
  <2>1. \A k \in 0..n : k # 0 => k - 1 \in 0..n
    OBVIOUS
  <2>. QED  BY <1>2, <2>1
<1>4. LotsAfter(fs, a)
  <2>. DEFINE b == [k \in 0..n |-> IF k = 0 THEN NoLots ELSE PairFill(a[k - 1], fs[k])]
  <2>1. \A k \in 0..n : a[k] = b[k]
    BY <1>3
  <2>2. a = [k \in 0..n |-> a[k]] /\ b = [k \in 0..n |-> b[k]]
    OBVIOUS
  <2>. HIDE DEF a, b
  <2>3. a = b
    BY <2>1, <2>2
  <2>. QED  BY <2>3 DEF b, LotsAfter
<1>5. LotsAfter(fs, CHOOSE x : LotsAfter(fs, x))
  <2>. HIDE DEF a
  <2>. QED  BY <1>4
<1>6. LotsOf(fs) = (CHOOSE x : LotsAfter(fs, x))[Len(fs)]
  BY DEF LotsOf, LotsAfter
<1>. QED  BY <1>5, <1>6

\* Lots held for a position of q units: they add up to it, each on its side.
AreLots(lots, q) ==
    /\ lots \in Seq([qty : Int \ {0}, price : Int])
    /\ q = Position(lots)
    /\ \A j \in DOMAIN lots : Sign(lots[j].qty) = Sign(q)

\* Units held by the first k lots.
HeldUpTo(lots, k) == Size(PositionAt(lots, k))

LEMMA LotsAreFills ==
    ASSUME NEW lots, lots \in Seq([qty : Int \ {0}, price : Int])
    PROVE  /\ AreFills(lots) /\ HeldIn(lots) = Position(lots)
           /\ Len(lots) \in Nat /\ DOMAIN lots = 1..Len(lots)
           /\ \A j \in 1..Len(lots) : lots[j] \in [qty : Int \ {0}, price : Int]
<1>. DEFINE S == [qty : Int \ {0}, price : Int]
<1>1. AreFills(lots)
  <2>1. \A f \in S : f.qty \in Int \ {0} /\ f.price \in Int
    OBVIOUS
  <2>. HIDE DEF S
  <2>2. lots \in Seq(S)
    BY DEF S
  <2>. QED  BY <2>1, <2>2 DEF AreFills
<1>2. HeldIn(lots) = Position(lots)
  BY Zenon DEF HeldIn, Position
<1>3. /\ Len(lots) \in Nat /\ DOMAIN lots = 1..Len(lots)
      /\ \A j \in 1..Len(lots) : lots[j] \in S
  <2>1. lots \in Seq(S)
    OBVIOUS
  <2>. HIDE DEF S
  <2>. QED  BY <2>1
<1>. QED  BY <1>1, <1>2, <1>3

LEMMA FunctionIsSequence ==
    ASSUME NEW n \in Nat, NEW S, NEW f, f = [j \in 1..n |-> f[j]], \A j \in 1..n : f[j] \in S
    PROVE  f \in Seq(S) /\ Len(f) = n /\ DOMAIN f = 1..n
<1>1. f \in [1..n -> S]
  OBVIOUS
<1>2. f \in Seq(S)
  BY <1>1
<1>. QED  BY <1>1, <1>2

LEMMA SignSize ==
    ASSUME NEW q \in Int, NEW x \in Int, x # 0, Sign(x) = Sign(q)
    PROVE  /\ (q > 0 /\ x > 0) \/ (q < 0 /\ x < 0)
           /\ (q > 0 => Size(x) = x) /\ (q < 0 => Size(x) = -x)
           /\ Size(x) \in Nat \ {0}
BY DEF Sign, Size

\* Each lot adds its units to what the lots before it hold.
LEMMA HeldUpToFacts ==
    ASSUME NEW lots, NEW q, AreLots(lots, q)
    PROVE  /\ HeldUpTo(lots, 0) = 0 /\ HeldUpTo(lots, Len(lots)) = Size(q)
           /\ q \in Int
           /\ \A k \in 0..Len(lots) :
                 /\ HeldUpTo(lots, k) \in Nat
                 /\ q > 0 => PositionAt(lots, k) = HeldUpTo(lots, k)
                 /\ q < 0 => PositionAt(lots, k) = -HeldUpTo(lots, k)
           /\ \A k \in 1..Len(lots) :
                 /\ q # 0 /\ Size(lots[k].qty) \in Nat \ {0}
                 /\ HeldUpTo(lots, k) = HeldUpTo(lots, k - 1) + Size(lots[k].qty)
<1>. DEFINE n == Len(lots)
            H(k) == PositionAt(lots, k)
<1>1. /\ AreFills(lots) /\ n \in Nat /\ DOMAIN lots = 1..n
      /\ \A j \in 1..n : lots[j].qty \in Int /\ lots[j].qty # 0
  BY LotsAreFills DEF AreLots
<1>2. /\ H(0) = 0 /\ H(n) = q
      /\ \A k \in 0..n : H(k) \in Int
      /\ \A k \in 1..n : H(k) = H(k - 1) + lots[k].qty
  BY <1>1, PositionAtFacts DEF AreLots
<1>3. \A k \in 1..n : Sign(lots[k].qty) = Sign(q)
  BY <1>1 DEF AreLots
<1>. HIDE DEF n, H
<1>4. q \in Int
  <2>1. n \in 0..n
    BY <1>1
  <2>. QED  BY <1>2, <2>1
<1>5. \A k \in 1..n : /\ (q > 0 /\ lots[k].qty > 0) \/ (q < 0 /\ lots[k].qty < 0)
                      /\ (q > 0 => Size(lots[k].qty) = lots[k].qty)
                      /\ (q < 0 => Size(lots[k].qty) = -lots[k].qty)
                      /\ Size(lots[k].qty) \in Nat \ {0}
  BY <1>1, <1>3, <1>4, SignSize
<1>. DEFINE G == {k \in Nat : (q > 0 => H(k) >= 0) /\ (q < 0 => H(k) <= 0)}
<1>6. \A k \in 0..n : k \in G
  <2>1. 0 \in G
    BY <1>2, <1>4
  <2>2. ASSUME NEW k \in 1..n, k - 1 \in G
        PROVE  k \in G
    <3>1. k \in Nat /\ k - 1 \in 0..n
      BY <1>1
    <3>. DEFINE h == H(k - 1)
                x == lots[k].qty
    <3>2. /\ (q > 0 => h >= 0) /\ (q < 0 => h <= 0) /\ h \in Int /\ x \in Int /\ H(k) = h + x
          /\ (q > 0 /\ x > 0) \/ (q < 0 /\ x < 0)
      BY <1>1, <1>2, <1>5, <2>2, <3>1
    <3>. HIDE DEF h, x
    <3>3. (q > 0 => H(k) >= 0) /\ (q < 0 => H(k) <= 0)
      BY <1>4, <3>2
    <3>. QED  BY <3>1, <3>3
  <2>. HIDE DEF G
  <2>. QED  BY <1>1, <2>1, <2>2, CountingUp
<1>7. \A k \in 0..n : /\ (q > 0 => Size(H(k)) = H(k)) /\ (q < 0 => Size(H(k)) = -H(k))
                      /\ Size(H(k)) \in Nat
  <2>. TAKE k \in 0..n
  <2>1. k \in G /\ H(k) \in Int
    BY <1>2, <1>6
  <2>2. (q > 0 => H(k) >= 0) /\ (q < 0 => H(k) <= 0)
    BY <2>1
  <2>. QED  BY <1>4, <2>1, <2>2, SizeFacts
<1>8. ASSUME NEW k \in 1..n
      PROVE  q # 0 /\ Size(lots[k].qty) \in Nat \ {0} /\ Size(H(k)) = Size(H(k - 1)) + Size(lots[k].qty)
  <2>1. k \in 0..n /\ k - 1 \in 0..n
    BY <1>1
  <2>. DEFINE h == H(k - 1)
              x == lots[k].qty
              g == H(k)
  <2>2. /\ h \in Int /\ x \in Int /\ g = h + x /\ (q > 0 \/ q < 0)
        /\ (q > 0 => Size(h) = h /\ Size(x) = x /\ Size(g) = g)
        /\ (q < 0 => Size(h) = -h /\ Size(x) = -x /\ Size(g) = -g)
        /\ Size(x) \in Nat \ {0}
    BY <1>1, <1>2, <1>5, <1>7, <2>1
  <2>. HIDE DEF h, x, g
  <2>3. q # 0 /\ Size(g) = Size(h) + Size(x)
    BY <1>4, <2>2
  <2>. QED  BY <2>2, <2>3 DEF h, x, g
<1>9. \A k \in 0..n : HeldUpTo(lots, k) = Size(H(k)) /\ PositionAt(lots, k) = H(k)
  BY DEF HeldUpTo, H
<1>10. Size(0) = 0
  BY SizeFacts
<1>11. 0 \in 0..n /\ n \in 0..n /\ \A k \in 1..n : k \in 0..n /\ k - 1 \in 0..n
  BY <1>1
<1>12. \A k \in 0..n : /\ HeldUpTo(lots, k) \in Nat
                       /\ q > 0 => PositionAt(lots, k) = HeldUpTo(lots, k)
                       /\ q < 0 => PositionAt(lots, k) = -HeldUpTo(lots, k)
  <2>. TAKE k \in 0..n
  <2>1. HeldUpTo(lots, k) = Size(H(k)) /\ PositionAt(lots, k) = H(k) /\ H(k) \in Int
    BY <1>2, <1>9
  <2>2. /\ (q > 0 => Size(H(k)) = H(k)) /\ (q < 0 => Size(H(k)) = -H(k))
        /\ Size(H(k)) \in Nat
    BY <1>7
  <2>. DEFINE b == Size(H(k))
              h == H(k)
  <2>3. /\ HeldUpTo(lots, k) = b /\ PositionAt(lots, k) = h /\ h \in Int /\ b \in Nat
        /\ (q > 0 => b = h) /\ (q < 0 => b = -h)
    BY <2>1, <2>2
  <2>. HIDE DEF b, h
  <2>. QED  BY <1>4, <2>3
<1>13. \A k \in 1..n : /\ q # 0 /\ Size(lots[k].qty) \in Nat \ {0}
                       /\ HeldUpTo(lots, k) = HeldUpTo(lots, k - 1) + Size(lots[k].qty)
  BY <1>8, <1>9, <1>11
<1>14. HeldUpTo(lots, 0) = 0 /\ HeldUpTo(lots, n) = Size(q)
  BY <1>2, <1>9, <1>10, <1>11
<1>. QED  BY <1>4, <1>12, <1>13, <1>14 DEF n

\* What the lots before one of them hold grows from lot to lot.
LEMMA HeldUpToGrows ==
    ASSUME NEW lots, NEW q, AreLots(lots, q), NEW k \in 0..Len(lots), NEW i \in 0..k
    PROVE  HeldUpTo(lots, i) <= HeldUpTo(lots, k)
<1>. DEFINE n == Len(lots)
            B(m) == HeldUpTo(lots, m)
            G == {m \in Nat : i <= m => B(i) <= B(m)}
<1>1. /\ n \in Nat /\ \A m \in 0..n : B(m) \in Nat
      /\ \A m \in 1..n : B(m) = B(m - 1) + Size(lots[m].qty) /\ Size(lots[m].qty) \in Nat
  BY HeldUpToFacts DEF AreLots
<1>. HIDE DEF n, B
<1>2. i \in 0..n /\ k \in 0..n /\ i <= k
  BY <1>1 DEF n
<1>3. 0 \in G
  BY <1>1, <1>2
<1>4. ASSUME NEW m \in 1..n, m - 1 \in G
      PROVE  m \in G
  <2>1. m \in Nat /\ m - 1 \in 0..n /\ m \in 0..n
    BY <1>1
  <2>2. i <= m - 1 => B(i) <= B(m - 1)
    BY <1>4
  <2>3. CASE i = m
    BY <1>1, <2>1, <2>3
  <2>4. CASE i < m
    <3>1. i <= m - 1
      BY <1>2, <2>1, <2>4
    <3>2. B(i) \in Nat /\ B(m) \in Nat /\ B(m - 1) \in Nat /\ Size(lots[m].qty) \in Nat
      BY <1>1, <1>2, <2>1
    <3>3. B(m) = B(m - 1) + Size(lots[m].qty)
      BY <1>1
    <3>4. B(i) <= B(m)
      BY <2>2, <3>1, <3>2, <3>3
    <3>. QED  BY <2>1, <3>4
  <2>5. CASE i > m
    BY <1>2, <2>1, <2>5
  <2>. QED  BY <1>2, <2>1, <2>3, <2>4, <2>5
<1>5. k \in G
  <2>. HIDE DEF G
  <2>. QED  BY <1>1, <1>2, <1>3, <1>4, CountingUp
<1>. QED  BY <1>2, <1>5 DEF B

\* The lots that closing c units closes whole: the first ones.
LEMMA GoneFacts ==
    ASSUME NEW lots, NEW q, AreLots(lots, q), NEW c \in Nat, c <= Size(q)
    PROVE  \E g \in 0..Len(lots) :
              /\ Cardinality({j \in DOMAIN lots : TakenFrom(lots, j, c) = Size(lots[j].qty)}) = g
              /\ HeldUpTo(lots, g) <= c
              /\ g = Len(lots) => c = Size(q)
              /\ g < Len(lots) =>
                    /\ c < HeldUpTo(lots, g + 1)
                    /\ TakenFrom(lots, g + 1, c) = c - HeldUpTo(lots, g)
              /\ \A j \in g + 2..Len(lots) : TakenFrom(lots, j, c) = 0
<1>. DEFINE n == Len(lots)
            B(m) == HeldUpTo(lots, m)
            z(j) == Size(lots[j].qty)
            C == {m \in 0..n : B(m) <= c}
<1>1. /\ n \in Nat /\ DOMAIN lots = 1..n /\ B(0) = 0 /\ B(n) = Size(q)
      /\ \A m \in 0..n : B(m) \in Nat
      /\ \A m \in 1..n : B(m) = B(m - 1) + z(m) /\ z(m) \in Nat \ {0}
  <2>1. n \in Nat /\ DOMAIN lots = 1..n
    BY LotsAreFills DEF AreLots
  <2>. QED  BY <2>1, HeldUpToFacts
<1>2. \A k \in 0..n : \A i \in 0..k : B(i) <= B(k)
  BY HeldUpToGrows
<1>3. ASSUME NEW j \in 1..n
      PROVE  TakenFrom(lots, j, c) = Lesser(z(j), IF c > B(j - 1) THEN c - B(j - 1) ELSE 0)
  <2>1. \A k \in 0..n : HeldIn(SubSeq(lots, 1, k)) = PositionAt(lots, k)
    <3>1. AreFills(lots)
      BY LotsAreFills DEF AreLots
    <3>2. \A k \in 0..n : Position(SubSeq(lots, 1, k)) = PositionAt(lots, k)
      BY <3>1, PositionAtFacts
    <3>3. \A s : HeldIn(s) = Position(s)
      BY Zenon DEF HeldIn, Position
    <3>. QED  BY <3>2, <3>3
  <2>2. j - 1 \in 0..n
    BY <1>1
  <2>3. Size(HeldIn(SubSeq(lots, 1, j - 1))) = B(j - 1)
    BY <2>1, <2>2 DEF HeldUpTo
  <2>. HIDE DEF B
  <2>. QED  BY <2>3 DEF TakenFrom
<1>. HIDE DEF n, B, z
<1>4. ASSUME NEW j \in 1..n
      PROVE  /\ B(j) <= c => TakenFrom(lots, j, c) = z(j)
             /\ B(j) > c /\ B(j - 1) <= c => TakenFrom(lots, j, c) = c - B(j - 1) /\ c - B(j - 1) < z(j)
             /\ B(j - 1) > c => TakenFrom(lots, j, c) = 0 /\ z(j) # 0
  <2>1. j \in 0..n /\ j - 1 \in 0..n
    BY <1>1
  <2>2. B(j) \in Nat /\ B(j - 1) \in Nat /\ z(j) \in Nat \ {0} /\ B(j) = B(j - 1) + z(j)
    BY <1>1, <2>1
  <2>3. TakenFrom(lots, j, c) = Lesser(z(j), IF c > B(j - 1) THEN c - B(j - 1) ELSE 0)
    BY <1>3
  <2>. DEFINE b == B(j - 1)
              d == B(j)
              s == z(j)
              t == TakenFrom(lots, j, c)
  <2>4. b \in Nat /\ s \in Nat /\ s # 0 /\ d = b + s /\ t = Lesser(s, IF c > b THEN c - b ELSE 0)
    BY <2>2, <2>3
  <2>. HIDE DEF b, d, s, t
  <2>5. /\ d <= c => t = s
        /\ d > c /\ b <= c => t = c - b /\ c - b < s
        /\ b > c => t = 0 /\ s # 0
    BY <2>4 DEF Lesser
  <2>. QED  BY <2>5 DEF b, d, s, t
<1>5. PICK g \in C : \A m \in C : m <= g
  <2>1. C \subseteq 0..n /\ 0 \in C
    BY <1>1
  <2>2. IsFiniteSet(0..n)
    BY <1>1, FS_Interval
  <2>3. C \subseteq Int /\ C # {}
    BY <2>1, <1>1
  <2>. HIDE DEF C
  <2>4. IsFiniteSet(C)
    BY <2>1, <2>2, FS_Subset
  <2>. QED  BY <2>3, <2>4, GreatestExists
<1>6. g \in 0..n /\ B(g) <= c /\ \A m \in 0..n : B(m) <= c => m <= g
  BY <1>5
<1>. HIDE DEF C
<1>7. ASSUME NEW j \in 1..n
      PROVE  TakenFrom(lots, j, c) = z(j) <=> j \in 1..g
  <2>1. j \in 0..n /\ j - 1 \in 0..n /\ g \in Nat
    BY <1>1, <1>6
  <2>2. B(j) \in Nat /\ B(j - 1) \in Nat /\ B(g) \in Nat /\ z(j) \in Nat
    BY <1>1, <1>6, <2>1
  <2>3. CASE j <= g
    <3>1. j \in 0..g
      BY <2>1, <2>3
    <3>2. B(j) <= B(g)
      BY <1>2, <1>6, <3>1
    <3>3. B(j) <= c
      BY <1>6, <2>2, <3>2
    <3>. QED  BY <1>4, <2>1, <2>3, <3>3
  <2>4. CASE ~(j <= g)
    <3>1. ~(B(j) <= c)
      BY <1>6, <2>1, <2>4
    <3>2. B(j) > c /\ (B(j - 1) <= c \/ B(j - 1) > c)
      BY <2>2, <3>1
    <3>3. (B(j - 1) <= c => TakenFrom(lots, j, c) < z(j)) /\ (B(j - 1) > c => TakenFrom(lots, j, c) # z(j))
      BY <1>4, <3>2
    <3>4. TakenFrom(lots, j, c) # z(j)
      BY <2>2, <3>2, <3>3
    <3>. QED  BY <2>1, <2>4, <3>4
  <2>. QED  BY <2>3, <2>4
<1>8. Cardinality({j \in DOMAIN lots : TakenFrom(lots, j, c) = Size(lots[j].qty)}) = g
  <2>1. 1..g \subseteq 1..n /\ g \in Nat
    BY <1>1, <1>6
  <2>2. {j \in DOMAIN lots : TakenFrom(lots, j, c) = Size(lots[j].qty)} = 1..g
    BY <1>1, <1>7, <2>1 DEF z
  <2>3. Cardinality(1..g) = g
    BY <2>1, FS_Interval
  <2>. QED  BY <2>2, <2>3
<1>9. g = n => c = Size(q)
  <2>1. Size(q) \in Nat
    <3>1. n \in 0..n
      BY <1>1
    <3>. QED  BY <1>1, <3>1
  <2>. QED  BY <1>1, <1>6, <2>1
<1>10. ASSUME g < n
       PROVE  c < B(g + 1) /\ TakenFrom(lots, g + 1, c) = c - B(g)
  <2>1. g + 1 \in 1..n /\ g + 1 \in 0..n /\ (g + 1) - 1 = g /\ ~(g + 1 <= g)
    BY <1>1, <1>6, <1>10
  <2>2. ~(B(g + 1) <= c) /\ B(g + 1) \in Nat
    BY <1>1, <1>6, <2>1
  <2>3. B(g + 1) > c
    BY <2>2
  <2>. QED  BY <1>4, <1>6, <2>1, <2>2, <2>3
<1>11. ASSUME NEW j \in g + 2..n
       PROVE  TakenFrom(lots, j, c) = 0
  <2>1. j \in 1..n /\ j - 1 \in 0..n /\ ~(j - 1 <= g)
    BY <1>1, <1>6
  <2>2. ~(B(j - 1) <= c) /\ B(j - 1) \in Nat
    BY <1>1, <1>6, <2>1
  <2>3. B(j - 1) > c
    BY <2>2
  <2>. QED  BY <1>4, <2>1, <2>3
<1>. QED  BY <1>6, <1>8, <1>9, <1>10, <1>11 DEF n, B

LEMMA NoFillsHeld == Position(<<>>) = 0
<1>1. Position(<<>>) = SumFunction([i \in DOMAIN <<>> |-> <<>>[i].qty])
  BY Zenon DEF Position
<1>2. DOMAIN [i \in DOMAIN <<>> |-> <<>>[i].qty] = {}
  OBVIOUS
<1>. QED  BY <1>1, <1>2, SumEmpty DEF SumFunction

\* Closing c units leaves lots for the rest of the position.
LEMMA KeptFacts ==
    ASSUME NEW lots, NEW q, AreLots(lots, q), NEW c \in Nat, c <= Size(q)
    PROVE  AreLots(Kept(lots, c), q - Sign(q) * c)
<1>. DEFINE n == Len(lots)
            B(m) == HeldUpTo(lots, m)
            Lot == [qty : Int \ {0}, price : Int]
            r == q - Sign(q) * c
            K == Kept(lots, c)
<1>1. /\ n \in Nat /\ q \in Int /\ B(n) = Size(q)
      /\ \A m \in 0..n : B(m) \in Nat
      /\ \A m \in 1..n : q # 0 /\ B(m) = B(m - 1) + Size(lots[m].qty)
  BY HeldUpToFacts DEF AreLots
<1>2. \A k \in 0..n : \A i \in 0..k : B(i) <= B(k)
  BY HeldUpToGrows
<1>3. \A j \in 1..n : /\ lots[j] \in Lot /\ Sign(lots[j].qty) = Sign(q)
  BY LotsAreFills DEF AreLots
<1>4. PICK g \in 0..n :
         /\ Cardinality({j \in DOMAIN lots : TakenFrom(lots, j, c) = Size(lots[j].qty)}) = g
         /\ B(g) <= c
         /\ g = n => c = Size(q)
         /\ g < n => c < B(g + 1) /\ TakenFrom(lots, g + 1, c) = c - B(g)
         /\ \A j \in g + 2..n : TakenFrom(lots, j, c) = 0
  BY GoneFacts
<1>. HIDE DEF B, n
<1>5. K = [j \in 1..n - g |->
             [lots[g + j] EXCEPT !.qty = @ - Sign(@) * TakenFrom(lots, g + j, c)]]
  BY <1>4, Zenon DEF Kept, n
<1>. HIDE DEF K
<1>6. (q > 0 => r = q - c) /\ (q < 0 => r = q + c) /\ (q = 0 => r = 0)
  <2>. DEFINE w == Sign(q) * c
  <2>1. w \in Int /\ (q > 0 => w = c) /\ (q < 0 => w = -c) /\ (q = 0 => w = 0)
    BY <1>1, SignFacts
  <2>2. r = q - w
    OBVIOUS
  <2>. HIDE DEF w, r
  <2>. QED  BY <1>1, <2>1, <2>2
<1>. HIDE DEF r
<1>7. CASE g = n
  <2>1. r = 0
    <3>1. c = Size(q) /\ (q >= 0 => Size(q) = q) /\ (q <= 0 => Size(q) = -q)
      BY <1>1, <1>4, <1>7, SizeFacts
    <3>. QED  BY <1>1, <1>6, <3>1
  <2>2. 1..n - g = 1..0
    BY <1>1, <1>7
  <2>3. K = <<>>
    BY <1>5, <2>2
  <2>4. Position(<<>>) = 0
    BY NoFillsHeld
  <2>5. <<>> \in Seq(Lot) /\ DOMAIN <<>> = {}
    OBVIOUS
  <2>. QED  BY <2>1, <2>3, <2>4, <2>5 DEF AreLots, r, K
<1>8. CASE g < n
  <2>. DEFINE L == n - g
              x(j) == lots[g + j].qty
              y(j) == K[j].qty
  <2>1. L \in Nat /\ L # 0 /\ \A j \in 1..L : g + j \in 1..n
    BY <1>1, <1>4, <1>8
  <2>. HIDE DEF L
  <2>2. q # 0
    BY <1>1, <2>1
  <2>3. \A j \in 1..L : /\ lots[g + j] \in Lot
                        /\ (q > 0 /\ x(j) > 0) \/ (q < 0 /\ x(j) < 0)
                        /\ (q > 0 => Size(x(j)) = x(j)) /\ (q < 0 => Size(x(j)) = -x(j))
                        /\ x(j) \in Int /\ x(j) # 0
                        /\ Sign(x(j)) = Sign(q)
    <3>. TAKE j \in 1..L
    <3>1. lots[g + j] \in Lot /\ Sign(x(j)) = Sign(q)
      BY <1>3, <2>1
    <3>2. x(j) \in Int /\ x(j) # 0
      BY <3>1
    <3>. QED  BY <1>1, <3>1, <3>2, SignSize
  <2>4. K = [j \in 1..L |-> K[j]] /\ \A j \in 1..L :
             K[j] = [lots[g + j] EXCEPT !.qty = @ - Sign(@) * TakenFrom(lots, g + j, c)]
    BY <1>5 DEF L
  <2>5. \A j \in 1..L : /\ y(j) = x(j) - Sign(q) * TakenFrom(lots, g + j, c)
                        /\ \E p \in Int : K[j] = [qty |-> y(j), price |-> p]
    <3>. TAKE j \in 1..L
    <3>. DEFINE l == lots[g + j]
                t == TakenFrom(lots, g + j, c)
    <3>1. K[j] = [l EXCEPT !.qty = @ - Sign(@) * t] /\ l \in Lot /\ Sign(l.qty) = Sign(q)
      BY <2>3, <2>4
    <3>. HIDE DEF l, t
    <3>2. K[j] = [qty |-> l.qty - Sign(q) * t, price |-> l.price]
      BY <3>1
    <3>3. K[j].qty = l.qty - Sign(q) * t /\ K[j].price = l.price /\ l.price \in Int
      BY <3>1, <3>2
    <3>. QED  BY <3>2, <3>3 DEF l, t
  <2>6. (q > 0 => y(1) = B(g + 1) - c) /\ (q < 0 => y(1) = c - B(g + 1)) /\ B(g + 1) > c
    <3>1. 1 \in 1..L /\ g + 1 \in 1..n /\ g \in 0..n /\ g + 1 \in 0..n /\ (g + 1) - 1 = g
      BY <1>1, <1>4, <1>8, <2>1
    <3>. DEFINE t == c - B(g)
                w == Sign(q) * t
                b == B(g)
                d == B(g + 1)
                u == x(1)
    <3>2. b \in Nat /\ d \in Nat /\ d > c /\ b <= c /\ u \in Int
      BY <1>1, <1>4, <1>8, <2>3, <3>1
    <3>3. y(1) = u - w
      BY <1>4, <1>8, <2>5, <3>1
    <3>4. d = b + Size(u)
      BY <1>1, <3>1
    <3>5. (q > 0 => Size(u) = u) /\ (q < 0 => Size(u) = -u)
      BY <2>3, <3>1
    <3>6. t \in Int
      BY <3>2
    <3>7. (q > 0 => w = t) /\ (q < 0 => w = -t)
      <4>. HIDE DEF t
      <4>. QED  BY <1>1, <3>6, SignFacts
    <3>8. t = c - b
      OBVIOUS
    <3>. HIDE DEF w, b, d, u, x, y, t
    <3>9. (q > 0 => y(1) = d - c) /\ (q < 0 => y(1) = c - d)
      <4>1. CASE q > 0
        <5>1. w = c - b /\ d = b + u
          BY <3>4, <3>5, <3>7, <3>8, <4>1
        <5>2. y(1) = d - c
          BY <3>2, <3>3, <5>1
        <5>. QED  BY <1>1, <4>1, <5>2
      <4>2. CASE q < 0
        <5>1. w = -(c - b) /\ d = b - u
          BY <3>2, <3>4, <3>5, <3>7, <3>8, <4>2
        <5>2. y(1) = c - d
          BY <3>2, <3>3, <5>1
        <5>. QED  BY <1>1, <4>2, <5>2
      <4>. QED  BY <4>1, <4>2
    <3>. QED  BY <3>2, <3>9 DEF d
  <2>7. ASSUME NEW j \in 2..L
        PROVE  y(j) = x(j)
    <3>1. j \in 1..L /\ g + j \in g + 2..n
      BY <1>1, <1>4, <2>1 DEF L
    <3>2. TakenFrom(lots, g + j, c) = 0
      BY <1>4, <3>1
    <3>3. Sign(q) * 0 = 0
      BY <1>1, SignFacts
    <3>4. y(j) = x(j) - 0 /\ x(j) \in Int
      BY <2>3, <2>5, <3>1, <3>2, <3>3
    <3>. HIDE DEF x, y
    <3>. QED  BY <3>4
  <2>8. \A j \in 1..L : y(j) \in Int /\ ((q > 0 /\ y(j) > 0) \/ (q < 0 /\ y(j) < 0))
    <3>. TAKE j \in 1..L
    <3>1. CASE j = 1
      <4>1. B(g + 1) \in Nat
        <5>1. g + 1 \in 0..n
          BY <1>1, <1>4, <1>8
        <5>. QED  BY <1>1, <5>1
      <4>. HIDE DEF y
      <4>2. y(1) \in Int /\ ((q > 0 /\ y(1) > 0) \/ (q < 0 /\ y(1) < 0))
        BY <1>1, <2>2, <2>6, <4>1
      <4>. QED  BY <3>1, <4>2
    <3>2. CASE j # 1
      <4>1. j \in 2..L
        BY <2>1, <3>2
      <4>2. y(j) = x(j)
        BY <2>7, <4>1
      <4>. HIDE DEF x, y
      <4>. QED  BY <2>3, <4>2
    <3>. QED  BY <3>1, <3>2
  <2>9. \A j \in 1..L : K[j] \in Lot
    <3>. TAKE j \in 1..L
    <3>1. y(j) \in Int /\ y(j) # 0
      <4>. HIDE DEF y
      <4>. QED  BY <2>8
    <3>2. PICK p \in Int : K[j] = [qty |-> y(j), price |-> p]
      BY <2>5
    <3>. HIDE DEF y
    <3>. QED  BY <3>1, <3>2
  <2>10. K \in Seq(Lot) /\ Len(K) = L /\ DOMAIN K = 1..L
    <3>. HIDE DEF Lot
    <3>. QED  BY <2>1, <2>4, <2>9, FunctionIsSequence
  <2>. DEFINE P(m) == PositionAt(K, m)
  <2>11. /\ Position(K) = P(L) /\ P(0) = 0
         /\ \A m \in 0..L : P(m) \in Int
         /\ \A m \in 1..L : P(m) = P(m - 1) + y(m)
    <3>1. AreFills(K)
      BY <2>10, LotsAreFills
    <3>. HIDE DEF Lot
    <3>. QED  BY <2>10, <3>1, PositionAtFacts
  <2>. HIDE DEF x, y, P
  <2>. DEFINE G == {m \in Nat : m # 0 => /\ q > 0 => P(m) = B(g + m) - c
                                         /\ q < 0 => P(m) = c - B(g + m)}
  <2>12. \A m \in 0..L : m \in G
    <3>1. 0 \in G
      OBVIOUS
    <3>2. ASSUME NEW m \in 1..L, m - 1 \in G
          PROVE  m \in G
      <4>1. m \in Nat /\ m - 1 \in 0..L /\ m \in 0..L
        BY <2>1
      <4>2. P(m) = P(m - 1) + y(m)
        BY <2>11
      <4>3. CASE m = 1
        <5>1. P(m) = y(1)
          <6>1. m - 1 = 0 /\ y(1) \in Int
            BY <2>1, <2>8, <4>3
          <6>. QED  BY <2>11, <4>2, <4>3, <6>1
        <5>. QED  BY <2>6, <4>1, <4>3, <5>1
      <4>4. CASE m # 1
        <5>1. /\ q > 0 => P(m - 1) = B(g + (m - 1)) - c
              /\ q < 0 => P(m - 1) = c - B(g + (m - 1))
          <6>1. m - 1 # 0
            BY <4>1, <4>4
          <6>. QED  BY <3>2, <6>1
        <5>2. m \in 2..L /\ g + m \in 1..n /\ (g + m) - 1 = g + (m - 1)
          BY <1>1, <1>4, <2>1, <4>1, <4>4
        <5>3. y(m) = x(m)
          BY <2>7, <5>2
        <5>4. B(g + m) = B(g + (m - 1)) + Size(x(m))
          BY <1>1, <5>2 DEF x
        <5>5. B(g + (m - 1)) \in Nat
          <6>1. g + (m - 1) \in 0..n
            BY <1>1, <5>2
          <6>. QED  BY <1>1, <6>1
        <5>6. /\ (q > 0 => Size(x(m)) = x(m)) /\ (q < 0 => Size(x(m)) = -x(m))
              /\ x(m) \in Int
          BY <2>3
        <5>. DEFINE b == B(g + (m - 1))
                    d == B(g + m)
                    u == x(m)
        <5>. HIDE DEF b, d, u
        <5>7. CASE q > 0
          <6>1. P(m) = (b - c) + u /\ d = b + u /\ b \in Nat /\ u \in Int
            BY <4>2, <5>1, <5>3, <5>4, <5>5, <5>6, <5>7 DEF b, d, u
          <6>2. P(m) = d - c
            BY <6>1
          <6>. QED  BY <1>1, <4>1, <5>7, <6>2 DEF d
        <5>8. CASE q < 0
          <6>1. P(m) = (c - b) + u /\ d = b + (-u) /\ b \in Nat /\ u \in Int
            BY <4>2, <5>1, <5>3, <5>4, <5>5, <5>6, <5>8 DEF b, d, u
          <6>2. P(m) = c - d
            BY <6>1
          <6>. QED  BY <1>1, <4>1, <5>8, <6>2 DEF d
        <5>. QED  BY <1>1, <2>2, <5>7, <5>8
      <4>. QED  BY <4>3, <4>4
    <3>. HIDE DEF G
    <3>. QED  BY <2>1, <3>1, <3>2, CountingUp
  <2>13. B(n) = Size(q) /\ g + L = n /\ L \in G
    <3>1. L \in 0..L /\ g + L = n
      BY <1>1, <1>4, <2>1 DEF L
    <3>. QED  BY <1>1, <2>12, <3>1
  <2>14. Position(K) = r
    <3>1. (q >= 0 => Size(q) = q) /\ (q <= 0 => Size(q) = -q)
      BY <1>1, SizeFacts
    <3>2. (q > 0 => P(L) = Size(q) - c) /\ (q < 0 => P(L) = c - Size(q))
      BY <2>1, <2>13
    <3>3. P(L) = r
      BY <1>1, <1>6, <2>2, <3>1, <3>2
    <3>. QED  BY <2>11, <3>3
  <2>15. r \in Int /\ ((q > 0 /\ r > 0) \/ (q < 0 /\ r < 0))
    <3>1. c < Size(q)
      <4>1. g + 1 \in 0..n /\ n \in 0..n
        BY <1>1, <1>4, <1>8
      <4>2. B(g + 1) <= B(n) /\ B(g + 1) \in Nat /\ B(n) \in Nat
        BY <1>1, <1>2, <4>1
      <4>. QED  BY <1>1, <2>6, <4>2
    <3>2. (q >= 0 => Size(q) = q) /\ (q <= 0 => Size(q) = -q)
      BY <1>1, SizeFacts
    <3>. QED  BY <1>1, <1>6, <2>2, <3>1, <3>2
  <2>16. \A j \in DOMAIN K : Sign(K[j].qty) = Sign(r)
    <3>. SUFFICES ASSUME NEW j \in 1..L PROVE Sign(y(j)) = Sign(r)
      BY <2>10 DEF y
    <3>1. y(j) \in Int /\ ((q > 0 /\ y(j) > 0) \/ (q < 0 /\ y(j) < 0))
      BY <2>8
    <3>2. /\ (y(j) > 0 => Sign(y(j)) = 1) /\ (y(j) < 0 => Sign(y(j)) = -1)
          /\ (r > 0 => Sign(r) = 1) /\ (r < 0 => Sign(r) = -1)
      BY <2>15, <3>1, SignFacts
    <3>. QED  BY <1>1, <2>15, <3>1, <3>2
  <2>. QED  BY <2>10, <2>14, <2>16 DEF AreLots, r, K
<1>. QED  BY <1>1, <1>4, <1>7, <1>8

LEMMA NoLotsLeft ==
    ASSUME NEW lots, AreLots(lots, 0)
    PROVE  lots = <<>>
<1>1. Len(lots) \in Nat /\ DOMAIN lots = 1..Len(lots)
      /\ \A j \in 1..Len(lots) : lots[j].qty \in Int /\ lots[j].qty # 0
  BY LotsAreFills DEF AreLots
<1>2. ASSUME NEW j \in 1..Len(lots) PROVE FALSE
  <2>1. Sign(lots[j].qty) = Sign(0) /\ Sign(0) = 0
    <3>1. j \in DOMAIN lots
      BY <1>1
    <3>2. Sign(lots[j].qty) = Sign(0)
      BY <3>1, Zenon DEF AreLots
    <3>. QED  BY <3>2, SignFacts
  <2>2. lots[j].qty \in Int /\ lots[j].qty # 0
    BY <1>1
  <2>. HIDE DEF AreLots
  <2>. QED  BY <2>1, <2>2, SignFacts
<1>3. lots \in Seq([qty : Int \ {0}, price : Int])
  BY DEF AreLots
<1>. QED  BY <1>1, <1>2, <1>3

\* A lot of x units more, on the side of the others.
LEMMA OneLotMore ==
    ASSUME NEW lots, NEW q, AreLots(lots, q),
           NEW x \in Int \ {0}, NEW p \in Int, q = 0 \/ (q > 0 <=> x > 0)
    PROVE  AreLots(Append(lots, [qty |-> x, price |-> p]), q + x)
<1>. DEFINE Lot == [qty : Int \ {0}, price : Int]
            l == [qty |-> x, price |-> p]
            n == Len(lots)
            m == Append(lots, l)
<1>1. lots \in Seq(Lot) /\ n \in Nat /\ DOMAIN lots = 1..n /\ q \in Int
      /\ \A j \in 1..n : lots[j] \in Lot /\ lots[j].qty \in Int /\ lots[j].qty # 0
  BY LotsAreFills, HeldUpToFacts DEF AreLots
<1>2. l \in Lot /\ l.qty = x
  OBVIOUS
<1>. HIDE DEF Lot, l
<1>3. /\ m \in Seq(Lot) /\ Len(m) = n + 1 /\ DOMAIN m = 1..n + 1
      /\ m[n + 1] = l /\ \A j \in 1..n : m[j] = lots[j]
  BY <1>1, <1>2
<1>. HIDE DEF n, m
<1>4. Position(m) = q + x
  <2>1. AreFills(m) /\ AreFills(lots)
    BY <1>1, <1>3, LotsAreFills DEF Lot
  <2>2. /\ Position(m) = PositionAt(m, n + 1)
        /\ PositionAt(m, n + 1) = PositionAt(m, n) + x
    <3>1. n + 1 \in 1..n + 1 /\ (n + 1) - 1 = n
      BY <1>1
    <3>. QED  BY <1>2, <1>3, <2>1, <3>1, PositionAtFacts
  <2>3. PositionAt(m, n) = PositionAt(lots, n)
    <3>. DEFINE f == QtyOf(m)
                h == QtyOf(lots)
    <3>1. /\ DOMAIN f = 1..n + 1 /\ DOMAIN h = 1..n
          /\ \A j \in 1..n : f[j] = h[j] /\ h[j] \in Int
      BY <1>1, <1>3 DEF QtyOf
    <3>2. PrefixSum(f, n) = PrefixSum(h, n)
      <4>. HIDE DEF f, h
      <4>. QED  BY <1>1, <3>1, PrefixSumSame
    <3>. QED  BY <3>2 DEF PositionAt
  <2>4. PositionAt(lots, n) = q
    BY <2>1, PositionAtFacts DEF AreLots, n
  <2>. QED  BY <2>2, <2>3, <2>4
<1>5. \A j \in 1..n + 1 : Sign(m[j].qty) = Sign(q + x)
  <2>. TAKE j \in 1..n + 1
  <2>1. /\ q # 0 => Sign(q + x) = Sign(q) /\ Sign(x) = Sign(q)
        /\ q = 0 => Sign(q + x) = Sign(x)
    <3>1. x \in Int /\ x # 0 /\ q + x \in Int
      BY <1>1
    <3>2. /\ (q > 0 => Sign(q) = 1) /\ (q < 0 => Sign(q) = -1)
          /\ (x > 0 => Sign(x) = 1) /\ (x < 0 => Sign(x) = -1)
          /\ (q + x > 0 => Sign(q + x) = 1) /\ (q + x < 0 => Sign(q + x) = -1)
      BY <1>1, <3>1, SignFacts
    <3>3. (q + x = x) \/ q # 0
      BY <1>1
    <3>4. q # 0 => (q > 0 /\ x > 0 /\ q + x > 0) \/ (q < 0 /\ x < 0 /\ q + x < 0)
      BY <1>1, <3>1
    <3>. QED  BY <1>1, <3>1, <3>2, <3>3, <3>4
  <2>2. CASE j = n + 1
    <3>1. m[j].qty = x
      BY <1>2, <1>3, <2>2
    <3>. QED  BY <2>1, <3>1
  <2>3. CASE j # n + 1
    <3>1. j \in 1..n /\ m[j] = lots[j]
      BY <1>1, <1>3, <2>3
    <3>2. Sign(lots[j].qty) = Sign(q)
      BY <1>1, <3>1 DEF AreLots
    <3>3. q # 0
      BY <3>1, HeldUpToFacts DEF n
    <3>. QED  BY <2>1, <3>1, <3>2, <3>3
  <2>. QED  BY <2>2, <2>3
<1>. QED  BY <1>3, <1>4, <1>5 DEF AreLots, m, Lot, l

LEMMA PairKeepsLots ==
    ASSUME NEW h, NEW q, AreLots(h.lots, q),
           NEW f, f.qty \in Int \ {0}, f.price \in Int
    PROVE  AreLots(PairFill(h, f).lots, q + f.qty)
<1>. DEFINE x == f.qty
            c == IF Adds(q, f) THEN 0 ELSE Lesser(Size(q), Size(x))
            K == Kept(h.lots, c)
            rest == x - Sign(x) * c
            r == q - Sign(q) * c
<1>1. q \in Int /\ HeldIn(h.lots) = q
  BY LotsAreFills, HeldUpToFacts DEF AreLots
<1>2. PairFill(h, f).lots = IF rest = 0 THEN K ELSE Append(K, [qty |-> rest, price |-> f.price])
  BY <1>1 DEF PairFill
<1>3. /\ Size(q) \in Nat /\ (q >= 0 => Size(q) = q) /\ (q <= 0 => Size(q) = -q)
      /\ Size(x) \in Nat /\ (x >= 0 => Size(x) = x) /\ (x <= 0 => Size(x) = -x)
      /\ x \in Int /\ x # 0
  <2>1. x \in Int /\ x # 0
    OBVIOUS
  <2>. QED  BY <1>1, <2>1, SizeFacts
<1>4. c \in Nat /\ c <= Size(q) /\ c <= Size(x)
  BY <1>3 DEF Lesser
<1>5. AreLots(K, r)
  <2>. HIDE DEF c
  <2>. QED  BY <1>4, KeptFacts
<1>6. /\ (q > 0 => r = q - c) /\ (q < 0 => r = q + c) /\ (q = 0 => r = q)
      /\ (x > 0 => rest = x - c) /\ (x < 0 => rest = x + c)
  <2>. HIDE DEF c, x
  <2>. DEFINE a == Sign(q) * c
              b == Sign(x) * c
  <2>1. /\ (q > 0 => a = c) /\ (q < 0 => a = -c) /\ (q = 0 => a = 0)
        /\ (x > 0 => b = c) /\ (x < 0 => b = -c)
    BY <1>1, <1>3, <1>4, SignFacts
  <2>2. r = q - a /\ rest = x - b
    OBVIOUS
  <2>. HIDE DEF a, b, r, rest
  <2>. QED  BY <1>1, <1>3, <1>4, <2>1, <2>2
<1>7. CASE Adds(q, f)
  <2>1. c = 0
    BY <1>7
  <2>. HIDE DEF c, x, r, rest
  <2>2. r = q /\ rest = x
    BY <1>1, <1>3, <1>6, <2>1
  <2>3. q = 0 \/ (q > 0 <=> x > 0)
    BY <1>7 DEF Adds, x
  <2>4. AreLots(Append(K, [qty |-> x, price |-> f.price]), q + x)
    <3>. HIDE DEF K
    <3>. QED  BY <1>3, <1>5, <2>2, <2>3, OneLotMore
  <2>. QED  BY <1>2, <1>3, <2>2, <2>4 DEF x
<1>8. CASE ~Adds(q, f)
  <2>1. c = Lesser(Size(q), Size(x))
    BY <1>8
  <2>2. q # 0 /\ ~(q > 0 <=> x > 0)
    BY <1>8 DEF Adds
  <2>. HIDE DEF c, x, r, rest, K
  <2>3. CASE rest = 0
    <3>1. r = q + x
      <4>1. c = Size(x)
        BY <1>3, <1>4, <1>6, <2>3
      <4>. QED  BY <1>1, <1>3, <1>6, <2>2, <4>1
    <3>. QED  BY <1>2, <1>5, <2>3, <3>1 DEF x
  <2>4. CASE rest # 0
    <3>1. r = 0 /\ rest = q + x /\ rest \in Int
      <4>1. c # Size(x)
        BY <1>3, <1>4, <1>6, <2>4
      <4>2. c = Size(q)
        BY <1>3, <2>1, <4>1 DEF Lesser
      <4>. QED  BY <1>1, <1>3, <1>6, <2>2, <4>2
    <3>2. AreLots(Append(K, [qty |-> rest, price |-> f.price]), 0 + rest)
      BY <1>5, <2>4, <3>1, OneLotMore
    <3>3. 0 + rest = q + x
      BY <3>1
    <3>. QED  BY <1>2, <2>4, <3>2, <3>3 DEF x
  <2>. QED  BY <2>3, <2>4
<1>. QED  BY <1>7, <1>8

\* The lots that the fills of a run leave open.
THEOREM LotsHeld ==
    ASSUME NEW fs, AreFills(fs)
    PROVE  AreLots(LotsOf(fs).lots, Position(fs))
<1>. DEFINE n == Len(fs)
<1>1. n \in Nat
  BY FillsFacts
<1>2. PICK a : LotsAfter(fs, a) /\ LotsOf(fs) = a[n]
  BY <1>1, LotsExist
<1>3. a[0] = NoLots /\ \A k \in 1..n : a[k] = PairFill(a[k - 1], fs[k])
  <2>1. a = [k \in 0..n |-> IF k = 0 THEN NoLots ELSE PairFill(a[k - 1], fs[k])]
    BY <1>2 DEF LotsAfter
  <2>2. 0 \in 0..n /\ \A k \in 1..n : k \in 0..n /\ k # 0
    BY <1>1
  <2>. HIDE DEF n
  <2>3. \A k \in 0..n : a[k] = IF k = 0 THEN NoLots ELSE PairFill(a[k - 1], fs[k])
    BY <2>1
  <2>. QED  BY <2>2, <2>3
<1>. DEFINE G == {k \in Nat : AreLots(a[k].lots, PositionAt(fs, k))}
<1>4. 0 \in G
  <2>1. Position(<<>>) = 0
    BY NoFillsHeld
  <2>2. AreLots(<<>>, 0)
    BY <2>1 DEF AreLots
  <2>3. a[0].lots = <<>> /\ PositionAt(fs, 0) = 0
    BY <1>3, PositionAtFacts DEF NoLots
  <2>. QED  BY <2>2, <2>3
<1>5. ASSUME NEW k \in 1..n, k - 1 \in G
      PROVE  k \in G
  <2>1. k \in Nat /\ fs[k].qty \in Int \ {0} /\ fs[k].price \in Int
    BY <1>1, FillsFacts
  <2>2. AreLots(PairFill(a[k - 1], fs[k]).lots, PositionAt(fs, k - 1) + fs[k].qty)
    BY <1>5, <2>1, PairKeepsLots
  <2>3. PositionAt(fs, k) = PositionAt(fs, k - 1) + fs[k].qty /\ a[k] = PairFill(a[k - 1], fs[k])
    BY <1>3, PositionAtFacts
  <2>. QED  BY <2>1, <2>2, <2>3
<1>6. n \in G
  <2>. HIDE DEF n, G
  <2>1. n \in 0..n
    BY <1>1
  <2>. QED  BY <1>1, <1>4, <1>5, <2>1, CountingUp
<1>7. Position(fs) = PositionAt(fs, n)
  BY PositionAtFacts
<1>. QED  BY <1>2, <1>6, <1>7

-----------------------------------------------------------------------------
LEMMA FillsTyped == TypeOK => AreFills(fills)
<1>. SUFFICES ASSUME TypeOK PROVE AreFills(fills)
  OBVIOUS
<1>. DEFINE S == [qty : Int \ {0}, by : Bars, price : Int, at : Bars]
<1>1. \A f \in S : f.qty \in Int \ {0} /\ f.price \in Int
  OBVIOUS
<1>2. fills \in Seq(S)
  BY DEF TypeOK
<1>. HIDE DEF S
<1>. QED  BY <1>1, <1>2 DEF AreFills

(***************************************************************************)
(* compute_trade_metrics, whatever the bars, the strategy and the number   *)
(* of folds: a flat book whose fills closed no part of a position has made *)
(* exactly the cash its round trips report.                                *)
(***************************************************************************)
THEOREM ScoresMatchCash == Spec => []WholeTradesMatchCash
<1>1. TypeOK => WholeTradesMatchCash
  <2>. SUFFICES ASSUME TypeOK, Held = 0, ~HasPartialClose(fills)
                PROVE  TotalPnl(TradesOf(fills)) = CashOf(fills)
    BY DEF WholeTradesMatchCash
  <2>. DEFINE t == TradesOf(fills)
              p == TotalPnl(t)
              c == CashOf(fills)
  <2>1. Accounts(t, 0, c)
    BY FillsTyped, TradesAccount DEF Held
  <2>2. t.cost = 0 /\ t.fees = 0 /\ c = p - Sign(0) * t.cost - t.fees /\ t.pnl \in Seq(Int)
    BY <2>1 DEF Accounts
  <2>3. p \in Int /\ Sign(0) * 0 = 0
    <3>1. SumFunction(t.pnl) \in Int
      BY <2>2, SumFunctionType
    <3>. QED  BY <3>1, SignFacts DEF TotalPnl
  <2>. HIDE DEF t, p, c
  <2>4. c = p - 0 - 0
    BY <2>2, <2>3
  <2>5. p = c
    BY <2>3, <2>4
  <2>. QED  BY <2>5 DEF t, p, c
<1>. QED  BY <1>1, TypeCorrect, PTL

(***************************************************************************)
(* hit_rate: the lots it has open after any fills of a run are the         *)
(* position of the book, and all on its side.                              *)
(***************************************************************************)
THEOREM LotsCorrect == Spec => []LotsMatchPosition
<1>1. TypeOK => LotsMatchPosition
  <2>. SUFFICES ASSUME TypeOK PROVE LotsMatchPosition
    OBVIOUS
  <2>. DEFINE lots == LotsOf(fills).lots
  <2>1. AreLots(lots, Held)
    BY FillsTyped, LotsHeld DEF Held
  <2>2. HeldIn(lots) = Position(lots)
    BY <2>1, LotsAreFills DEF AreLots
  <2>. HIDE DEF lots
  <2>3. HeldIn(lots) = Held /\ \A j \in DOMAIN lots : Sign(lots[j].qty) = Sign(Held)
    BY <2>1, <2>2 DEF AreLots
  <2>. QED  BY <2>3 DEF LotsMatchPosition, lots
<1>. QED  BY <1>1, TypeCorrect, PTL

=============================================================================
