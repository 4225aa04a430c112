----------------------------- MODULE Benchmarks -----------------------------
(***************************************************************************)
(* The strategies a trained one is measured against                        *)
(* (src/trade/strategies/buy_hold.py, ma_cross.py, momentum.py,            *)
(* random_signal.py), each a function of the bars its replay has shown it, *)
(* first to i: the positions it may ask for at the close of bar i, as a    *)
(* set, empty when it leaves the position alone.  size is the quantity     *)
(* that equity, notional fraction and price make.                          *)
(***************************************************************************)
EXTENDS Integers, FiniteSetsExt

CONSTANTS
    FastWindow, SlowWindow,    \* of the crossover
    Lookback, SkipBars,        \* of the momentum
    Rebalance                  \* rebalance_period_bars of the coin

ASSUME BenchmarksAssumption ==
    /\ FastWindow \in Nat \ {0} /\ SlowWindow \in Nat /\ FastWindow < SlowWindow
    /\ Lookback \in Nat \ {0, 1} /\ SkipBars \in Nat
    /\ Rebalance \in Nat \ {0}

Benchmarks == {"buy_hold", "ma_cross", "momentum", "random"}

\* Bars of history it asks for.
Needed(name) ==
    CASE name = "ma_cross" -> SlowWindow
      [] name = "momentum" -> Lookback + SkipBars + 1
      [] OTHER -> 1

\* Sum of the last n closes.
Closes(b, i, n) == MapThenSumSet(LAMBDA j : b[j].close, i - n + 1 .. i)

Crosses(b, i) ==
    Closes(b, i, FastWindow) * SlowWindow > Closes(b, i, SlowWindow) * FastWindow

\* history[-(skip + 1)] against history[-(lookback + skip)].
Rises12_1(b, i) == b[i - SkipBars].close > b[i - Lookback - SkipBars + 1].close

\* _entered is set at the first bar; the coin of the random signal is a hash.
BenchmarkTargets(name, b, first, i, size) ==
    CASE name = "buy_hold" -> IF i = first THEN {size} ELSE {}
      [] name = "ma_cross" -> IF Crosses(b, i) THEN {size} ELSE {0}
      [] name = "momentum" -> IF Rises12_1(b, i) THEN {size} ELSE {0}
      [] name = "random"   -> IF i % Rebalance = 0 THEN {0, size} ELSE {}

=============================================================================
