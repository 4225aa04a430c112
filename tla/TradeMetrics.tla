---------------------------- MODULE TradeMetrics ----------------------------
(***************************************************************************)
(* What a backtest says of its trades: compute_trade_metrics               *)
(* (src/trade/metrics/trade_metrics.py), which pairs the fills of a run    *)
(* into round trips at the average entry price, and hit_rate               *)
(* (src/trade/metrics/performance.py), which pairs them first in first     *)
(* out.  Each is a fold over the fills, one step per fill.                 *)
(*                                                                         *)
(* A fill has a signed quantity and a price.  Its fee is FeeRate per unit. *)
(* Of the average entry price the module keeps the notional (average times *)
(* quantity), so that adding to a position stays in whole numbers; a       *)
(* partial close is exact when prices and FeeRate are even and no position *)
(* is larger than two units.                                               *)
(***************************************************************************)
EXTENDS Integers, FiniteSets, Sequences, SequencesExt

CONSTANT FeeRate

ASSUME FeeRateAssumption == FeeRate \in Nat

Size(q) == IF q < 0 THEN -q ELSE q

Lesser(a, b) == IF a <= b THEN a ELSE b

FeeOf(f) == FeeRate * Size(f.qty)

\* Fill f and position q are on the same side, or there is no position.
Adds(q, f) == q = 0 \/ (q > 0 <=> f.qty > 0)

\* Fill f closes a part of position q and leaves the rest open.
ClosesPart(q, f) == ~Adds(q, f) /\ Size(f.qty) < Size(q)

----------------------------------------------------------------------------
(***************************************************************************)
(* compute_trade_metrics.  cost is the entry notional of the open trade,   *)
(* fees what it paid so far, pnl the net results of the closed trades.     *)
(***************************************************************************)
NoTrades == [qty |-> 0, cost |-> 0, fees |-> 0, pnl |-> <<>>]

AddToTrade(t, f) ==
    [t EXCEPT !.qty = @ + f.qty,
              !.cost = @ + Size(f.qty) * f.price,
              !.fees = @ + FeeOf(f)]

\* Net result of closing `closing` units of the open trade with fill f.
ClosedPnl(t, f, closing) ==
    LET entry == (closing * t.cost) \div Size(t.qty)
        exit == closing * f.price
        gross == IF t.qty > 0 THEN exit - entry ELSE entry - exit
    IN  gross - (t.fees * closing) \div Size(t.qty) - FeeRate * closing

\* Mutant: the part of a flip that opens the other side is forgotten.
CloseTradeOnly(t, f) ==
    LET closing == Lesser(Size(t.qty), Size(f.qty))
    IN  [ qty |-> 0, cost |-> 0, fees |-> 0,
          pnl |-> Append(t.pnl, ClosedPnl(t, f, closing)) ]

CloseTrade(t, f) ==
    LET closing == Lesser(Size(t.qty), Size(f.qty))
        rest == Size(f.qty) - closing
    IN  [ qty  |-> IF rest > 0 THEN t.qty + f.qty ELSE 0,
          cost |-> rest * f.price,
          fees |-> FeeRate * rest,
          pnl  |-> Append(t.pnl, ClosedPnl(t, f, closing)) ]

TradeStep(t, f) == IF Adds(t.qty, f) THEN AddToTrade(t, f) ELSE CloseTrade(t, f)

TradesOf(fills) ==
    LET after[k \in 0..Len(fills)] ==
            IF k = 0 THEN NoTrades ELSE TradeStep(after[k - 1], fills[k])
    IN  after[Len(fills)]

TotalPnl(t) == SumFunction(t.pnl)

----------------------------------------------------------------------------
(***************************************************************************)
(* hit_rate: a fill on the other side closes the oldest lots first, and    *)
(* what it does not need to close them becomes a lot of its own.           *)
(***************************************************************************)
NoLots == [lots |-> <<>>, trades |-> 0, wins |-> 0]

HeldIn(lots) == SumFunction([j \in DOMAIN lots |-> lots[j].qty])

\* Mutant: a lot is dropped when a part of it is closed.
WholeLot(lots, j, c) ==
    IF c > Size(HeldIn(SubSeq(lots, 1, j - 1))) THEN Size(lots[j].qty) ELSE 0

\* Units that closing c units takes from lot j.
TakenFrom(lots, j, c) ==
    LET before == Size(HeldIn(SubSeq(lots, 1, j - 1)))
        left == IF c > before THEN c - before ELSE 0
    IN  Lesser(Size(lots[j].qty), left)

Sign(q) == IF q > 0 THEN 1 ELSE IF q < 0 THEN -1 ELSE 0

\* What closing c units leaves: the lots closed as a whole are the first ones.
Kept(lots, c) ==
    LET gone == Cardinality({j \in DOMAIN lots :
                               TakenFrom(lots, j, c) = Size(lots[j].qty)})
    IN  [j \in 1..Len(lots) - gone |->
           [lots[gone + j] EXCEPT !.qty = @ - Sign(@) * TakenFrom(lots, gone + j, c)]]

PairFill(h, f) ==
    LET held == HeldIn(h.lots)
        closing == IF Adds(held, f) THEN 0 ELSE Lesser(Size(held), Size(f.qty))
        closed == {j \in DOMAIN h.lots : TakenFrom(h.lots, j, closing) > 0}
        kept == Kept(h.lots, closing)
        rest == f.qty - Sign(f.qty) * closing
    IN  [ lots   |-> IF rest = 0 THEN kept
                     ELSE Append(kept, [qty |-> rest, price |-> f.price]),
          trades |-> h.trades + Cardinality(closed),
          wins   |-> h.wins + Cardinality({j \in closed :
                        (f.price - h.lots[j].price) * h.lots[j].qty > 0}) ]

LotsOf(fills) ==
    LET after[k \in 0..Len(fills)] ==
            IF k = 0 THEN NoLots ELSE PairFill(after[k - 1], fills[k])
    IN  after[Len(fills)]

----------------------------------------------------------------------------
\* The book the fills leave: OrderManager's position and the cash it paid.
Position(fills) == SumFunction([i \in DOMAIN fills |-> fills[i].qty])

CashOf(fills) ==
    SumFunction([i \in DOMAIN fills |-> -(fills[i].qty * fills[i].price) - FeeOf(fills[i])])

\* Some fill of the run closed a part of the position it met.
HasPartialClose(fills) ==
    \E i \in DOMAIN fills :
        ClosesPart(Position(SubSeq(fills, 1, i - 1)), fills[i])

============================================================================
