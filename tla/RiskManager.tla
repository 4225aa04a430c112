---------------------------- MODULE RiskManager ----------------------------
(***************************************************************************)
(* The layered drawdown gates (src/trade/mre/risk.py) as functions on a    *)
(* record: one high-water mark, one period key and at most one halt reason *)
(* for each layer (daily, weekly, monthly in the code).                    *)
(*                                                                         *)
(* Times are bar numbers and a period of layer p is PeriodLen[p] bars; the *)
(* calendar of the code (date, ISO week, month) is used only to tell two   *)
(* periods apart.  Limits are in thousandths, as integers.                 *)
(***************************************************************************)
EXTENDS Integers

CONSTANTS
    Periods,        \* the layers: {"daily", "weekly", "monthly"} in the code
    PeriodLen,      \* bars in a period of each layer
    LimitPermille,  \* tolerated drawdown of each layer, in thousandths
    InitialEquity   \* equity the account starts with

ASSUME RiskAssumption ==
    /\ PeriodLen \in [Periods -> Nat \ {0}]
    /\ LimitPermille \in [Periods -> 1..999]
    /\ InitialEquity \in Nat \ {0}

\* The key of a layer that has seen no bar yet (None in the code).
NoKey == -1

PeriodOf(p, t) == t \div PeriodLen[p]

Higher(a, b) == IF a >= b THEN a ELSE b

RiskState == [ key     : [Periods -> Int],
               hwm     : [Periods -> Int],
               reasons : SUBSET Periods ]

RiskInit == [ key     |-> [p \in Periods |-> NoKey],
              hwm     |-> [p \in Periods |-> InitialEquity],
              reasons |-> {} ]

\* 1 - equity / hwm > limit, for a positive mark.
Breach(p, mark, equity) ==
    /\ mark > 0
    /\ 1000 * (mark - equity) > LimitPermille[p] * mark

\* The mark restarts at the first close of a period and rises within it.
NewMark(r, p, t, equity) ==
    IF PeriodOf(p, t) # r.key[p] THEN equity ELSE Higher(r.hwm[p], equity)

----------------------------------------------------------------------------
\* Mutants: a halt that ends when the drawdown recovers; a halt that no new
\* period ends; a mark that survives the period it was set in.

RiskUpdateUnlatched(r, t, equity) ==
    LET mark == [p \in Periods |-> NewMark(r, p, t, equity)]
    IN  [ key     |-> [p \in Periods |-> PeriodOf(p, t)],
          hwm     |-> mark,
          reasons |-> {p \in Periods : Breach(p, mark[p], equity)} ]

RiskUpdateNeverReset(r, t, equity) ==
    LET mark == [p \in Periods |-> Higher(r.hwm[p], equity)]
    IN  [ key     |-> [p \in Periods |-> PeriodOf(p, t)],
          hwm     |-> mark,
          reasons |-> r.reasons
                        \cup {p \in Periods : Breach(p, mark[p], equity)} ]

----------------------------------------------------------------------------
(***************************************************************************)
(* RiskManager.update: a new period restarts the layer's mark and drops    *)
(* its reason, then every layer below its limit is halted.  A reason, once *)
(* raised, stays for the rest of its period.                               *)
(***************************************************************************)
RiskUpdate(r, t, equity) ==
    LET mark == [p \in Periods |-> NewMark(r, p, t, equity)]
        kept == {p \in r.reasons : PeriodOf(p, t) = r.key[p]}
    IN  [ key     |-> [p \in Periods |-> PeriodOf(p, t)],
          hwm     |-> mark,
          reasons |-> kept \cup {p \in Periods : Breach(p, mark[p], equity)} ]

\* RiskManager.gate_targets: a halted manager lets only flat targets through.
GateTargets(r, targets) ==
    IF r.reasons = {} THEN targets ELSE {q \in targets : q = 0}

============================================================================
