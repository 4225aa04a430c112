--------------------------- MODULE DrawdownGates ---------------------------
(***************************************************************************)
(* A RiskManager fed the equity curve of one run, against what the gates   *)
(* promise: a layer is halted exactly when, somewhere in its current       *)
(* period, equity closed too far below an earlier close of that period.    *)
(***************************************************************************)
EXTENDS RiskManager, Sequences

CONSTANTS
    Closes,      \* the equities a bar may close at
    LastClose    \* bound: the last bar

ASSUME GatesAssumption ==
    /\ Closes \subseteq Int
    /\ LastClose \in Nat

VARIABLES
    gate,     \* the manager's fields
    curve     \* OrderManager._equity_history: the closes, in order

gateVars == <<gate, curve>>

Points == [t : Nat, e : Int]

GatesInit ==
    /\ gate = RiskInit
    /\ curve = <<>>

\* One bar close: record_equity, then update.  Several closes of one time are
\* several symbols whose bars arrive in separate batches.
Close(t, e) ==
    /\ \A i \in DOMAIN curve : curve[i].t <= t
    /\ gate' = RiskUpdate(gate, t, e)
    /\ curve' = Append(curve, [t |-> t, e |-> e])

GatesNext ==
    \E t \in 0..LastClose, e \in Closes :
        /\ Len(curve) <= LastClose
        /\ Close(t, e)

GatesSpec == GatesInit /\ [][GatesNext]_gateVars

----------------------------------------------------------------------------
GatesType ==
    /\ gate \in RiskState
    /\ curve \in Seq(Points)

\* Close i of the curve lies in the period layer p is now in.
InPeriod(p, i) == PeriodOf(p, curve[i].t) = gate.key[p]

\* The mark of a layer is the highest close of its current period
\* (mre/risk.py:69-88): neither older closes nor a lower one.
MarkIsPeriodHigh ==
    curve # <<>> =>
        \A p \in Periods :
            /\ \A i \in DOMAIN curve : InPeriod(p, i) => curve[i].e <= gate.hwm[p]
            /\ \E i \in DOMAIN curve : InPeriod(p, i) /\ curve[i].e = gate.hwm[p]

\* "When a period's drawdown from that period's high-water mark exceeds its
\* threshold, the manager is HALTED for the rest of the period"
\* (mre/risk.py:3-4), and for no other reason and no longer: layer p is halted
\* exactly when two closes of its current period are too far apart.
HaltedIffPeriodDrawdown ==
    \A p \in Periods :
        p \in gate.reasons <=>
            \E i, j \in DOMAIN curve :
                /\ i <= j
                /\ InPeriod(p, i)
                /\ InPeriod(p, j)
                /\ Breach(p, curve[i].e, curve[j].e)

============================================================================
