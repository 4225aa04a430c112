---------------------------- MODULE MCSelection ----------------------------
EXTENDS Selection

\* Idle, losing within the drawdown gate, winning, winning beyond it.
MCReports ==
    {[fills |-> 0, cas |-> 0, dd |-> 0, turnover |-> 0],
     [fills |-> 2, cas |-> -1, dd |-> 1, turnover |-> 1],
     [fills |-> 2, cas |-> 2, dd |-> 1, turnover |-> 1],
     [fills |-> 2, cas |-> 3, dd |-> 2, turnover |-> 2]}

MCGates == [maxDd |-> 1, minPositive |-> 50, minTraded |-> 2, minFills |-> 1,
            maxTurnover |-> 2]

\* Mean times share of positive folds, less the spread, of up to three folds.
MCScore(rs) ==
    IF rs = <<>> THEN 0
    ELSE LET sum == FoldLeft(LAMBDA s, r : s + r.cas, 0, rs)
             spread == Greatest({rs[i].cas - rs[j].cas : i, j \in DOMAIN rs})
         IN  (10 * sum * Positive(rs)) \div (Len(rs) * Len(rs)) - 6 * spread

MCSweeps == {<<1>>, <<1, 2>>, <<1, 1>>}

============================================================================
