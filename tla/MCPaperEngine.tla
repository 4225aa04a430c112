--------------------------- MODULE MCPaperEngine ---------------------------
\* Values for the constants of PaperEngine: a daily layer of one bar and a
\* weekly one of two, and two equities, the lower one a breach of both.
EXTENDS PaperEngine

MCPeriods == {"daily", "weekly"}
MCPeriodLen == [p \in MCPeriods |-> IF p = "daily" THEN 1 ELSE 2]
MCLimit == [p \in MCPeriods |-> IF p = "daily" THEN 35 ELSE 80]
MCTargets == {-1, 0, 1}
MCEquities == {900, 1000}
AlwaysArmed == {TRUE}
EitherArming == {TRUE, FALSE}
============================================================================
