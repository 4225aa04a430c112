-------------------------- MODULE MCDrawdownGates --------------------------
\* Two layers, the longer one three times the shorter; three equities, of
\* which the lowest breaches both limits below the highest and one of them
\* below the middle one.
EXTENDS DrawdownGates

MCPeriods == {"daily", "weekly"}
MCPeriodLen == [p \in MCPeriods |-> IF p = "daily" THEN 1 ELSE 3]
MCLimit == [p \in MCPeriods |-> IF p = "daily" THEN 35 ELSE 80]
MCCloses == {900, 950, 1000}
============================================================================
