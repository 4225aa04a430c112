CONSTANTS
    Periods <- MCPeriods
    PeriodLen <- MCPeriodLen
    LimitPermille <- MCLimit
    InitialEquity = 1000
    Closes <- MCCloses
    LastClose = 4
SPECIFICATION GatesSpec
INVARIANTS
    MarkIsPeriodHigh
    HaltedIffPeriodDrawdown
CHECK_DEADLOCK FALSE
