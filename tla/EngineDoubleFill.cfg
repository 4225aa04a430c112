CONSTANTS
    BTC = BTC
    ETH = ETH
    Symbols = {BTC}
    Periods <- MCPeriods
    PeriodLen <- MCPeriodLen
    LimitPermille <- MCLimit
    InitialEquity = 1000
    Targets <- MCTargets
    Equities <- MCEquities
    Armings <- AlwaysArmed
    CrashAnywhere = TRUE
    MaxTime = 2
    MaxStarts = 2
SPECIFICATION Spec
INVARIANTS
    FillsOnce
CHECK_DEADLOCK FALSE
