CONSTANTS
    BTC = BTC
    ETH = ETH
    Symbols = {BTC}
    Periods <- MCPeriods
    PeriodLen <- MCPeriodLen
    LimitPermille <- MCLimit
    InitialEquity = 1000
    Targets <- MCTargets
    Equities <- MCEquities
    Armings <- EitherArming
    CrashAnywhere = FALSE
    MaxTime = 2
    MaxStarts = 2
SPECIFICATION Spec
PROPERTIES
    DisarmedNeverTrades
CHECK_DEADLOCK FALSE
