CONSTANTS
    BTC = BTC
    ETH = ETH
    Symbols = {BTC, ETH}
    Periods <- MCPeriods
    PeriodLen <- MCPeriodLen
    LimitPermille <- MCLimit
    InitialEquity = 1000
    Targets <- MCTargets
    Equities <- MCEquities
    Armings <- AlwaysArmed
    CrashAnywhere = FALSE
    MaxTime = 2
    MaxStarts = 2
SPECIFICATION Spec
PROPERTIES
    HaltOutlivesRestart
CHECK_DEADLOCK FALSE
