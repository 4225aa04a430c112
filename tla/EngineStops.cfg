CONSTANTS
    BTC = BTC
    ETH = ETH
    Symbols = {BTC, ETH}
    Periods <- MCPeriods
    PeriodLen <- MCPeriodLen
    LimitPermille <- MCLimit
    InitialEquity = 1000
    Targets <- MCTargets
    Equities <- MCEquities
    Armings <- EitherArming
    CrashAnywhere = FALSE
    MaxTime = 2
    MaxStarts = 3
SPECIFICATION Spec
INVARIANTS
    HaltedOrdersFlatten
PROPERTIES
    RestartsTransparently
CHECK_DEADLOCK FALSE
