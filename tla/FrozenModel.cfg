CONSTANTS
    NSymbols = 2
    Horizon = 1
    MaxBars = 3
    MaxCode = 2
SPECIFICATION FreezeSpec
INVARIANTS
    OutOfSample
