CONSTANTS
    btc = btc
    eth = eth
    Targets <- MCTargets
    Gappy = {eth}
    Lookback = 3
    Extra = 1
    MaxTime = 4
SPECIFICATION Spec
INVARIANTS
    OnlyClosedStored
PROPERTIES
    FillClosesAGap
    GapsClose
    ReconcilerStops
