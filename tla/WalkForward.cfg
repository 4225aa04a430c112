CONSTANTS
    Histories <- MCHistories
    Plans <- MCPlans
    Features <- MCFeatures
    Barrier = 2
    CalPercent = 40
    Thresholds <- MCThresholds
    Probs <- MCProbs
    Sizes <- MCSizes
    FastWindow = 1
    SlowWindow = 2
    Lookback = 2
    SkipBars = 1
    Rebalance = 2
    FeeRate = 2
SPECIFICATION Spec
CHECK_DEADLOCK FALSE
INVARIANTS
    TypeOK
    HonestTraining
    FilledInTest
    ServedAsTrained
    DecisionsAgree
    WholeTradesMatchCash
    LotsMatchPosition
