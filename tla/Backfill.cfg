CONSTANTS
    Batch = 2
    MonthLen = 2
    MaxTime = 3
SPECIFICATION Spec
INVARIANTS
    BatchesAscend
    OnlyClosedBars
    WholeWindow
    LoadsLastRun
PROPERTIES
    BackfillEnds
