CONSTANTS
    Batch = 2
    MonthLen = 2
    MaxTime = 3
SPECIFICATION Spec
INVARIANTS
    PagesWholeWindow
