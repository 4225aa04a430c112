CONSTANTS
    MaxQueue = 2
    MaxMessages = 5
SPECIFICATION Spec
INVARIANTS
    NothingLost
    ReturnsLast
    ExitAfterAll
PROPERTIES
    StopEnds
    AcceptedIsTried
