CONSTANTS
    Reports <- MCReports
    NFolds = 2
    NCells = 3
    Sweeps <- MCSweeps
    Gates <- MCGates
    Score <- MCScore
SPECIFICATION Spec
INVARIANTS
    TypeOK
    ReportedAsJudged
    RecommendedIsBest
