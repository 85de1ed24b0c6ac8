CONSTANTS
    JobCount = 3
    Ceiling = 2
    ParseNeed = 2
    AnalysisNeed <- MCAnalysisNeed
    AnalysisWorker = 2
    Reserved = 2
    Critical = 1
    Readings = {0, 6}
SPECIFICATION FairSpec
INVARIANTS
    TypeOK
    GateAccounts
    CompleteMeansAll
    CancelledMeansAsked
    NothingOutlives
PROPERTIES
    BatchEnds
CHECK_DEADLOCK FALSE
