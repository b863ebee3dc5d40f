SPECIFICATION Spec
CONSTANTS
    Papers = {1}
    NumCategories = 1
    ListedIn <- Alone
    Scopes = {1, 2}
    Matches <- MatchesSome
    Runs = {1, 2, 3}
    Mode <- Modes
    LogicalDate <- DateOfRun
    LogicalEnd <- EndOfRun
    Workers = {w1, w2}
    Nobody = Nobody
    BatchSize = 2
    PageSize = 2
    MaxPages = 2
    TicksPerDay = 1
    Lookback = 1
    Overlap = 1
    StartTime = 2
    InitialStamps = {0}
    MaxTime = 5
    MaxVersion = 2
    MaxRejections = 0
    MaxLockLosses = 1
    MaxPublications = 1
INVARIANTS
    CurrentVersionIsNewest
    ReprocessStaysInWindow
    NoGap
    WatermarkIsNewestHarvest
PROPERTIES
    FixedWindow
    CompleteIsFinal
CONSTRAINT OneAfterTheOther
SYMMETRY AnyWorker
CHECK_DEADLOCK FALSE
