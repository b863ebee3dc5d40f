SPECIFICATION FairSpec
CONSTANTS
    Papers = {1, 2}
    NumCategories = 2
    ListedIn <- CrossListed
    Scopes = {1}
    Matches <- MatchesAll
    Runs = {1}
    Mode <- Modes
    LogicalDate <- DateOfRun
    LogicalEnd <- EndOfRun
    Workers = {w1}
    Nobody = Nobody
    BatchSize = 1
    PageSize = 1
    MaxPages = 6
    TicksPerDay = 2
    Lookback = 1
    Overlap = 1
    StartTime = 2
    InitialStamps = {0}
    MaxTime = 3
    MaxVersion = 2
    MaxRejections = 3
    MaxLockLosses = 0
    MaxPublications = 0
INVARIANTS
    TypeOK
    WindowCovered
PROPERTIES
    EveryRunCompletes
CHECK_DEADLOCK FALSE
