SPECIFICATION Spec
CONSTANTS
    Versions = {1, 2}
    Concepts = {10}
    About <- OneConcept
    Targets <- SecondOnFirst
    Runs = {1, 2, 3}
    Date <- TwoDates
    Space <- Standalone
    Smoke = {}
    Analysed <- FirstOrSecond
    Unanalysed <- SecondFails
    Unusable <- Nothing
    Dropped <- Nothing
    Workers = {w1, w2}
    Nobody = Nobody
    None = None
    Windows = {1, 2}
    MinDays = 2
    MinPapers = 1
    MaxFaults = 1
    MaxLosses = 1
    MaxDrafts = 2
INVARIANTS
    TypeOK
    OneAttemptPerRun
    OnlyCascadesLoseGraphs
    FailedRunsLeaveNothing
    TrendsCountPublishedWork
    SharedGraphsArePublished
    PeriodCountsDatesOnce
PROPERTIES
    KeepsItsPromise
SYMMETRY AnyWorker
CHECK_DEADLOCK FALSE
