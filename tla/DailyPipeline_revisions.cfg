SPECIFICATION Spec
CONSTANTS
    Executions = {1, 2}
    Mode <- OneScheduled
    Date <- SameDate
    Versions = {1}
    Limit = 1
    Workers = {w1, w2}
    None = None
    Contracts = 2
    StagingMayDie = TRUE
    MaxFaults = 1
    MaxExpiries = 0
INVARIANTS
    TypeOK
    TerminalExecutionsReplay
    RevisionsPublishTheirOwnAnalyses
PROPERTIES
    KeepsItsPromise
SYMMETRY AnyWorker
CHECK_DEADLOCK FALSE
