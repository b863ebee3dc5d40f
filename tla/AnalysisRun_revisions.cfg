SPECIFICATION Spec
CONSTANTS
    Versions = {1}
    Runs = {1, 2}
    Targets <- AllTargets
    Operation <- Structured
    Mode <- Revisions
    Execution <- OwnExecution
    LogicalDate <- SameDate
    FullText = TRUE
    Workers = {w1, w2}
    Nobody = Nobody
    Contracts = 2
    MaxFaults = 1
    MaxLockLosses = 1
INVARIANTS
    TypeOK
    FinishedRunsAgree
    CompletedItemsAreBacked
PROPERTIES
    FinishedWorkIsKept
