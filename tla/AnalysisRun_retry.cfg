SPECIFICATION FairSpec
CONSTANTS
    Versions = {1, 2}
    Runs = {1, 2}
    Targets <- AllTargets
    Operation <- OtherOperations
    Mode <- OtherModes
    Execution <- OwnExecution
    LogicalDate <- OwnDate
    FullText = FALSE
    Workers = {w1, w2}
    Nobody = Nobody
    Contracts = 1
    MaxFaults = 2
    MaxLockLosses = 0
PROPERTIES
    RunsFinish
