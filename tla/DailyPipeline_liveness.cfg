SPECIFICATION FairSpec
CONSTANTS
    Executions = {1, 2}
    Mode <- AllScheduled
    Date <- OwnDate
    Versions = {1}
    Limit = 1
    Workers = {w1}
    None = None
    Contracts = 2
    StagingMayDie = TRUE
    MaxFaults = 1
    MaxExpiries = 1
PROPERTIES
    ExecutionsFinish
CHECK_DEADLOCK FALSE
