SPECIFICATION FairSpec
CONSTANTS
    Processes = {p1, p2}
    Nobody = Nobody
    None = None
    Budgets = {2, 6}
    Gap = 2
    Delays = {1}
    MaxRetries = 1
    MaxLosses = 1
INVARIANTS
    RequestsAreSpaced
PROPERTIES
    OperationsEnd
CHECK_DEADLOCK FALSE
