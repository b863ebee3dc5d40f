SPECIFICATION Spec
CONSTANTS
    None = None
    Records <- Aliases
    Weeks = {1, 2}
    Span = 1
    Workers = {w1, w2}
    Plan = 1
    Answers <- AnyAnswer
    Limit = 2
    MaxFaults = 1
    Before <- StoredBefore
    Found <- Searched
    MaxSearches = 1
INVARIANTS
    TypeOK
    CursorCoversPages
    NothingIsLost
    RepresentativesAreOneChoice
SYMMETRY AnyWorker
CHECK_DEADLOCK FALSE
