SPECIFICATION LineageSpec
CONSTANTS
    Papers = {1, 2, 3, 4, 5}
    Root = 1
    AsOf = 2
    NoDate = NoDate
    Permitted = {1, 2}
    Calendars <- MCCalendars
    Corpora <- MCCorpora
    Built <- MCBuilt
    Requested <- MCRequested
INVARIANTS
    SnapshotsAreValid
    TruncationIsTold
    AnswersAreBeginnings
CHECK_DEADLOCK FALSE
