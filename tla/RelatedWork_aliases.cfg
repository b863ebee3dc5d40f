SPECIFICATION Spec
CONSTANTS
    None = None
    Records <- TheRecords
    Source = 100
    Year = 1
    Corpus <- TheCorpus
    Plans <- AnyPlan
    Replies <- AnyReply
    Elsewhere <- AnyElsewhere
    MaxSteps = 4
    MaxQueries = 2
    MaxQueue = 4
    MaxDepth = 1
    MaxCandidates = 4
    MaxSelected = 1
    MaxTargets = 1
    MaxFaults = 1
    MaxStores = 0
INVARIANT
    CitesIsADirectReference
CHECK_DEADLOCK FALSE
