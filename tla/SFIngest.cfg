SPECIFICATION Spec
CONSTANTS
    s1 = s1
    Sources <- OneSource
    SourceWorkers = 1
    FetchMaxPerTick = 1
    Interval = 2
    Retention = 1
    Long = {2}
    ETagOptional = TRUE
    FailureHasETag = FALSE
    StoreMayFail = FALSE
    Operators = TRUE
    MaxClock = 4
    MaxVersion = 2
INVARIANTS
    ETagMeansIngested
    BackoffRespected
PROPERTY ListedNodeIsKept
