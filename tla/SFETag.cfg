SPECIFICATION Spec
CONSTANTS
    s1 = s1
    Sources <- OneSource
    SourceWorkers = 1
    FetchMaxPerTick = 1
    Interval = 2
    Retention = 3
    Long = {}
    ETagOptional = FALSE
    FailureHasETag = TRUE
    StoreMayFail = FALSE
    Operators = FALSE
    MaxClock = 4
    MaxVersion = 1
INVARIANT ETagMeansIngested
