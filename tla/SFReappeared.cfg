SPECIFICATION Spec
CONSTANTS
    s1 = s1
    Sources <- OneSource
    SourceWorkers = 1
    FetchMaxPerTick = 1
    Interval = 2
    Retention = 1
    Long = {}
    ETagOptional = FALSE
    FailureHasETag = FALSE
    StoreMayFail = FALSE
    Operators = FALSE
    MaxClock = 4
    MaxVersion = 1
PROPERTY ReappearedNodeIsKept
