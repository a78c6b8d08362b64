SPECIFICATION PartsSafety
CONSTANTS
    Parts = {"fetch", "limiter", "verify", "wal", "lifecycle", "subcheck", "maven", "catalog"}
    s1 = s1
    s2 = s2
    Sources <- MCSources
    SourceWorkers = 1
    FetchMaxPerTick = 2
    Interval = 2
    Retention = 1
    Long = {}
    ETagOptional = FALSE
    FailureHasETag = FALSE
    StoreMayFail = TRUE
    Operators = FALSE
    MaxClock = 2
    MaxVersion = 1
    k1 = k1
    r1 = r1
    r2 = r2
    l1 = l1
    l2 = l2
    tk = tk
    c1 = c1
    p1 = p1
    p2 = p2
    v1 = v1
    v2 = v2
    x1 = x1
    q1 = q1
    q2 = q2
    Clients <- MCClients
    Requests <- MCRequests
    Rate = 3
    Cost = 4
    Burst = 8
    LimiterHorizon = 4
    MaxWaited = 2
    Nodes <- MCVerified
    Slots = 1
    Limits = {1}
    FreshWithins = {1, 2}
    ProbeTicks = 2
    MaxMaintained = 1
    MaxEnds = 2
    MaxEvents = 3
    Loops <- MCLoops
    Ticker = tk
    Readers <- MCReaders
    SizeLimitEnv = 2
    HardLimitEnv = 3
    DefaultLimit = 3
    MaxBusy = 2
    MaxLog = 5
    PoolNodes = {1, 2, 3}
    MinFresh = 1
    MinLimit = 1
    MaxLimit = 1
    PoolWorkers = 1
    Credit = 2
    TopScore = 2
    MaxUpsets = 1
    Releases <- MCReleases
    MavenSource <- MCMavenSource
    OperatorURLs = {"x"}
    Intervals = {1, 2}
    SeedInterval = 1
    MaxStarts = 2
    Probers <- MCProbers
    Targets <- MCTargets
    Tunnelled <- MCTunnelled
    Ports <- MCPorts
    Subscription <- MCSubscription
    Listing <- MCListing
    PerPage = 2
    MaxPages = 3
    MavenSlots = 2
    Unescape <- MCEscapes
    QueryEscape <- MCQueryEscape
    Slashed = {"a/b"}
    HalfCreds = {"half"}
    IPv4Ports = {"a1", "a2"}
    Feeds <- MCFeeds
    Verdicts <- MCVerdicts
    IngestMax = 2
    MaxImports = 2
    MaxVerdicts = 3
INVARIANTS
    LimiterTypeOK
    WindowBounded
    VerifyOvershoot
    LadderExclusive
    SchemaComplete
    SettingsSurvive
    NothingLeft
    WrongTunnelOnlyByRace
    ResultsInPlace
    PagesMerged
    LinkIsTheNode
    ClashReadsBack
    EveryProxySelectable
    DuplicateOnlyBySuffix
PROPERTIES
    NoOverlap
    RefusedOnlyTooSoon
    VerifiedIsReplied
    DefaultsSeeded
CHECK_DEADLOCK FALSE
