SPECIFICATION Spec
CONSTANTS
    f1 = f1
    f2 = f2
    w1 = w1
    w2 = w2
    Fingerprints <- OneFingerprint
    Workers <- TwoWorkers
    Sampling = TRUE
    StoreMayFail = TRUE
    Retention = 1
    ChecksRetention = 1
    ManualBan = 4
    MaxFetchDelay = 0
    MaxClock = 3
    MaxChecks = 3
    MaxIds = 2
SYMMETRY Symmetry
INVARIANTS
    ChecksBelong
    CountersMatchLog
