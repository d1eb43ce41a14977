SPECIFICATION ComponentsSpec
CONSTANTS
    Partitions = {"p1", "p2"}
    Topic <- MCTopic
    NoId = NoId
    Drainers = {d1, d2}
    Batches = {b1, b2, b3, b4}
    NoBatch = NoBatch
    BatchSize = 2
    MaxRetries = 2
    OffsetHistory = 2
    MaxDeliveries = 4
    Callers = {c1, c2}
    FailureThreshold = 2
    RecoveryTimeout = 2
    MaxBreakerTime = 5
    Clients = {c1, c2}
    CacheTtl = 2
    ReadTime = 1
    NoEntry = NoEntry
    MaxVersions = 3
    MaxVaultTime = 5
    Requests = {r1, r2, r3}
    NoModel = NoModel
    MaxResets = 2
    Predictions = {r1, r2, r3}
    MaxShadowStops = 2
    Entries = {"e1", "e2", "e3", "e4"}
    Ttl <- MCTtl
    MaxEntries = 2
    MaxBufferTime = 3
INVARIANTS ComponentsTypeOK DeadLettersPaired HandledOnce LossesNamed NoRecentDuplicate
INVARIANTS StaleBound ReadYourWrites LatecomersShare StopSettles LiveEntriesKept
PROPERTY OpenSheds
CHECK_DEADLOCK FALSE
