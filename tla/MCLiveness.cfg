SPECIFICATION FairSpec
CONSTANTS
    HIGH = HIGH
    LOW = LOW
    Jobs = {j1, j2}
    NoJob = NoJob
    Priorities = {HIGH, LOW}
    QueueLimit <- MCQueueLimit
    MaxBatches = 2
    Timeouts = {1}
    MaxTime = 1
    MaxStarts = 1
    PredictYields = FALSE
    CacheTTL = 9
    CacheMax = 1
PROPERTIES JobsDecided StopReturns
