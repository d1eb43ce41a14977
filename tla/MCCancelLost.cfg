SPECIFICATION Spec
CONSTANTS
    HIGH = HIGH
    LOW = LOW
    Jobs = {j1}
    NoJob = NoJob
    Priorities = {LOW}
    QueueLimit <- MCQueueLimit
    MaxBatches = 1
    Timeouts = {1}
    MaxTime = 1
    MaxStarts = 1
    PredictYields = TRUE
    CacheTTL = 1
    CacheMax = 1
PROPERTY CancelIsFinal
