SPECIFICATION Spec
CONSTANTS
    HIGH = HIGH
    LOW = LOW
    Jobs = {j1, j2}
    NoJob = NoJob
    Priorities = {HIGH, LOW}
    QueueLimit <- MCQueueLimit
    MaxBatches = 2
    Timeouts = {1}
    MaxTime = 2
    MaxStarts = 1
    PredictYields = TRUE
    CacheTTL = 2
    CacheMax = 1
SYMMETRY MCSymmetry
INVARIANTS QueueOrder NoJobLost RepliesComplete CompletedCountedOnce
