SPECIFICATION Spec
CONSTANTS
    HIGH = HIGH
    LOW = LOW
    Jobs = {j1, j2}
    NoJob = NoJob
    Priorities = {HIGH, LOW}
    QueueLimit <- MCQueueLimit
    MaxBatches = 2
    Timeouts = {1}
    MaxTime = 2
    MaxStarts = 2
    PredictYields = FALSE
    CacheTTL = 1
    CacheMax = 1
SYMMETRY MCSymmetry
INVARIANTS TypeOK ProcessingIsOwned ResultsComplete CountersExact CacheCoherent
PROPERTY ImplementsLifecycle
