SPECIFICATION FairSpec
CONSTANTS
    Requests = {r1, r2, r3}
    MaxBatch = 2
    MinBatch = 2
    MaxWait = 1
    Nobody = Nobody
INVARIANTS TypeOK QueueServed IdleMeansEmpty ProcessingHonest UnansweredQueued
PROPERTIES RequestsAnswered LoopsRetire ShutdownReturns
CHECK_DEADLOCK FALSE
