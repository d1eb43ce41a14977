SPECIFICATION Spec
CONSTANTS
    Requests = {r1, r2}
    MaxBatch = 1
    MinBatch = 1
    MaxWait = 1
    Nobody = Nobody
SYMMETRY MCSymmetry
INVARIANT ShutdownStrandsNone
CHECK_DEADLOCK FALSE
