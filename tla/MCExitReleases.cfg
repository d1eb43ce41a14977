SPECIFICATION LifespanSpec
CONSTANTS
    Submits = {s1, s2}
    Startup = lifespan
    InitRetries = 2
    NoProducer = NoProducer
    MaxSignals = 2
    NoTask = NoTask
INVARIANTS ReleasedAtExit
