SPECIFICATION LifespanSpec
CONSTANTS
    Submits = {s1, s2, s3}
    Startup = lifespan
    InitRetries = 2
    NoProducer = NoProducer
    MaxSignals = 2
    NoTask = NoTask
INVARIANTS LifespanTypeOK ExitAfterDrain ProducerNotLeaked
PROPERTIES ReleasedInOrder DrainCompletes ExitReturns SubmitsAnswered
