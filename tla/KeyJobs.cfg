SPECIFICATION FairSpec
CONSTANTS
    k1 = k1
    k2 = k2
    Keys = {k1, k2}
    Pairs <- SomePairs
    Managed = {"X002"}
    w1 = w1
    w2 = w2
    Workers = {w1, w2}
    c1 = c1
    Consoles = {c1}
    NoPair = NoPair
    NoKey = NoKey
    MAX_ATTEMPTS = 2
    LeaseOutlivesJob = TRUE
    MaxJobs = 4
    MaxFaults = 1
INVARIANTS OneJob TrustedWasCompared ProgressIsTrue
PROPERTIES ImplementsLifecycle JobsEnd
CHECK_DEADLOCK FALSE
