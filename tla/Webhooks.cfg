SPECIFICATION FairSpec
CONSTANTS
    Subscriptions = {1}
    d1 = d1
    d2 = d2
    Dispatchers = {d1, d2}
    Operators = {op}
    MaxEvents = 2
    MaxAttempts = 2
    ParkAfter = 2
    LeaseOutlivesPost = TRUE
    MaxOperations = 2
    MaxCrashes = 1
INVARIANTS  CountedOnce
PROPERTIES  RecordedIsServed
CHECK_DEADLOCK FALSE
