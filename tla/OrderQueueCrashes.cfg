SPECIFICATION FairSpec
CONSTANTS
    Orders = {1}
    w1 = w1
    w2 = w2
    Workers = {w1, w2}
    Operators = {}
    RefusalCodes = {"in", "later"}
    RetryableCodes = {"later"}
    Whitelist = {"in"}
    OkCode = "ok"
    NoCode = "null"
    NoWorker = NoWorker
    MaxAttempts = 2
    LeaseOutlivesUpload = TRUE
    MaxReplays = 0
    MaxCrashes = 2
INVARIANTS EventUnlessLost AnswerOnItsAttempt
PROPERTY SettlesEventually
CHECK_DEADLOCK FALSE
