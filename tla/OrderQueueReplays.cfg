SPECIFICATION Spec
CONSTANTS
    Orders = {1}
    w1 = w1
    w2 = w2
    Workers = {w1, w2}
    Operators = {op}
    RefusalCodes = {"in", "later"}
    RetryableCodes = {"later"}
    Whitelist = {"in"}
    OkCode = "ok"
    NoCode = "null"
    NoWorker = NoWorker
    MaxAttempts = 2
    LeaseOutlivesUpload = TRUE
    MaxReplays = 1
    MaxCrashes = 0
SYMMETRY WorkerSymmetry
INVARIANTS OneUploader OneMessageUnlessReplayed LiveAttemptIsTheOrders
PROPERTY ImplementsLifecycle
CHECK_DEADLOCK FALSE
