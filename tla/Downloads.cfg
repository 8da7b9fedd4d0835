SPECIFICATION FairSpec
CONSTANTS
    doc1 = doc1
    doc2 = doc2
    Documents = {doc1, doc2}
    Unreadable = {doc2}
    w1 = w1
    w2 = w2
    Workers = {w1, w2}
    op = op
    Operators = {op}
    WindowDays = 1
    LastDay = 4
    LeaseOutlivesDownload = TRUE
    RefetchBehindMark = TRUE
    MaxFailures = 1
    MaxOperations = 1
    MaxCrashes = 1
INVARIANTS NoGap AckedIsStored OneDownload
PROPERTY PublishedIsStored
CHECK_DEADLOCK FALSE
