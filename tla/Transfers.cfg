SPECIFICATION FairSpec
CONSTANTS
    MaxLength = 8
    SEGMENT_SIZE = 2
    NoData = NoData
    MaxSetBacks = 3
    BesideNotices = FALSE
INVARIANT DoneIsDelivered
PROPERTIES ImplementsTransfer ComesToAnEnd
CHECK_DEADLOCK FALSE
