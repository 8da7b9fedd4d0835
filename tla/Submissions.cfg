SPECIFICATION Spec
CONSTANTS
    QRR_LENGTH = 6
    Unset = Unset
    Connections = {"a", "b"}
    Instruction <- MCInstruction
    Profiles <- MCProfiles
    MaxRequests = 3
    Settings <- MCSettings
INVARIANTS
    SentAsAsked
    PayableAsWritten
    
PROPERTY
    ImplementsBook
CHECK_DEADLOCK FALSE
