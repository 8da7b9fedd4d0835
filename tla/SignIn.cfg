SPECIFICATION Spec
CONSTANTS
    c1 = c1
    c2 = c2
    anna = anna
    zoe = zoe
    old = old
    new = new
    long = long
    Callers = {c1, c2}
    ProcessOf <- MCProcessOf
    SourceOf <- MCSourceOf
    Names = {anna, zoe}
    Words = {old, new}
    Oversized = long
    Nothing = Nothing
    SubjectThreshold = 2
    SourceThreshold = 3
    Window = 2
    Lockout = 1
    Kids = {"k1", "k2"}
    KeysLast = 3
    KeysRest = 1
    LoginLasts = 1
    SessionLasts = 2
    Settings <- MCSettings
INVARIANTS
    AdmittedIsCurrent
    GuessesBounded
    
    LoginAnsweredOnce
    KeysAreCurrent
CHECK_DEADLOCK FALSE
