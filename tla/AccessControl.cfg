SPECIFICATION AccessSpec
SYMMETRY Symmetry
CONSTANTS
    anna = anna
    bert = bert
    Connections = {c1, c2}
    NoConnection = NoConnection
    NoLevel = NoLevel
    NoClaim = NoClaim
    Missing = Missing
    Unset = Unset
    AdminNames = {"directors"}
    MemberNames = {"members"}
    Subjects = {anna}
    Clients = {anna, bert}
    CredentialsOf <- MCCredentials
    DoorsOf <- MCDoors
    MaxChanges = 2
    MaxLost = 1
INVARIANTS ActsWithinReach  TrailSaysLevelInForce
