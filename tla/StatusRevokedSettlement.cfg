\* One order, one reader, three reports in the order the bank wrote them.
SPECIFICATION StatusSpec
CONSTANTS
    Orders = {1}
    NoOrder = NoOrder
    NoBooking = NoBooking
    Downloads = {r1}
    Rereadings = {}
    People = {p1}
    Statements = {1, 2, 3}
    Says <- SettledThenRefused
    Reference <- OneReference
    ConfirmsOpen = TRUE
    Sessions <- EverySession
    MaxReplays = 0
    MaxFaults = 0
PROPERTY
    SettledIsNotRevoked
CHECK_DEADLOCK FALSE
