\* One order that may fall back and be replayed once, five documents, two
\* readers of which one may re-read everything, one operator, one lost step.
SPECIFICATION StatusSpec
CONSTANTS
    Orders = {1}
    NoOrder = NoOrder
    NoBooking = NoBooking
    Downloads = {r1}
    Rereadings = {r2}
    People = {p1}
    Statements = {1, 2, 3, 4, 5, 6, 7, 8, 9}
    Says <- OneOrdersDocuments
    Reference <- OneReference
    ConfirmsOpen = TRUE
    Sessions <- SomeSessions
    MaxReplays = 1
    MaxFaults = 1
INVARIANTS RereadSettles ConfirmedIsSuspected
PROPERTY ImplementsVerdict
CHECK_DEADLOCK FALSE
