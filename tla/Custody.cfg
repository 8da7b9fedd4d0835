SPECIFICATION Spec
SYMMETRY Symmetry
CONSTANTS
    KeyRows = {1}
    Subscriptions = {1, 2}
    w1 = w1
    Workers = {w1}
    h1 = h1
    h2 = h2
    Handlers = {h1, h2}
    Careful = TRUE
    MaxSecrets = 3
    MaxIssued = 4
    MaxRuns = 2
    MaxLost = 1
INVARIANTS EndpointVerifies NothingStranded
CHECK_DEADLOCK FALSE
