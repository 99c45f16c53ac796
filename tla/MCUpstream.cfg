SPECIFICATION Spec
CONSTANTS
    Upstreams <- Blocks
    Requests = {q1, q2}
    Addresses <- Clients
    Epoch = 2
    Seconds = 2
    MaxPicks = 5
    MaxFailures = 2
SYMMETRY RequestSymmetry
INVARIANTS
    TypeOK
    ConnsAccount
    WeightsBalance
    Proportional
PROPERTIES
    NeverTwice
    NotPassedOver
    OneProbe
CHECK_DEADLOCK FALSE
