SPECIFICATION Spec
CONSTANTS
    Upstreams <- OldRequests
    Requests = {q1, q2, q3}
    Addresses <- OneClient
    Epoch = 2
    Seconds = 3
    MaxPicks = 6
    MaxFailures = 2
SYMMETRY RequestSymmetry
PROPERTIES
    EnabledByCheck
CHECK_DEADLOCK FALSE
