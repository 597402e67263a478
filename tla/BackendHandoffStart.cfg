\* start on a paused run against the acknowledgement rule.
CONSTANTS
    b1 = b1
    b2 = b2
    NoBackend = NoBackend
    Backends <- MCBackends
    HandoffTtl = 2
    ClaimTtl = 2
    LockWait = 1
    MaxTime = 4
    MaxState = 2
    MaxGeneration = 1
SPECIFICATION Spec
CHECK_DEADLOCK FALSE
SYMMETRY BackendSymmetry
PROPERTIES NoUnacknowledgedStart
