SPECIFICATION Spec
CONSTANTS
    w1 = w1
    w2 = w2
    s1 = s1
    s2 = s2
    hermetic = hermetic
    live = live
    Workers = {w1, w2}
    Sessions = {s1, s2}
    Calls = {hermetic, live}
    LiveCalls = {live}
    NoOne = NoOne
    MaxCalls = 3
    CostCap = 5
    Reserve = 2
    Within = 1
    Beyond = 3
    LeaseTtl = 2
    GrantTtl = 1
    AuthTtl = 1
    PermitTtl = 1
    MaxAuths = 1
    MaxTakes = 2
    MaxTime = 2
SYMMETRY Symmetry
INVARIANTS
    UsageReconstructs
    SentAsDecided
    PermitTellsLedger
PROPERTY SuccessIsKept
CHECK_DEADLOCK FALSE
