CONSTANTS
    Sessions = {s1}
    NoOne = NoOne
    Caps = {1, 2}
    IdleCap = 2
    PacketCap = 3
    Members = 3
    CallsPerIteration = 2
    MaxIterations = 2
    LeaseTtl = 2
    WindowTtl = 2
    PermitTtl = 1
    ApprovalTtl = 1
    MaxTime = 3
    MaxTakes = 2
    Commands = {"pause", "resume", "revoke"}
    MaxWindows = 2
    MaxCommands = 2
SPECIFICATION Spec
INVARIANTS
    WindowsAccount
    RoundsRecur
PROPERTY
    SettledInOpenWindow
CHECK_DEADLOCK FALSE
