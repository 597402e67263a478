SPECIFICATION MCSpec
CONSTANTS
    Contents <- MCContents
    RequestTtl = 2
    LeaseTtl = 1
    MaxToken = 3
    MaxTime = 2
    Hermetic = {"h1"}
    Live = "live"
    ApprovalTtl = 2
    WindowTtl = 1
    MaxWindows = 2
    CapsuleTtl = 1
INVARIANTS SendsAreKnown CommittedIsSettled CapsuleTells
PROPERTY PreparationStands
CHECK_DEADLOCK FALSE
