\* The services side by side: each part has its bounds.
CONSTANTS
    k1 = k1
    k2 = k2
    c1 = c1
    c2 = c2
    s1 = s1
    s2 = s2
    NoSession = NoSession
    AgentSessions <- MCSessions
    Keys <- MCKeys
    Contents <- MCContents
    SessionTtl = 2
    PacketTtl = 2
    ClaimTtl = 1
    LockWait = 1
    MaxTime = 3
    MaxRound = 2
    MaxVersion = 2
    MaxClaims = 2
    Projects <- MCKeys
    Sessions <- MCSessions
    Documents = {"d"}
    Versions = {1, 2}
    NewVersion = 1
    MaxWrites = 2
    MaxTokens = 2
    MaxRows = 3
    MaxRequests = 2
    Items <- MCItems
    Limit = 2
    LatestNow = 2
    MaxReviews = 1
    Widths = {1, 2}
    Chunk = 3
    Starters = {"a", "b", "f"}
    Fixtures = {"f"}
    Objects = {"o1", "o2"}
    Runs = {"r1", "r2"}
    Previews = {"v1", "v2"}
SPECIFICATION ServicesSpec
CHECK_DEADLOCK FALSE
SYMMETRY Symmetry
INVARIANTS VerifyOK OneCurrentCheckpoint PagesMissNothing HistoryIsCarried
PROPERTIES OneEvidencePerToken ClaimsAreFencing
