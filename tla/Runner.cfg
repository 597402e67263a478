\* A deliberation of two calls, run_next by three processes with runs that end
\* before their claims, and bills up to more than was reserved.
CONSTANTS
    p1 = p1
    p2 = p2
    p3 = p3
    s1 = s1
    s2 = s2
    Admin = Admin
    None = None
    NumCalls = 2
    Responses = {"accepted", "rejected", "failed", "overrun", "unbilled", "invalid"}
    Capabilities <- MCCapabilities
    HiddenErrors = FALSE
    MaxSends = 3
    MaxCrashes = 2
    Procs <- MCProcs
    Sessions <- MCSessions
    SessionOf <- MCSessionOf
    Hosts = {"h1"}
    Backends = {"b1", "b2"}
    Models = {"m1", "m2"}
    ModelOf <- MCModelOf
    Registered = {"h1", "b1"}
    Payloads = {1}
    Names = {"legacy"}
    MaxVersion = 3
    MaxHandoffs = 2
    Ttl = 2
    LockWait = 1
    Outlives = FALSE
    MaxToken = 3
    MaxDeaths = 1
    Limits <- MCLimits
    CallBudget = 2
    Bills = {0, 1, 2, 3}
    MaxIterations = 4
    MaxFailures = 2
SPECIFICATION RunnerSpec
CHECK_DEADLOCK FALSE
INVARIANTS ResultIsOfItsBackend OneLiveClaim NoUnauthorisedRepeat CompletedCallIsSettled
    ClosedGroupIsClean BillsAreSettledOnce
PROPERTIES CrashIsPickedUp
