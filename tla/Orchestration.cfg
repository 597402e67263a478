\* Around the runner.  Handoffs: two in a row, with packets created at the same instant.
CONSTANTS
    b1 = b1
    b2 = b2
    NoBackend = NoBackend
    Backends <- MCBackends
    HandoffTtl = 2
    ClaimTtl = 2
    LockWait = 1
    MaxTime = 5
    MaxState = 2
    MaxGeneration = 2
\* The scheduler: its policy, and takeovers between two sessions.
    p1 = p1
    p2 = p2
    s1 = s1
    s2 = s2
    w1 = w1
    w2 = w2
    Schedulers <- MCProcesses
    SchedulerSessions <- MCSessions
    Admin = Admin
    None = None
    MaxTicks = 3
    MaxIterations = 3
    MaxFailures = 1
    MaxIdle = 2
    WallClock = 1
    Bound = 2
    LeaseTtl = 1
    GrantExpiry = 2
    SchedulerMaxTime = 2
    MaxToken = 3
    MaxLost = 1
\* The worker.
    WorkerProcs <- MCProcesses
    WorkerSessions <- MCWorkerSessions
    NoActor = NoActor
    Commands = {"pause", "stop"}
    WorkerLeaseTtl = 1
    Rounds = 2
    WorkerMaxTime = 2
    WorkerMaxToken = 3
    MaxVersion = 2
    MaxCommands = 2
\* The acquisition of one source.
    Workers <- MCSessions
    Administrator = Administrator
    NoWorker = NoWorker
    Contents = {1, 2, 3}
    Invalid = {3}
    GrantTtl = 1
    RequestMaxTime = 2
SPECIFICATION OrchestrationSpec
SYMMETRY Symmetry
INVARIANTS WithinPolicy TicksChain AcquisitionVerified
PROPERTIES StopsAreHeeded HandoffIsOrderly
CHECK_DEADLOCK FALSE
