SPECIFICATION Spec
CONSTANTS
    Claims <- MCClaims
    Executors = {e1, e2}
    LeaseTtl = 1
    ClaimTtl = 1
    ApprovalTtl = 1
    MaxToken = 2
    MaxTime = 1
SYMMETRY MCSymmetry
INVARIANTS OneRequest OutcomesAreTrue
PROPERTY CrossesWhileRunning
CHECK_DEADLOCK FALSE
