\* A bill within its reservation, at the Charter's limit.
CONSTANTS
    Limits <- MCLimits
    CallBudget = 2
    Bills = {0, 1, 2}
    MaxIterations = 2
    MaxFailures = 0
SPECIFICATION LedgerSpec
CHECK_DEADLOCK FALSE
INVARIANTS WithinReservationSettles
