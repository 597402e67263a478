\* Long enough for two rounds with writes, a pause and a completion, and for
\* takeovers, renewals and handoffs under leases as short as the lock wait.
CONSTANTS
    h = h
    r1 = r1
    r2 = r2
    NoActor = NoActor
    Actors <- MCActors
    Admins <- MCAdmins
    Ttls = {1, 2}
    LockWait = 1
    RoundTypes = {"attack", "rehydration"}
    RequiredRounds = {"attack", "rehydration"}
    MaxTime = 4
    MaxToken = 3
    MaxVersion = 10
SPECIFICATION Spec
CHECK_DEADLOCK FALSE
SYMMETRY RunnerSymmetry
INVARIANTS TypeOK LiveOnlyWhileRunning VerifyRunOK CompletedIsStable
PROPERTIES NoEviction ImplementsFencingLease TerminalIsFrozen ContentIsFenced
