------------------------------ MODULE Scheduler ------------------------------
(***************************************************************************)
(* The foreground scheduler: processes that call run_bounded for one run,  *)
(* each a bounded loop of ticks around the runner's run_next.  A tick      *)
(* reads run, grant, lease and current pointer on connections of their own *)
(* (Look), consumes the grant if it is the first, enters or takes over the *)
(* durable session, runs run_next, and appends the tick: each of these is  *)
(* a transaction, and between them the lease can pass to another session,  *)
(* the run can pause, the grant can expire and a process can die.          *)
(*                                                                         *)
(* Processes of one session share lease and token.  What run_next does is  *)
(* in RunnerInvocation and RunnerCall; here it is one step with a result,  *)
(* since its claim lets one process at a time through.  The usage of the   *)
(* grant is ProviderDispatch's: it can be exhausted whenever it is read.   *)
(***************************************************************************)
EXTENDS Integers, Sequences

CONSTANTS
    Schedulers,     \* processes that call run_bounded, each in any session
    SchedulerSessions,  \* worker actors with their sessions
    Admin,          \* the administrator, as an owner of the lease
    None,           \* no consumer, no reason
    MaxTicks, MaxIterations, MaxFailures, MaxIdle, WallClock,  \* the frozen policy
    Bound,          \* max_ticks of one call of run_bounded
    LeaseTtl,
    GrantExpiry,    \* when the grant expires
    SchedulerMaxTime,   \* bound on the clock
    MaxToken,       \* bound on fencing tokens
    MaxLost         \* bound on the iterations no tick records

VARIABLES
    schedulerClock, \* the wall clock
    schedulerRun,   \* max_runs: status and current_state_hash
    schedulerLease, \* the run's row of max_leases
    executionGrant, \* who consumed the execution grant
    sessions,       \* max_scheduler_sessions
    pointer,        \* max_scheduler_current, at session 0 while there is none
    ticks,          \* max_scheduler_ticks
    loop,           \* where each process is, and what it has read
    lost            \* iterations that were run and not recorded

controlVars == <<schedulerRun, schedulerLease, executionGrant>>
durableVars == <<sessions, pointer, ticks>>
schedulerVars == <<schedulerClock, controlVars, durableVars, loop, lost>>

Stops == {"max_ticks", "max_iterations", "wall_clock_limit", "run_paused", "grant_expired",
          "budget_exhausted", "usage_dispute", "continuous_failure", "no_progress"}
Results == {"progress", "same", "failed", "disputed", "paused"}
Failed == {"failed", "disputed"}
\* The policy's numbers and the bound of a call are checked to be positive.
ASSUME SchedulerAssumption ==
    /\ {MaxTicks, MaxIterations, MaxFailures, MaxIdle, Bound} \subseteq Nat \ {0}
    /\ {LeaseTtl, MaxLost} \subseteq Nat
    /\ {SchedulerMaxTime, MaxToken} \subseteq Nat \ {0}
    /\ None \notin Stops

SchedulerPlaces ==
    {"idle", "looking", "stopping", "consuming", "entering", "working", "appending"}
Outside == [at |-> "idle", me |-> None, left |-> 0, session |-> 0, tick |-> 0, token |-> 0,
            prior |-> 0, outcome |-> None]

LoopRow == [at : SchedulerPlaces, me : SchedulerSessions \cup {None}, left : 0..Bound,
            session : Nat, tick : Nat, token : 0..MaxToken, prior : Nat,
            outcome : Stops \cup Results \cup {None}]
PointerRow == [session : Nat, tick : Nat, status : {"active", "stopped", "paused"},
               stop : Stops \cup {None}, failures : Nat, idle : Nat]
SessionRow == [owner : SchedulerSessions, token : 1..MaxToken, started : 1..SchedulerMaxTime]
TickRow == [in : Nat, out : Nat, failed : BOOLEAN]

\* Whether the pointer is what the scheduler's verify recomputes of the sessions.
Verified ==
    /\ pointer.session = Len(sessions)
    /\ pointer.status # "active" => pointer.stop # None

SchedulerTypeOK ==
    /\ schedulerClock \in 1..SchedulerMaxTime
    /\ schedulerRun \in [status : {"RUNNING", "PAUSED"}, hash : 1..(MaxTicks + MaxLost + 1)]
    /\ schedulerLease \in [owner : SchedulerSessions \cup {Admin}, token : 1..MaxToken,
                           expires : Nat, released : BOOLEAN]
    /\ executionGrant \in SchedulerSessions \cup {None}
    /\ sessions \in Seq(SessionRow)
    /\ pointer \in PointerRow
    /\ ticks \in Seq(TickRow)
    /\ loop \in [Schedulers -> LoopRow]
    /\ lost \in 0..MaxLost
    /\ Verified

\* The run has just been handed to a session, and the grant issued.
SchedulerInit ==
    /\ schedulerClock = 1
    /\ schedulerRun = [status |-> "RUNNING", hash |-> 1]
    /\ \E s \in SchedulerSessions :
         schedulerLease = [owner |-> s, token |-> 1, expires |-> 1 + LeaseTtl,
                           released |-> FALSE]
    /\ executionGrant = None
    /\ sessions = <<>>
    /\ pointer = [session |-> 0, tick |-> 0, status |-> "active", stop |-> None,
                  failures |-> 0, idle |-> 0]
    /\ ticks = <<>>
    /\ loop = [p \in Schedulers |-> Outside]
    /\ lost = 0

TimePasses ==
    /\ schedulerClock < SchedulerMaxTime
    /\ schedulerClock' = schedulerClock + 1
    /\ UNCHANGED <<controlVars, durableVars, loop, lost>>

(***************************************************************************)
(* The administrator (RunControl)                                          *)
(***************************************************************************)
Leased(owner, token) ==
    [owner |-> owner, token |-> token, expires |-> schedulerClock + LeaseTtl,
     released |-> FALSE]

\* An expired lease is taken by the administrator and handed on in one transaction.
HandoffExpired(s) ==
    /\ schedulerRun.status = "RUNNING"
    /\ schedulerClock >= schedulerLease.expires
    /\ schedulerLease.token + 2 <= MaxToken
    /\ schedulerLease' = Leased(s, schedulerLease.token + 2)
    /\ UNCHANGED <<schedulerClock, schedulerRun, executionGrant, durableVars, loop, lost>>

HandoffHeld(s) ==
    /\ schedulerRun.status = "RUNNING"
    /\ schedulerLease.owner = Admin /\ ~schedulerLease.released
    /\ schedulerClock < schedulerLease.expires
    /\ schedulerLease.token < MaxToken
    /\ schedulerLease' = Leased(s, schedulerLease.token + 1)
    /\ UNCHANGED <<schedulerClock, schedulerRun, executionGrant, durableVars, loop, lost>>

ResumeRun ==
    /\ schedulerRun.status = "PAUSED"
    /\ schedulerLease.token < MaxToken
    /\ schedulerRun' = [schedulerRun EXCEPT !.status = "RUNNING"]
    /\ schedulerLease' = Leased(Admin, schedulerLease.token + 1)
    /\ UNCHANGED <<schedulerClock, executionGrant, durableVars, loop, lost>>

(***************************************************************************)
(* A tick before run_next                                                  *)
(***************************************************************************)
Me(p) == loop[p].me
Owns(p) == schedulerLease.owner = Me(p)

\* The process is done: run_bounded returned, or an exception left it.
Leaves(p) == loop' = [loop EXCEPT ![p] = Outside]

Stopping(p, reason) ==
    loop' = [loop EXCEPT ![p] = [@ EXCEPT !.at = "stopping", !.session = pointer.session,
                                          !.outcome = reason]]

Begin(p, s) ==
    /\ loop[p].at = "idle"
    /\ loop' = [loop EXCEPT ![p] = [Outside EXCEPT !.at = "looking", !.me = s, !.left = Bound]]
    /\ UNCHANGED <<schedulerClock, controlVars, durableVars, lost>>

\* _preflight_worker_authority: what an administrator has to have prepared.
Prepared(p) ==
    /\ Owns(p) /\ ~schedulerLease.released /\ schedulerClock < schedulerLease.expires
    /\ pointer.session = 0 => executionGrant \in {None, Me(p)}

\* The grant and the run's status come before the preflight of the worker's authority:
\* for them any caller stops the session that is current.
Look(p) ==
    /\ loop[p].at = "looking"
    /\ IF schedulerClock >= GrantExpiry \/ schedulerRun.status # "RUNNING"
       THEN IF pointer.session = 0 THEN Leaves(p)
            ELSE Stopping(p, IF schedulerClock >= GrantExpiry THEN "grant_expired"
                             ELSE "run_paused")
       ELSE IF ~Prepared(p) THEN Leaves(p)
       ELSE \/ loop' = [loop EXCEPT ![p].at =
                  IF pointer.session = 0 THEN "consuming" ELSE "entering"]
            \/ pointer.session # 0 /\ Stopping(p, "budget_exhausted")
    /\ UNCHANGED <<schedulerClock, controlVars, durableVars, lost>>

Stopped(reason) ==
    pointer' = [pointer EXCEPT !.status = IF reason = "run_paused" THEN "paused" ELSE "stopped",
                               !.stop = reason]

\* _update_stop asks for nothing but the session the caller has read.
Stop(p) ==
    /\ loop[p].at = "stopping"
    /\ IF pointer.session = loop[p].session THEN Stopped(loop[p].outcome)
       ELSE UNCHANGED pointer
    /\ Leaves(p)
    /\ UNCHANGED <<schedulerClock, controlVars, sessions, ticks, lost>>

ConsumeGrant(p) ==
    /\ loop[p].at = "consuming"
    /\ IF schedulerClock < GrantExpiry /\ executionGrant \in {None, Me(p)}
       THEN /\ executionGrant' = Me(p)
            /\ loop' = [loop EXCEPT ![p].at = "entering"]
       ELSE Leaves(p) /\ UNCHANGED executionGrant
    /\ UNCHANGED <<schedulerClock, schedulerRun, schedulerLease, durableVars, lost>>

(***************************************************************************)
(* The durable session                                                     *)
(***************************************************************************)
\* Mutant: the successor of a session counts its ticks from the beginning.
ContinuedAfresh(n) == [pointer EXCEPT !.session = n, !.failures = 0, !.idle = 0]

\* The pointer a takeover leaves: that of the session before, under the new one.
Continued(n) == [pointer EXCEPT !.session = n]

Opened(n, started) ==
    /\ sessions' = Append(sessions, [owner |-> schedulerLease.owner,
                                     token |-> schedulerLease.token, started |-> started])
    /\ pointer' = Continued(n)

\* A session is entered by its owner under its own token, and taken over by another
\* owner under a later one; the lease's expiry and release are not looked at.
Enterable(p) ==
    LET current == sessions[pointer.session]
    IN  IF current.owner = Me(p) THEN schedulerLease.token = current.token
        ELSE schedulerLease.token > current.token

\* Mutant: a session that has stopped is entered like any other.
HasStoppedNever == FALSE

HasStopped == pointer.status # "active"

\* Where a tick goes that has its session: to a stop, or on to run_next.
Proceeds(p, n, started) ==
    LET limit == IF pointer.tick >= MaxTicks THEN "max_ticks"
                 ELSE IF schedulerClock >= started + WallClock THEN "wall_clock_limit" ELSE None
    IN  IF HasStopped THEN Leaves(p)
        ELSE IF limit # None
        THEN loop' = [loop EXCEPT ![p] = [@ EXCEPT !.at = "stopping", !.session = n,
                                                   !.outcome = limit]]
        ELSE loop' = [loop EXCEPT ![p] = [@ EXCEPT !.at = "working", !.session = n,
                        !.tick = pointer.tick, !.token = schedulerLease.token,
                        !.prior = schedulerRun.hash]]

Enter(p) ==
    /\ loop[p].at = "entering"
    /\ IF schedulerRun.status # "RUNNING" \/ ~Owns(p) THEN Leaves(p) /\ UNCHANGED durableVars
       ELSE IF pointer.session = 0
       THEN Opened(1, schedulerClock) /\ Proceeds(p, 1, schedulerClock) /\ UNCHANGED ticks
       ELSE LET current == sessions[pointer.session]
            IN  IF ~Enterable(p) THEN Leaves(p) /\ UNCHANGED durableVars
                ELSE IF current.owner = Me(p)
                THEN Proceeds(p, pointer.session, current.started) /\ UNCHANGED durableVars
                ELSE /\ Opened(pointer.session + 1, current.started)
                     /\ Proceeds(p, pointer.session + 1, current.started)
                     /\ UNCHANGED ticks
    /\ UNCHANGED <<schedulerClock, controlVars, lost>>

(***************************************************************************)
(* run_next                                                                *)
(***************************************************************************)
\* run_next renews the lease, works under it and may pause the run; what it raises is a
\* failed tick.
Works(p, result) ==
    /\ loop[p].at = "working"
    /\ loop' = [loop EXCEPT ![p].at = "appending", ![p].outcome = result]
    /\ IF result = "failed" THEN UNCHANGED <<schedulerRun, schedulerLease>>
       ELSE /\ schedulerRun.status = "RUNNING" /\ Owns(p)
            /\ ~schedulerLease.released /\ schedulerClock < schedulerLease.expires
            /\ result = "progress" => schedulerRun.hash <= MaxTicks + MaxLost
            /\ schedulerRun' =
                 [status |-> IF result = "paused" THEN "PAUSED" ELSE schedulerRun.status,
                  hash |-> schedulerRun.hash + (IF result = "progress" THEN 1 ELSE 0)]
            /\ schedulerLease' = [Leased(schedulerLease.owner, schedulerLease.token)
                                   EXCEPT !.released = result = "paused"]
    /\ UNCHANGED <<schedulerClock, executionGrant, durableVars, lost>>

(***************************************************************************)
(* The tick's record                                                       *)
(***************************************************************************)
\* Mutant: that the session is active is asked, the number of the tick is not.
AuthoritativeActive(p) ==
    /\ pointer.session = loop[p].session
    /\ pointer.status = "active"
    /\ Owns(p) /\ schedulerLease.token = loop[p].token

\* The pointer is where the tick began, under the session's token: neither the lease's
\* expiry and release nor the pointer's status is looked at.
Authoritative(p) ==
    /\ pointer.session = loop[p].session
    /\ pointer.tick = loop[p].tick
    /\ Owns(p) /\ schedulerLease.token = loop[p].token

Failures(result) == IF result \in Failed THEN pointer.failures + 1 ELSE 0
Unmoved(prior) == IF schedulerRun.hash = prior THEN pointer.idle + 1 ELSE 0

\* Why the tick is the last one, in the order in which it is decided.
Reason(result, tick, failures, idle) ==
    IF result = "disputed" THEN "usage_dispute"
    ELSE IF failures >= MaxFailures THEN "continuous_failure"
    ELSE IF idle >= MaxIdle THEN "no_progress"
    ELSE IF tick >= MaxIterations THEN "max_iterations"
    ELSE IF result = "paused" THEN "run_paused" ELSE None

\* The pointer after the tick.
Recorded(p, result) ==
    LET tick == pointer.tick + 1
        failures == Failures(result)
        idle == Unmoved(loop[p].prior)
        reason == Reason(result, tick, failures, idle)
    IN  [pointer EXCEPT !.tick = tick, !.failures = failures, !.idle = idle, !.stop = reason,
                        !.status = IF reason = None THEN "active" ELSE "stopped"]

\* After its last tick run_bounded stops the session, if the tick did not.
AppendTick(p) ==
    LET result == loop[p].outcome
        next == Recorded(p, result)
    IN  /\ loop[p].at = "appending"
        /\ Authoritative(p)
        /\ pointer' = next
        /\ ticks' = Append(ticks, [in |-> loop[p].prior, out |-> schedulerRun.hash,
                                   failed |-> result \in Failed])
        /\ IF next.stop # None THEN Leaves(p)
           ELSE IF loop[p].left = 1
           THEN loop' = [loop EXCEPT ![p] = [@ EXCEPT !.at = "stopping",
                                                      !.outcome = "max_ticks"]]
           ELSE loop' = [loop EXCEPT ![p] = [Outside EXCEPT !.at = "looking", !.me = Me(p),
                                                         !.left = loop[p].left - 1]]
        /\ UNCHANGED <<schedulerClock, controlVars, sessions, lost>>

Worked(p) == loop[p].at = "appending" /\ loop[p].outcome \notin Failed

\* The append is refused, and the exception leaves run_bounded.
RefuseTick(p) ==
    /\ loop[p].at = "appending"
    /\ ~Authoritative(p)
    /\ Worked(p) => lost < MaxLost
    /\ lost' = IF Worked(p) THEN lost + 1 ELSE lost
    /\ Leaves(p)
    /\ UNCHANGED <<schedulerClock, controlVars, durableVars>>

LoopDies(p) ==
    /\ loop[p].at # "idle"
    /\ Worked(p) => lost < MaxLost
    /\ lost' = IF Worked(p) THEN lost + 1 ELSE lost
    /\ Leaves(p)
    /\ UNCHANGED <<schedulerClock, controlVars, durableVars>>

(***************************************************************************)
(* Specification                                                           *)
(***************************************************************************)
Process(p) ==
    \/ \E s \in SchedulerSessions : Begin(p, s)
    \/ Look(p) \/ Stop(p) \/ ConsumeGrant(p) \/ Enter(p)
    \/ \E result \in Results : Works(p, result)
    \/ AppendTick(p) \/ RefuseTick(p) \/ LoopDies(p)

SchedulerNext ==
    \/ TimePasses \/ ResumeRun
    \/ \E s \in SchedulerSessions : HandoffExpired(s) \/ HandoffHeld(s)
    \/ \E p \in Schedulers : Process(p)

SchedulerSpec == SchedulerInit /\ [][SchedulerNext]_schedulerVars

(***************************************************************************)
(* Properties                                                              *)
(***************************************************************************)
\* No restart, race or takeover gives the run a tick beyond its policy: neither ticks nor
\* failures in a row nor rounds without progress, each counted over all the sessions.
WithinPolicy ==
    LET n == Len(ticks)
    IN  /\ SchedulerTypeOK
        /\ n <= MaxTicks /\ n <= MaxIterations
        /\ \A i \in 1..(n - MaxFailures) :
             \E j \in i..(i + MaxFailures - 1) : ~ticks[j].failed
        /\ \A i \in 1..(n - MaxIdle) :
             \E j \in i..(i + MaxIdle - 1) : ticks[j].in # ticks[j].out

\* The ticks are a history of the run: each begins at a state no earlier than the one
\* the tick before it ended at, whichever process and session it ran in, so that a round
\* is never counted as without progress for another's work or the other way round; and the
\* pointer counts them all.
TicksChain ==
    /\ pointer.tick = Len(ticks)
    /\ \A i \in DOMAIN ticks :
         /\ ticks[i].in <= ticks[i].out
         /\ i > 1 => ticks[i - 1].out <= ticks[i].in

\* A scheduler that has stopped, with no tick of it under way.
Quiet ==
    /\ pointer.status # "active"
    /\ \A p \in Schedulers : loop[p].at \notin {"working", "appending"}

\* A scheduler that has stopped stays so through restarts, takeovers and resumes.  (Only a
\* tick that was under way when another caller stopped it reopens it: append reads no
\* status.)
StopHolds == [][Quiet => Quiet']_schedulerVars
=============================================================================
