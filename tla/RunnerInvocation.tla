-------------------------- MODULE RunnerInvocation --------------------------
(***************************************************************************)
(* run_next called by several processes for one run: each renews the       *)
(* runner's lease, claims the run's invocation, works, and releases its    *)
(* claim in a `finally`.  Processes of one session share the lease and its *)
(* fencing token, so that the claim is all that keeps them apart.          *)
(*                                                                         *)
(* Every method is one control_transaction and so one step.  Instants are  *)
(* modelled by the time left until them: `left` of a lease or a claim goes *)
(* down as time passes, and 0 is its expiry.  A method that read `now`     *)
(* before it waited for the write lock sees lag more time left than there  *)
(* is, lag up to LockWait; what is further past than that all looks past.  *)
(***************************************************************************)
EXTENDS Integers

CONSTANTS
    Procs,          \* processes that call run_next
    Sessions,       \* runner actors with their sessions
    SessionOf,      \* the session a process acts in
    Admin,          \* the administrator, as an owner of the lease
    None,           \* no claim
    Ttl,            \* lease_ttl, of leases and claims
    LockWait,       \* bound on how stale a method's `now` can be
    Outlives,       \* whether a process may still work when its claim expires
    MaxToken,       \* bound on fencing tokens
    MaxDeaths       \* bound on crashes

\* What the constants are assumed to be, where the module is instantiated.
ProcsAssumption ==
    SessionOf \in [Procs -> Sessions] /\ Admin \notin Sessions /\ None \notin Procs
TimesAssumption == LockWait \in Nat /\ Ttl \in Nat /\ LockWait < Ttl
InvocationBoundsAssumption ==
    MaxToken \in Nat \ {0} /\ MaxDeaths \in Nat /\ Outlives \in BOOLEAN

VARIABLES
    runStatus,      \* max_runs.status, from RUNNING on
    lease,          \* the run's row of max_leases
    place,          \* where each process is in run_next
    token,          \* the fencing token it was given
    claim,          \* the time left on the latest claim it made
    latest,         \* whose claim the latest row is, if that row is active
    deaths          \* how often a process crashed

invocationVars == <<runStatus, lease, place, token, claim, latest, deaths>>

Lag == 0..LockWait
Left == -LockWait..Ttl

InvocationTypeOK ==
    /\ runStatus \in {"RUNNING", "PAUSED", "CANCELLED", "COMPLETED"}
    /\ lease \in [owner : Sessions \cup {Admin}, token : 1..MaxToken, left : Left]
    /\ place \in [Procs -> {"idle", "renewed", "working"}]
    /\ token \in [Procs -> 0..MaxToken]
    /\ claim \in [Procs -> Left]
    /\ latest \in Procs \cup {None}
    /\ deaths \in 0..MaxDeaths

\* The run has just been handed to a session.
InvocationInit ==
    /\ runStatus = "RUNNING"
    /\ \E s \in Sessions : lease = [owner |-> s, token |-> 1, left |-> Ttl]
    /\ place = [p \in Procs |-> "idle"]
    /\ token = [p \in Procs |-> 0]
    /\ claim = [p \in Procs |-> -LockWait]
    /\ latest = None
    /\ deaths = 0

Working(p) == place[p] = "working"

Later(left) == IF left = -LockWait THEN left ELSE left - 1

\* With Outlives = FALSE time does not run out on a process at work.
Tick ==
    /\ Outlives \/ \A p \in Procs : Working(p) => claim[p] > 1
    /\ lease' = [lease EXCEPT !.left = Later(@)]
    /\ claim' = [p \in Procs |-> Later(claim[p])]
    /\ UNCHANGED <<runStatus, place, token, latest, deaths>>

(***************************************************************************)
(* The lease around run_next                                               *)
(***************************************************************************)
runNextVars == <<place, token, claim, latest, deaths>>

\* pause, cancel and completion, by whoever holds the lease: it ends at the
\* method's `now`.
End(to) ==
    /\ runStatus = "RUNNING"
    /\ lease.left > 0
    /\ runStatus' = to
    /\ \E lag \in Lag : lease' = [lease EXCEPT !.left = -lag]
    /\ UNCHANGED runNextVars

CancelPaused ==
    /\ runStatus = "PAUSED"
    /\ runStatus' = "CANCELLED"
    /\ UNCHANGED <<lease, runNextVars>>

\* resume gives the lease to the administrator.
ResumeRun ==
    /\ runStatus = "PAUSED"
    /\ lease.token < MaxToken
    /\ runStatus' = "RUNNING"
    /\ lease' = [owner |-> Admin, token |-> lease.token + 1, left |-> Ttl]
    /\ UNCHANGED runNextVars

\* acquire_lease; the row keeps its runner_profile_hash, so that a session
\* that takes an expired lease over this way may go on to run_next.
AcquireLease(o) ==
    /\ runStatus = "RUNNING"
    /\ lease.left <= 0 \/ lease.owner = o
    /\ lease.token < MaxToken
    /\ lease' = [owner |-> o, token |-> lease.token + 1, left |-> Ttl]
    /\ UNCHANGED <<runStatus, runNextVars>>

\* handoff_runner of a running run: from the administrator's own lease, or
\* from an expired one, which takes two tokens.
HandOff(s) ==
    /\ runStatus = "RUNNING"
    /\ \E lag \in Lag :
         \E tokens \in IF lease.left + lag <= 0 THEN {2}
                       ELSE IF lease.owner = Admin /\ lease.left > 0 THEN {1} ELSE {} :
           /\ lease.token + tokens <= MaxToken
           /\ lease' = [owner |-> s, token |-> lease.token + tokens, left |-> Ttl - lag]
    /\ UNCHANGED <<runStatus, runNextVars>>

(***************************************************************************)
(* run_next                                                                *)
(***************************************************************************)

\* claim_runner_lease: the expiry is compared with the method's `now`.
RenewLease(p) ==
    /\ place[p] = "idle"
    /\ runStatus = "RUNNING"
    /\ lease.owner = SessionOf[p]
    /\ \E lag \in Lag :
         /\ lease.left + lag > 0
         /\ lease' = [lease EXCEPT !.left = Ttl - lag]
    /\ token' = [token EXCEPT ![p] = lease.token]
    /\ place' = [place EXCEPT ![p] = "renewed"]
    /\ UNCHANGED <<runStatus, claim, latest, deaths>>

\* _assert_fence, with a fresh clock.
Fenced(p) == lease.owner = SessionOf[p] /\ lease.token = token[p] /\ lease.left > 0

\* Mutant: an expired claim goes on counting.
BusyForever(lag) == latest # None

\* Mutant: claims made under an earlier fencing token are passed over.
BusyUnderToken(lag) ==
    latest # None /\ token[latest] = lease.token /\ claim[latest] + lag > 0

\* Only the latest row is looked at, active and by the method's `now` not yet
\* expired.
Busy(lag) == latest # None /\ claim[latest] + lag > 0

\* The expiry a claim is given, by the method's `now`.
Claimed(lag) == Ttl - lag

\* claim_invocation appends an active row.
ClaimInvocation(p) ==
    /\ place[p] = "renewed"
    /\ Fenced(p)
    /\ \E lag \in Lag :
         /\ ~Busy(lag)
         /\ claim' = [claim EXCEPT ![p] = Claimed(lag)]
    /\ latest' = p
    /\ place' = [place EXCEPT ![p] = "working"]
    /\ UNCHANGED <<runStatus, lease, token, deaths>>

\* claim_invocation refuses, RUN_NEXT_BUSY or a stale fence: run_next raises,
\* with the lease renewed.
ClaimRefused(p) ==
    /\ place[p] = "renewed"
    /\ ~Fenced(p) \/ \E lag \in Lag : Busy(lag)
    /\ place' = [place EXCEPT ![p] = "idle"]
    /\ UNCHANGED <<runStatus, lease, token, claim, latest, deaths>>

\* release_invocation asks for the fence unless the run is paused or cancelled.
MayRelease(p) == runStatus \in {"PAUSED", "CANCELLED"} \/ Fenced(p)

\* release_invocation appends a row of its own, which is the latest one from
\* now on, whoever claimed in between.
ReleaseInvocation(p) ==
    /\ Working(p)
    /\ MayRelease(p)
    /\ claim' = [claim EXCEPT ![p] = 0]
    /\ latest' = None
    /\ place' = [place EXCEPT ![p] = "idle"]
    /\ UNCHANGED <<runStatus, lease, token, deaths>>

\* A refused release is swallowed: the row stays as it was.
ReleaseRefused(p) ==
    /\ Working(p)
    /\ ~MayRelease(p)
    /\ place' = [place EXCEPT ![p] = "idle"]
    /\ UNCHANGED <<runStatus, lease, token, claim, latest, deaths>>

Dies(p) ==
    /\ place[p] # "idle"
    /\ deaths < MaxDeaths
    /\ deaths' = deaths + 1
    /\ place' = [place EXCEPT ![p] = "idle"]
    /\ UNCHANGED <<runStatus, lease, token, claim, latest>>

(***************************************************************************)
(* The specification                                                       *)
(***************************************************************************)
LeaseStep ==
    \/ \E to \in {"PAUSED", "CANCELLED", "COMPLETED"} : End(to)
    \/ CancelPaused \/ ResumeRun
    \/ \E o \in Sessions \cup {Admin} : AcquireLease(o)
    \/ \E s \in Sessions : HandOff(s)

RunNext(p) ==
    \/ RenewLease(p) \/ ClaimInvocation(p) \/ ClaimRefused(p)
    \/ ReleaseInvocation(p) \/ ReleaseRefused(p) \/ Dies(p)

InvocationNext == Tick \/ LeaseStep \/ \E p \in Procs : RunNext(p)

InvocationSpec == InvocationInit /\ [][InvocationNext]_invocationVars

\* Callers of run_next keep calling it, as the scheduler's tick loop does, and
\* a transaction that waits for the lock is served; time passes.
Fairness ==
    /\ WF_invocationVars(Tick)
    /\ \A p \in Procs :
         /\ WF_invocationVars(RenewLease(p))
         /\ WF_invocationVars(ClaimInvocation(p) \/ ClaimRefused(p))

FairSpec == InvocationSpec /\ Fairness

(***************************************************************************)
(* Properties                                                              *)
(***************************************************************************)

\* The claim is a mutex: two processes never work on the run with claims that
\* have both not expired.
OneLiveClaim ==
    InvocationTypeOK /\ \A p, q \in Procs :
        Working(p) /\ Working(q) /\ claim[p] > 0 /\ claim[q] > 0 => p = q

\* The latest claim belongs to a process that crashed or could not release it.
Abandoned == latest # None /\ ~Working(latest)

\* A process works, or there is nothing to pick up any more.
Rescued ==
    \/ \E p \in Procs : Working(p)
    \/ lease.left <= 0
    \/ runStatus # "RUNNING"

\* A crash with the claim held does not wedge a running run: callers that are
\* turned away as busy renew the lease and not the claim, so that one of them
\* gets in, unless the lease is lost or the run ended or paused meanwhile.
CrashIsPickedUp == Abandoned ~> Rescued

=============================================================================
