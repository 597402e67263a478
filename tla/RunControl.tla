----------------------------- MODULE RunControl -----------------------------
(***************************************************************************)
(* One Max Research run in the control database: its status machine, the   *)
(* lease with its fencing token, the iteration in progress, the canonical  *)
(* graph with the Research State and the checkpoint bound to it, and the   *)
(* append-only ledger of transition results.                               *)
(*                                                                         *)
(* Every repository method runs in one control_transaction (BEGIN          *)
(* IMMEDIATE ... COMMIT, rolled back on any exception), so a method is one *)
(* step here and a refused call is no step.  What is not atomic is time: a *)
(* method reads `now` before it asks for the write lock and may wait for   *)
(* it, so the `now` it writes or compares can be up to LockWait behind the *)
(* clock; _assert_fence and _acquire_lease_connection read the clock again *)
(* under the lock.                                                         *)
(*                                                                         *)
(* A canonical graph is named by a number: rebuild_research_state is a     *)
(* deterministic function of the member versions, whose set only grows, so *)
(* a state hash is modelled by the number of the graph it is the hash of.  *)
(***************************************************************************)
EXTENDS Naturals

CONSTANTS
    Actors,         \* (actor_id, session_id) pairs
    Admins,         \* those with human admin authority
    NoActor,        \* the lease row's NULL owner
    Ttls,           \* lease lengths callers ask for
    LockWait,       \* bound on how stale a method's `now` can be
    RoundTypes,     \* kinds of iteration
    RequiredRounds, \* the kinds completion asks for
    MaxTime,        \* bound on the clock
    MaxToken,       \* bound on fencing tokens
    MaxVersion      \* bound on state versions

ASSUME ActorsAssumption == Admins \subseteq Actors /\ NoActor \notin Actors
ASSUME TtlsAssumption == Ttls \subseteq Nat \ {0}
ASSUME RoundsAssumption == RequiredRounds \subseteq RoundTypes
ASSUME BoundsAssumption == {LockWait, MaxTime, MaxToken, MaxVersion} \subseteq Nat

VARIABLES
    clock,          \* the wall clock
    status,         \* max_runs.status
    version,        \* max_runs.state_version
    ledger,         \* what a replay of max_run_transition_results arrives at
    approvals,      \* rows in max_approval_consumptions
    lease,          \* the run's row of max_leases
    graph,          \* the canonical members of the run
    stateRow,       \* hash of max_research_states
    runHash,        \* max_runs.current_state_hash
    checkpoint,     \* the checkpoint max_checkpoint_current points to
    runCheckpoint,  \* max_runs.current_checkpoint_id, by lineage number
    iteration,      \* the open iteration, if any
    iterations,     \* max_runs.iteration_index, the iterations begun
    outcomes,       \* what completion reads of the completed iterations
    stamp           \* ghost: the token the latest fenced write presented

runVars == <<status, version, ledger>>
stateVars == <<graph, stateRow, runHash>>
checkpointVars == <<checkpoint, runCheckpoint>>
iterationVars == <<iteration, iterations, outcomes>>
contentVars == <<stateVars, checkpointVars, iterationVars>>
vars == <<clock, runVars, approvals, lease, contentVars, stamp>>

Status == {"AWAITING_START_APPROVAL", "APPROVED", "RUNNING", "PAUSED",
           "COMPLETED", "FAILED", "CANCELLED"}
Terminal == {"COMPLETED", "FAILED", "CANCELLED"}
Runners == Actors \ Admins

LeaseRow == [owner : Actors \cup {NoActor}, token : Nat, expires : Nat,
             released : BOOLEAN, handed : BOOLEAN]

NoHash == 0     \* an output_state_hash that is NULL; graphs count from 1

TypeOK ==
    /\ clock \in Nat
    /\ status \in Status
    /\ version \in Nat
    /\ ledger \in [reached : Nat, status : Status, contiguous : BOOLEAN]
    /\ approvals \in Nat
    /\ lease \in LeaseRow
    /\ graph \in Nat
    /\ stateRow \in Nat
    /\ runHash \in Nat
    /\ checkpoint \in [lineage : Nat, hash : Nat]
    /\ runCheckpoint \in Nat
    /\ iteration \in [open : BOOLEAN, round : RoundTypes \cup {"none"}, input : Nat, changed : BOOLEAN]
    /\ iterations \in Nat
    /\ outcomes \in [rounds : SUBSET (RoundTypes \cup {"none"}), last : Nat, prev : Nat]
    /\ stamp \in Nat

(***************************************************************************)
(* The state machine and its ledger                                        *)
(***************************************************************************)
Transitions ==
    [s \in Status |->
        CASE s = "AWAITING_START_APPROVAL" -> {"APPROVED", "CANCELLED"}
          [] s = "APPROVED" -> {"RUNNING", "CANCELLED"}
          [] s = "RUNNING" -> {"PAUSED", "COMPLETED", "FAILED", "CANCELLED"}
          [] s = "PAUSED" -> {"RUNNING", "FAILED", "CANCELLED"}
          [] OTHER -> {}]

\* _update_run with _record_transition_result: the run moves to the next
\* version and the ledger gets the row that says so.
Record(to) ==
    /\ version < MaxVersion
    /\ version' = version + 1
    /\ status' = to
    /\ ledger' = [reached |-> version + 1,
                  status |-> to,
                  contiguous |-> /\ ledger.contiguous
                                 /\ ledger.reached = version
                                 /\ ledger.status = status]

\* A status change the table allows.
Transition(to) == to \in Transitions[status] /\ Record(to)

(***************************************************************************)
(* The lease                                                               *)
(***************************************************************************)

\* The instants a method entered at can have read as `now`.
Now == {t \in 1..clock : clock - t <= LockWait}

\* _assert_fence would pass for the holder: released_at is not looked at.
Live == lease.expires > clock

\* Mutant: the fencing token of the row is not compared.
FencedByOwner(a, k) == lease.owner = a /\ Live /\ k <= lease.token

\* _assert_fence: the caller is the owner, presents the row's token, and the
\* lease has not expired by a clock read under the write lock.
Fenced(a, k) == lease.owner = a /\ lease.token = k /\ Live

\* A write a fenced caller makes is stamped with the token it presented.
FencedWrite(a, k) == Fenced(a, k) /\ stamp' = k

\* Mutant: a live lease can be taken over by anyone.
MayAcquireAny(a) == lease.token < MaxToken

\* _acquire_lease_connection refuses while another actor's lease is live and
\* was not released.
MayAcquire(a) ==
    /\ lease.token < MaxToken
    /\ ~(lease.owner # NoActor /\ ~lease.released /\ Live /\ lease.owner # a)

\* Mutant: the token is left as it was.
GrantedSameToken(a, ttl) ==
    [owner |-> a, token |-> IF lease.token = 0 THEN 1 ELSE lease.token,
     expires |-> clock + ttl, released |-> FALSE, handed |-> lease.handed]

\* Its write: the next token, an expiry by a fresh clock, and whatever
\* runner_profile_hash the row already had.
Granted(a, ttl) ==
    [owner |-> a, token |-> lease.token + 1,
     expires |-> clock + ttl, released |-> FALSE, handed |-> lease.handed]

\* Mutant: the expiry is backdated by a margin nobody checks.
GivenBackBackdated(now) == [lease EXCEPT !.released = TRUE, !.expires = now - 2]

\* Mutant: only released_at is set.
GivenBackUnexpired(now) == [lease EXCEPT !.released = TRUE]

\* The lease ends at the method's `now`, its owner and token stay.
GivenBack(now) ==
    [owner |-> lease.owner, token |-> lease.token,
     expires |-> now, released |-> TRUE, handed |-> lease.handed]

(***************************************************************************)
(* propose: the state every run starts from                                *)
(***************************************************************************)
NoIteration == [open |-> FALSE, round |-> "none", input |-> NoHash, changed |-> FALSE]

Init ==
    /\ clock = 1
    /\ status = "AWAITING_START_APPROVAL"
    /\ version = 1
    /\ ledger = [reached |-> 1, status |-> "AWAITING_START_APPROVAL", contiguous |-> TRUE]
    /\ approvals = 0
    /\ lease = [owner |-> NoActor, token |-> 0, expires |-> 0,
                released |-> FALSE, handed |-> FALSE]
    /\ graph = 1
    /\ stateRow = 1
    /\ runHash = 1
    /\ checkpoint = [lineage |-> 1, hash |-> 1]
    /\ runCheckpoint = 1
    /\ iteration = NoIteration
    /\ iterations = 0
    /\ outcomes = [rounds |-> {}, last |-> NoHash, prev |-> NoHash]
    /\ stamp = 0

Tick ==
    /\ clock < MaxTime
    /\ clock' = clock + 1
    /\ UNCHANGED <<runVars, approvals, lease, contentVars, stamp>>

(***************************************************************************)
(* Control commands                                                        *)
(***************************************************************************)

\* One approval is written, consumed and acted on in the one transaction.
Approve(a) ==
    /\ a \in Admins
    /\ status = "AWAITING_START_APPROVAL"
    /\ Transition("APPROVED")
    /\ approvals' = approvals + 1
    /\ UNCHANGED <<clock, lease, contentVars, stamp>>

\* start of an APPROVED run takes the first lease.
Start(a, ttl) ==
    /\ a \in Admins
    /\ status = "APPROVED"
    /\ MayAcquire(a)
    /\ lease' = Granted(a, ttl)
    /\ Transition("RUNNING")
    /\ UNCHANGED <<clock, approvals, contentVars, stamp>>

\* start of a PAUSED run falls through to the transition table, which allows
\* it: no lease is taken and no rehydration packet is looked at.
StartPaused(a) ==
    /\ a \in Admins
    /\ status = "PAUSED"
    /\ Transition("RUNNING")
    /\ UNCHANGED <<clock, approvals, lease, contentVars, stamp>>

\* resume; whether its rehydration packet is acknowledged is decided in
\* BackendHandoff, so here it may always go ahead.
Resume(a, ttl) ==
    /\ a \in Admins
    /\ status = "PAUSED"
    /\ MayAcquire(a)
    /\ lease' = Granted(a, ttl)
    /\ Transition("RUNNING")
    /\ UNCHANGED <<clock, approvals, contentVars, stamp>>

\* Only a running run has an edge to PAUSED.  The administrator calls pause
\* through the service, the runner and the worker through the repository.
Pause(a, k) ==
    /\ status = "RUNNING"
    /\ FencedWrite(a, k)
    /\ Transition("PAUSED")
    /\ \E now \in Now : lease' = GivenBack(now)
    /\ UNCHANGED <<clock, approvals, contentVars>>

\* A run that holds no lease is cancelled by the administrator alone; the
\* lease row stays as it is.
CancelIdle(a) ==
    /\ a \in Admins
    /\ status # "RUNNING"
    /\ Transition("CANCELLED")
    /\ UNCHANGED <<clock, approvals, lease, contentVars, stamp>>

CancelRunning(a, k) ==
    /\ a \in Admins
    /\ status = "RUNNING"
    /\ FencedWrite(a, k)
    /\ Transition("CANCELLED")
    /\ \E now \in Now : lease' = GivenBack(now)
    /\ UNCHANGED <<clock, approvals, contentVars>>

(***************************************************************************)
(* Lease operations                                                        *)
(***************************************************************************)
AcquireLease(a, ttl) ==
    /\ status = "RUNNING"
    /\ MayAcquire(a)
    /\ lease' = Granted(a, ttl)
    /\ UNCHANGED <<clock, runVars, approvals, contentVars, stamp>>

\* The length asked for is not checked: it may be nothing.
RenewLease(a, k, ttl) ==
    /\ status = "RUNNING"
    /\ FencedWrite(a, k)
    /\ lease' = [lease EXCEPT !.expires = clock + ttl]
    /\ UNCHANGED <<clock, runVars, approvals, contentVars>>

ReleaseLease(a, k) ==
    /\ status = "RUNNING"
    /\ FencedWrite(a, k)
    /\ \E now \in Now : lease' = GivenBack(now)
    /\ UNCHANGED <<clock, runVars, approvals, contentVars>>

\* handoff_runner of an approved run: the runner gets the first lease.
HandoffApproved(a, r, ttl) ==
    /\ a \in Admins /\ r \in Runners
    /\ status = "APPROVED"
    /\ MayAcquire(r)
    /\ lease' = [Granted(r, ttl) EXCEPT !.handed = TRUE]
    /\ Transition("RUNNING")
    /\ UNCHANGED <<clock, approvals, contentVars, stamp>>

\* handoff_runner of a running run whose lease has run out by the method's
\* `now`: the administrator takes it over and passes it on, two tokens up.
HandoffExpired(a, r, ttl) ==
    /\ a \in Admins /\ r \in Runners
    /\ status = "RUNNING"
    /\ MayAcquire(a)
    /\ lease.token + 2 <= MaxToken
    /\ \E now \in Now :
         /\ lease.expires <= now
         /\ lease' = [owner |-> r, token |-> lease.token + 2, expires |-> now + ttl,
                      released |-> FALSE, handed |-> TRUE]
    /\ UNCHANGED <<clock, runVars, approvals, contentVars, stamp>>

\* handoff_runner by the administrator who holds the lease.
HandoffHeld(a, r, k, ttl) ==
    /\ a \in Admins /\ r \in Runners
    /\ status = "RUNNING"
    /\ FencedWrite(a, k)
    /\ lease.token < MaxToken
    /\ \E now \in Now :
         /\ lease.expires > now
         /\ lease' = [owner |-> r, token |-> lease.token + 1, expires |-> now + ttl,
                      released |-> FALSE, handed |-> TRUE]
    /\ UNCHANGED <<clock, runVars, approvals, contentVars>>

\* claim_runner_lease: the owner extends its own lease.  Both the check and
\* the new expiry use the method's `now`, and released_at is left alone.
ClaimRunnerLease(r, ttl) ==
    /\ r \in Runners
    /\ status = "RUNNING"
    /\ lease.handed
    /\ lease.owner = r
    /\ \E now \in Now :
         /\ lease.expires > now
         /\ lease' = [lease EXCEPT !.expires = now + ttl]
    /\ UNCHANGED <<clock, runVars, approvals, contentVars, stamp>>

(***************************************************************************)
(* Iterations and canonical writes                                         *)
(***************************************************************************)
BeginIteration(a, k, round) ==
    /\ status = "RUNNING"
    /\ FencedWrite(a, k)
    /\ ~iteration.open
    /\ iteration' = [open |-> TRUE, round |-> round, input |-> runHash, changed |-> FALSE]
    /\ iterations' = iterations + 1
    /\ Record(status)
    /\ UNCHANGED <<clock, approvals, lease, stateVars, checkpointVars, outcomes>>

\* A completed iteration outputs the run's current hash; an aborted one
\* leaves nothing completion reads.
FinishIteration(a, k, outcome) ==
    /\ status = "RUNNING"
    /\ FencedWrite(a, k)
    /\ iteration.open
    /\ iteration' = NoIteration
    /\ outcomes' = IF outcome = "aborted" THEN outcomes
                   ELSE [rounds |-> outcomes.rounds \cup {iteration.round},
                         last |-> runHash, prev |-> outcomes.last]
    /\ Record(status)
    /\ UNCHANGED <<clock, approvals, lease, stateVars, checkpointVars, iterations>>

\* Mutant: the state moves and the checkpoint does not follow.
ApplyWithoutCheckpoint(a, k, new) ==
    /\ status = "RUNNING"
    /\ FencedWrite(a, k)
    /\ iteration.open
    /\ iteration' = [iteration EXCEPT !.changed = TRUE]
    /\ graph' = new
    /\ stateRow' = new
    /\ runHash' = new
    /\ Record(status)
    /\ UNCHANGED <<clock, approvals, lease, checkpointVars, iterations, outcomes>>

\* apply_change_set: the members, the Research State rebuilt from them, a
\* successor checkpoint and the run row move together.
ApplyChangeSet(a, k, new) ==
    /\ status = "RUNNING"
    /\ FencedWrite(a, k)
    /\ iteration.open
    /\ iteration.input = runHash \/ iteration.changed
    /\ iteration' = [iteration EXCEPT !.changed = TRUE]
    /\ graph' = new
    /\ stateRow' = new
    /\ checkpoint' = [lineage |-> checkpoint.lineage + 1, hash |-> new]
    /\ runHash' = new
    /\ runCheckpoint' = checkpoint.lineage + 1
    /\ Record(status)
    /\ UNCHANGED <<clock, approvals, lease, iterations, outcomes>>

\* save_research_state accepts only the rebuild of the members.
SaveResearchState(a, k) ==
    /\ status = "RUNNING"
    /\ FencedWrite(a, k)
    /\ iteration.open
    /\ stateRow' = graph
    /\ runHash' = graph
    /\ Record(status)
    /\ UNCHANGED <<clock, approvals, lease, graph, checkpointVars, iterationVars>>

\* rehydrate_run rebuilds the state from the members and the current
\* checkpoint and saves it when no drift is found.
RehydrateRun(a, k) ==
    /\ status = "RUNNING"
    /\ FencedWrite(a, k)
    /\ iteration.open
    /\ stateRow' = graph
    /\ runHash' = graph
    /\ Record(status)
    /\ UNCHANGED <<clock, approvals, lease, graph, checkpointVars, iterationVars>>

\* create_checkpoint looks at the lease and not at the status.
CreateCheckpoint(a, k) ==
    /\ FencedWrite(a, k)
    /\ checkpoint' = [lineage |-> checkpoint.lineage + 1, hash |-> runHash]
    /\ runCheckpoint' = checkpoint.lineage + 1
    /\ Record(status)
    /\ UNCHANGED <<clock, approvals, lease, stateVars, iterationVars>>

\* Mutant: one stable outcome is enough.
HistoryLastOnly ==
    /\ outcomes.last = runHash
    /\ RequiredRounds \subseteq outcomes.rounds

\* _history_for_completion: two consecutive completed outcomes at the hash
\* the run is at now, and every required kind of round among them all.
HistoryStable ==
    /\ outcomes.last = runHash
    /\ outcomes.prev = runHash
    /\ RequiredRounds \subseteq outcomes.rounds

\* persist_completion: the evaluator recomputes its verdict from the stored
\* history; what else it weighs is not modelled, so it may also refuse.
PersistCompletion(a, k) ==
    /\ status = "RUNNING"
    /\ FencedWrite(a, k)
    /\ stateRow = runHash
    /\ HistoryStable
    /\ Transition("COMPLETED")
    /\ \E now \in Now : lease' = GivenBack(now)
    /\ UNCHANGED <<clock, approvals, contentVars>>

(***************************************************************************)
(* The specification                                                       *)
(***************************************************************************)
Command ==
    \E a \in Actors :
        \/ Approve(a) \/ StartPaused(a) \/ CancelIdle(a)
        \/ \E ttl \in Ttls : Start(a, ttl) \/ Resume(a, ttl)

LeaseStep ==
    \E a \in Actors, ttl \in Ttls :
        \/ AcquireLease(a, ttl)
        \/ ClaimRunnerLease(a, ttl)
        \/ \E r \in Actors : HandoffApproved(a, r, ttl) \/ HandoffExpired(a, r, ttl)

\* A caller may present any token.
FencedStep ==
    \E a \in Actors, k \in 0..MaxToken :
        \/ Pause(a, k) \/ CancelRunning(a, k) \/ ReleaseLease(a, k)
        \/ \E ttl \in Ttls \cup {0} : RenewLease(a, k, ttl)
        \/ \E r \in Actors, ttl \in Ttls : HandoffHeld(a, r, k, ttl)
        \/ \E round \in RoundTypes : BeginIteration(a, k, round)
        \/ \E outcome \in {"completed", "aborted"} : FinishIteration(a, k, outcome)
        \/ \E new \in {graph, graph + 1} : ApplyChangeSet(a, k, new)
        \/ SaveResearchState(a, k) \/ RehydrateRun(a, k) \/ CreateCheckpoint(a, k)
        \/ PersistCompletion(a, k)

Next == Tick \/ Command \/ LeaseStep \/ FencedStep

Spec == Init /\ [][Next]_vars

(***************************************************************************)
(* Properties                                                              *)
(***************************************************************************)

\* A lease a write would be accepted under exists only while the run is
\* running: pause, cancel and completion end it in their own transaction,
\* and no lease operation can bring it back, whatever `now` it read.
\* create_checkpoint, which looks at no status, depends on it.
LiveOnlyWhileRunning == Live => status = "RUNNING"

\* What verify_run recomputes from the tables agrees with what the writers
\* left there: the transition ledger replays without a gap to the current
\* version and status, exactly one approval was consumed by a run that got
\* past its approval, the current checkpoint is the run's and bound to its
\* hash, and the run's hash is that of its members' Research State.
VerifyRunOK ==
    /\ ledger = [reached |-> version, status |-> status, contiguous |-> TRUE]
    /\ approvals = 1 \/ (approvals = 0 /\ status \in {"AWAITING_START_APPROVAL", "CANCELLED"})
    /\ runCheckpoint = checkpoint.lineage
    /\ checkpoint.hash = runHash
    /\ stateRow = runHash
    /\ graph = runHash

\* A completed run rests on a stable history at the very graph it ends in:
\* its two latest completed rounds both ended at the members it has now, so
\* no write between the earlier of them and completion, and no write after
\* it, added one; and every required kind of round was completed.
CompletedIsStable ==
    status = "COMPLETED" =>
        /\ outcomes.last = graph /\ outcomes.prev = graph
        /\ RequiredRounds \subseteq outcomes.rounds

\* Nothing of a finished run changes any more: not its version, its state,
\* its checkpoint, its iterations or its lease.
TerminalIsFrozen ==
    [][(status \in Terminal) => UNCHANGED <<runVars, approvals, lease, contentVars>>]_vars

\* An unreleased live lease leaves its owner's hands only when the owner is
\* the administrator and hands it to a runner itself: a waiting taker,
\* whatever `now` it read before it waited, cannot evict a holder.
NoEviction ==
    [][lease.owner' # lease.owner /\ Live /\ ~lease.released
        => lease.owner \in Admins /\ stamp' = lease.token /\ lease'.handed]_vars

\* The canonical content changes only under a lease that is live in a
\* running run and by a caller presenting its newest token; a step that
\* issues a token never changes it.
ContentIsFenced ==
    [][contentVars' # contentVars
        => /\ status = "RUNNING" /\ Live
           /\ stamp' = lease.token
           /\ lease'.token = lease.token]_vars

\* The lease implements the abstract fencing lease.
Fencing == INSTANCE FencingLease WITH
    Holders <- Actors, NoHolder <- NoActor,
    token <- lease.token, holder <- lease.owner, usable <- Live, stamp <- stamp

ImplementsFencingLease == Fencing!Spec

=============================================================================
