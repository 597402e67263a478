--------------------------- MODULE BackendHandoff ---------------------------
(***************************************************************************)
(* Moving a paused run from one execution backend to another: binding,     *)
(* handoff preview, human approval, the rehydration packet the approval    *)
(* produces, its acknowledgement by the new host, and the resume it        *)
(* unlocks.                                                                *)
(*                                                                         *)
(* Every method is one control_transaction and so one step; a refused call *)
(* is no step.  As in RunControl, a method's `now` may be LockWait behind  *)
(* the clock.  The lease is RunControl's: a live one exists only in a      *)
(* running run, so that it is free here.  The state hash stands for the    *)
(* checkpoint's too (RunControl's VerifyRunOK).                            *)
(***************************************************************************)
EXTENDS Naturals, FiniteSets

CONSTANTS
    Backends,       \* backend profiles
    NoBackend,      \* the run is not bound yet
    HandoffTtl,     \* how long a previewed handoff may wait for its approval
    ClaimTtl,       \* how long a runner's invocation claim counts as active
    LockWait,       \* bound on how stale a method's `now` can be
    MaxTime,        \* bound on the clock
    MaxState,       \* bound on canonical writes
    MaxGeneration   \* bound on handoffs

\* What the constants are assumed to be, where the module is instantiated.
BackendsAssumption == NoBackend \notin Backends
HandoffBoundsAssumption ==
    /\ {LockWait, MaxTime, MaxState, MaxGeneration} \subseteq Nat
    /\ {HandoffTtl, ClaimTtl} \subseteq Nat \ {0}

VARIABLES
    clock,          \* the wall clock
    fixture,        \* the store is marked as a fixture, for its whole life
    status,         \* max_runs.status, from APPROVED on
    stateHash,      \* max_runs.current_state_hash
    busyUntil,      \* latest expiry of the run's invocation claims
    calls,          \* the model calls made through the runner
    binding,        \* max_run_execution_binding_current
    handoff,        \* max_backend_handoff_current with its approval's row
    packets,        \* max_rehydration_packets, by the handoff they belong to
    acks,           \* the handoffs whose packet has its target acknowledgement
    told            \* ghost: the handoffs whose approval was refused as expired

activityVars == <<stateHash, busyUntil, calls>>
handoffVars == <<binding, handoff, packets, acks>>
vars == <<clock, fixture, status, activityVars, handoffVars, told>>

Packet == [handoff : Nat, binding : Nat, hash : Nat, created : Nat]

TypeOK ==
    /\ clock \in Nat
    /\ fixture \in BOOLEAN
    /\ status \in {"APPROVED", "RUNNING", "PAUSED"}
    /\ stateHash \in Nat
    /\ busyUntil \in 0..(clock + ClaimTtl)
    /\ calls \in {"none", "open", "settled"}
    /\ binding \in [version : Nat, backend : Backends \cup {NoBackend}]
    /\ handoff \in [generation : Nat, state : {"NONE", "PENDING", "CONSUMED", "EXPIRED"},
                    target : Backends \cup {NoBackend}, old : Nat, binding : Nat,
                    hash : Nat, expires : Nat, since : Nat]
    /\ packets \subseteq Packet
    /\ acks \subseteq Nat
    /\ told \subseteq Nat

\* The instants a method entered at can have read as `now`.
Now == {t \in 1..clock : clock - t <= LockWait}

Init ==
    /\ clock = 1
    /\ fixture \in BOOLEAN
    /\ status = "APPROVED"
    /\ stateHash = 1
    /\ busyUntil = 0
    /\ calls = "none"
    /\ binding = [version |-> 0, backend |-> NoBackend]
    /\ handoff = [generation |-> 0, state |-> "NONE", target |-> NoBackend, old |-> 0,
                  binding |-> 0, hash |-> 0, expires |-> 0, since |-> 0]
    /\ packets = {}
    /\ acks = {}
    /\ told = {}

Tick ==
    /\ clock < MaxTime
    /\ clock' = clock + 1
    /\ UNCHANGED <<fixture, status, activityVars, handoffVars, told>>

(***************************************************************************)
(* The run                                                                 *)
(***************************************************************************)

\* start of an approved run.
Start ==
    /\ status = "APPROVED"
    /\ status' = "RUNNING"
    /\ UNCHANGED <<clock, fixture, activityVars, handoffVars, told>>

\* start of a paused run: the transition table allows it, and only resume
\* looks at packets.
StartPaused ==
    /\ status = "PAUSED"
    /\ status' = "RUNNING"
    /\ UNCHANGED <<clock, fixture, activityVars, handoffVars, told>>

Pause ==
    /\ status = "RUNNING"
    /\ status' = "PAUSED"
    /\ UNCHANGED <<clock, fixture, activityVars, handoffVars, told>>

\* apply_change_set moves the state hash, and the checkpoint with it.
Write ==
    /\ status = "RUNNING"
    /\ stateHash < MaxState
    /\ stateHash' = stateHash + 1
    /\ UNCHANGED <<clock, fixture, status, busyUntil, calls, handoffVars, told>>

ClaimExpiry(now) == now + ClaimTtl

\* claim_invocation; the row counts as active until it expires, even after
\* its release has been recorded.
ClaimInvocation ==
    /\ status = "RUNNING"
    /\ \E now \in Now :
         /\ ClaimExpiry(now) > busyUntil
         /\ busyUntil' = ClaimExpiry(now)
    /\ UNCHANGED <<clock, fixture, status, stateHash, calls, handoffVars, told>>

\* A model call is recorded, dispatched and settled under the lease, and so in
\* a running run; it may be left open when the run is paused.
OpenCall ==
    /\ status = "RUNNING"
    /\ calls' = "open"
    /\ UNCHANGED <<clock, fixture, status, stateHash, busyUntil, handoffVars, told>>

SettleCall ==
    /\ status = "RUNNING"
    /\ calls = "open"
    /\ calls' = "settled"
    /\ UNCHANGED <<clock, fixture, status, stateHash, busyUntil, handoffVars, told>>

(***************************************************************************)
(* Binding and handing off                                                 *)
(***************************************************************************)

\* Mutant: the status is all that is looked at.
PausedOnly(now) == status = "PAUSED"

\* _assert_portability_quiescent_locked: paused, no claim is open by the
\* method's `now`, and no call is on record: a call's binding stays 'planned'
\* and its dispatch stays on record when it is settled, both tables being
\* append-only, and the inventory counts both as open.
Quiescent(now) ==
    /\ status = "PAUSED"
    /\ busyUntil <= now
    /\ calls = "none"

\* bind_backend makes the first binding, in any status.  Later it repeats
\* the current one or is refused.
BindBackend(b) ==
    /\ binding.version = 0
    /\ binding' = [version |-> 1, backend |-> b]
    /\ UNCHANGED <<clock, fixture, status, activityVars, handoff, packets, acks, told>>

\* preview_backend_handoff.  While a handoff is pending, expired or not, it
\* answers with that one or refuses.
Preview(b) ==
    /\ binding.version # 0
    /\ handoff.state # "PENDING"
    /\ handoff.generation < MaxGeneration
    /\ \E now \in Now :
         /\ Quiescent(now)
         /\ handoff' = [generation |-> handoff.generation + 1, state |-> "PENDING",
                        target |-> b, old |-> binding.version, binding |-> binding.version,
                        hash |-> stateHash, expires |-> now + HandoffTtl, since |-> clock]
    /\ UNCHANGED <<clock, fixture, status, activityVars, binding, packets, acks, told>>

\* The caller knows the handoff's id only after its preview committed.
SinceKnown == {now \in Now : now >= handoff.since}

\* approve_backend_handoff: the binding moves to the target, the handoff is
\* consumed and its rehydration packet is written.
Approve ==
    /\ handoff.state = "PENDING"
    /\ \E now \in SinceKnown :
         /\ handoff.expires > now
         /\ stateHash = handoff.hash
         /\ Quiescent(now)
         /\ binding.version = handoff.old
         /\ packets' = packets \cup {[handoff |-> handoff.generation,
                                      binding |-> binding.version + 1,
                                      hash |-> stateHash, created |-> now]}
    /\ binding' = [version |-> binding.version + 1, backend |-> handoff.target]
    /\ handoff' = [handoff EXCEPT !.state = "CONSUMED", !.binding = binding.version + 1]
    /\ UNCHANGED <<clock, fixture, status, activityVars, acks, told>>

\* approve_backend_handoff too late: it writes EXPIRED and then raises inside
\* the transaction, which takes the write back.
ApproveExpired ==
    /\ handoff.state = "PENDING"
    /\ \E now \in SinceKnown : handoff.expires <= now
    /\ told' = told \cup {handoff.generation}
    /\ UNCHANGED <<clock, fixture, status, activityVars, handoffVars>>

\* acknowledge_rehydration: a packet is acknowledged once.  Outside fixture
\* stores its handoff has to be the current one and consumed.
Acknowledge(p) ==
    /\ p.handoff \notin acks
    /\ fixture \/ (/\ handoff.generation = p.handoff
                   /\ handoff.state = "CONSUMED"
                   /\ handoff.binding = p.binding)
    /\ acks' = acks \cup {p.handoff}
    /\ UNCHANGED <<clock, fixture, status, activityVars, binding, handoff, packets, told>>

\* created_at DESC, packet_id DESC: among packets created at one instant the
\* order is that of their hashes, which is to say any.
Latest == {p \in packets : \A q \in packets : q.created <= p.created}

\* resume asks for the latest packet's acknowledgement, and that it is the
\* one of the current binding and of the current, consumed handoff.
MayResume ==
    \/ packets = {}
    \/ \E p \in Latest :
         /\ p.handoff \in acks
         /\ binding.version = p.binding
         /\ handoff.generation = p.handoff
         /\ handoff.state = "CONSUMED"
         /\ handoff.binding = p.binding

Resume ==
    /\ status = "PAUSED"
    /\ MayResume
    /\ status' = "RUNNING"
    /\ UNCHANGED <<clock, fixture, activityVars, handoffVars, told>>

(***************************************************************************)
(* The specification                                                       *)
(***************************************************************************)
RunStep ==
    \/ Start \/ StartPaused \/ Pause \/ Resume
    \/ Write \/ ClaimInvocation \/ OpenCall \/ SettleCall

HandoffStep ==
    \/ \E b \in Backends : BindBackend(b) \/ Preview(b)
    \/ Approve \/ ApproveExpired
    \/ \E p \in packets : Acknowledge(p)

Next == Tick \/ RunStep \/ HandoffStep

Spec == Init /\ [][Next]_vars

(***************************************************************************)
(* Properties                                                              *)
(***************************************************************************)

\* The three projections tell one story: a consumed handoff is what made the
\* current binding and left its packet there, a pending one starts from the
\* current binding, and a binding no handoff made is the first.
HandoffProjectsBinding ==
    /\ handoff.state \in {"PENDING", "CONSUMED"} => handoff.binding = binding.version
    /\ handoff.state = "CONSUMED" =>
         /\ binding.backend = handoff.target
         /\ \E p \in packets : p.handoff = handoff.generation /\ p.binding = binding.version
    /\ binding.version = Cardinality(packets) + (IF binding.version = 0 THEN 0 ELSE 1)

\* A bound run changes backends only while it is paused and nothing a runner
\* began is still open by the real clock, whatever `now` the approval read;
\* and only at the state the human saw in the preview.
QuiescentRebind ==
    binding' # binding /\ binding.version # 0
        => /\ status = "PAUSED"
           /\ busyUntil <= clock /\ calls # "open"
           /\ handoff.state = "PENDING" /\ handoff.hash = stateHash

\* The packet of the current binding has been acknowledged.
BindingAcknowledged ==
    \A p \in packets : p.binding = binding.version => p.handoff \in acks

\* resume never lets a backend that took a run over work on it before the
\* packet of that very takeover was acknowledged: no earlier packet's
\* acknowledgement can stand in for it, however creation times tie, and no
\* newer handoff is waiting for approval.
AcknowledgedResume ==
    Resume => BindingAcknowledged /\ (packets # {} => handoff.state # "PENDING")

\* The projections of a handoff tell one story in every state, and every step
\* that rebinds or resumes finds the run as it should.
HandoffIsOrderly ==
    [][TypeOK' /\ HandoffProjectsBinding' /\ QuiescentRebind /\ AcknowledgedResume]_vars

\* What the comment in resume says of the whole system: a run does not leave
\* PAUSED while its new backend's packet is unacknowledged.
NoUnacknowledgedStart ==
    [][status = "PAUSED" /\ status' = "RUNNING" => BindingAcknowledged]_vars

\* What the portability document says of the inventory, that active and
\* unknown activity is what stands in the way: a paused run whose calls are
\* settled and whose claims have run out can be handed off.
SettledRunIsQuiescent ==
    status = "PAUSED" /\ calls # "open" /\ busyUntil <= clock => Quiescent(clock)

\* What approve_backend_handoff writes when it is too late: a handoff it
\* refused as expired is no longer pending.
RefusedExpiredIsNotPending == handoff.generation \in told => handoff.state # "PENDING"

=============================================================================
