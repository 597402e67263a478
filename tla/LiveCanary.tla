------------------------------ MODULE LiveCanary ------------------------------
(***************************************************************************)
(* The one-shot canary call: live_canary.py keeps the authorities,         *)
(* previews, approvals and permits, production_bridge.py executes one      *)
(* approved call through a chain of transactions and closes a failure from *)
(* what is durable.  Every invocation claim has an authority, a preview,   *)
(* an approval and a permit of its own, while the dispatch slot, the       *)
(* runner's call and the network events belong to the one logical call.    *)
(* Executors are processes that act as the claim's worker: nothing tells   *)
(* two of them apart, and each is one call of execute.  A step may be      *)
(* refused or fail, and so may any step of the cleanup; one that crashes   *)
(* takes no further step, and nothing of the canary's own takes its call   *)
(* up again.                                                               *)
(***************************************************************************)
EXTENDS Naturals, FiniteSets

CONSTANTS
    Claims,         \* 1..n, the invocation claims in the order they are made
    Executors,
    LeaseTtl, ClaimTtl, ApprovalTtl,
    MaxToken, MaxTime  \* bounds

ASSUME CanaryAssumption ==
    /\ {LeaseTtl, ClaimTtl, ApprovalTtl, MaxToken, MaxTime} \subseteq Nat \ {0}
    /\ Claims \subseteq Nat \ {0}
    /\ IsFiniteSet(Claims)

VARIABLES
    now, running,
    lease,          \* the worker's lease of the run
    claim,          \* by claim: its token, 0 when it is not made yet
    authority,      \* by claim: its expiry, 0 for none
    approval,       \* by claim
    permit,         \* by claim: max_live_canary_execution_permit_current
    source,         \* by claim: the source permit
    slot,           \* the dispatch attempt and permit of the logical call
    network,        \* a network event or attempt record of the request exists
    record,         \* the provider's answer: none, recorded, attested
    runner,         \* the call's result of the runner
    exec,           \* by executor
    sent            \* by claim: requests on the wire

runVars == <<now, running, lease>>
paperVars == <<authority, approval, source>>
callVars == <<slot, network, record, runner>>
vars == <<runVars, claim, paperVars, permit, callVars, exec, sent>>

Working == {"loading", "loaded", "permitted", "sourced", "granted", "slotted", "started",
            "armed", "crossed", "audited", "answered", "recorded", "settled"}
Closing == {"failing", "closing", "concluding", "aborting", "pausing", "releasing"}

TypeOK ==
    /\ now \in 0..MaxTime /\ running \in BOOLEAN
    /\ lease \in [token : 0..MaxToken, expires : Nat]
    /\ claim \in [Claims -> [token : 0..MaxToken, expires : Nat, released : BOOLEAN]]
    /\ authority \in [Claims -> Nat]
    /\ approval \in [Claims -> [state : {"none", "active", "revoked", "consumed"}, expires : Nat]]
    /\ permit \in [Claims -> {"none", "ready", "send_started", "succeeded", "unknown", "aborted",
                              "revoked"}]
    /\ source \in [Claims -> {"none", "issued", "consumed", "revoked"}]
    /\ slot \in [state : {"none", "prepared", "send_started", "recorded", "settled", "unknown",
                          "cancelled"}, by : {0} \cup Claims]
    /\ network \in BOOLEAN
    /\ record \in {"none", "recorded", "attested"}
    /\ runner \in {"open", "not sent"}
    /\ exec \in [Executors -> [pc : {"idle", "done"} \cup Working \cup Closing, claim : {0} \cup Claims,
                               holds : BOOLEAN, reached : BOOLEAN]]
    /\ sent \in [Claims -> 0..2]

Resting == [pc |-> "idle", claim |-> 0, holds |-> FALSE, reached |-> FALSE]
Done == [Resting EXCEPT !.pc = "done"]

\* A worker holds a lease and has an unfinished intent.
Init ==
    /\ now = 0 /\ running = TRUE
    /\ lease = [token |-> 1, expires |-> LeaseTtl]
    /\ claim = [c \in Claims |-> [token |-> 0, expires |-> 0, released |-> FALSE]]
    /\ authority = [c \in Claims |-> 0]
    /\ approval = [c \in Claims |-> [state |-> "none", expires |-> 0]]
    /\ permit = [c \in Claims |-> "none"]
    /\ source = [c \in Claims |-> "none"]
    /\ slot = [state |-> "none", by |-> 0]
    /\ network = FALSE /\ record = "none" /\ runner = "open"
    /\ exec = [e \in Executors |-> Resting]
    /\ sent = [c \in Claims |-> 0]

Alive(expires) == expires > now
Fenced(t) == lease.token = t /\ Alive(lease.expires)

(***************************************************************************)
(* The run, its worker and the worker's claims                             *)
(***************************************************************************)
Tick ==
    /\ now < MaxTime
    /\ now' = now + 1
    /\ UNCHANGED <<running, lease, claim, paperVars, permit, callVars, exec, sent>>

\* Mutant: a pause leaves the lease to its worker.
PausedHolding == running' = FALSE /\ UNCHANGED lease

\* pause gives the lease back.
Paused == running' = FALSE /\ lease' = [lease EXCEPT !.expires = 0]

Pause ==
    /\ running
    /\ Paused
    /\ UNCHANGED <<now, claim, paperVars, permit, callVars, exec, sent>>

Resume ==
    /\ ~running
    /\ running' = TRUE
    /\ UNCHANGED <<now, lease, claim, paperVars, permit, callVars, exec, sent>>

TakeLease ==
    /\ running /\ ~Alive(lease.expires) /\ lease.token < MaxToken
    /\ lease' = [token |-> lease.token + 1, expires |-> now + LeaseTtl]
    /\ UNCHANGED <<now, running, claim, paperVars, permit, callVars, exec, sent>>

\* claim_invocation: the next claim, when none is active.
Claim(c) ==
    /\ running /\ Alive(lease.expires)
    /\ claim[c].token = 0
    /\ \A d \in Claims : d < c => claim[d].token # 0
    /\ \A d \in Claims : Alive(claim[d].expires) => claim[d].released
    /\ claim' = [claim EXCEPT ![c] = [token |-> lease.token, expires |-> now + ClaimTtl,
                                      released |-> FALSE]]
    /\ UNCHANGED <<runVars, paperVars, permit, callVars, exec, sent>>

\* release_invocation appends a row; the row of the claim stays as it was.
ReleaseClaim(c) ==
    /\ claim[c].token # 0 /\ ~claim[c].released
    /\ running => Fenced(claim[c].token)
    /\ claim' = [claim EXCEPT ![c].released = TRUE]
    /\ UNCHANGED <<runVars, paperVars, permit, callVars, exec, sent>>

\* _assert_worker_fence and _assert_invocation_claim, which reads the claim's
\* own row and so does not see a release.
MayExecute(c) ==
    /\ Fenced(claim[c].token)
    /\ Alive(claim[c].expires)

(***************************************************************************)
(* Authorities, previews and approvals                                     *)
(***************************************************************************)
\* _rebuild_authority_payload equals what was stored, unless what it binds has
\* changed since, which is a refusal like any other.
Rebuilt(c) ==
    /\ running /\ runner = "open"
    /\ MayExecute(c)
    /\ Alive(authority[c]) /\ authority[c] <= lease.expires

\* register_authority.
Register(c, expires) ==
    /\ running /\ runner = "open" /\ MayExecute(c)
    /\ authority[c] = 0
    /\ Alive(expires) /\ expires <= lease.expires
    /\ authority' = [authority EXCEPT ![c] = expires]
    /\ UNCHANGED <<runVars, claim, approval, source, permit, callVars, exec, sent>>

\* preview_from_authority shows the preview; authorize validates its execution
\* plan, which asks for the same.  A preview has one approval.
Authorize(c) ==
    /\ Rebuilt(c)
    /\ approval[c].state = "none"
    /\ approval' = [approval EXCEPT ![c] = [state |-> "active", expires |-> now + ApprovalTtl]]
    /\ UNCHANGED <<runVars, claim, authority, source, permit, callVars, exec, sent>>

Revoke(c) ==
    /\ approval[c].state = "active"
    /\ approval' = [approval EXCEPT ![c].state = "revoked"]
    /\ UNCHANGED <<runVars, claim, authority, source, permit, callVars, exec, sent>>

RevokePermit(c) ==
    /\ permit[c] = "ready"
    /\ permit' = [permit EXCEPT ![c] = "revoked"]
    /\ UNCHANGED <<runVars, claim, paperVars, callVars, exec, sent>>

(***************************************************************************)
(* The execution                                                           *)
(***************************************************************************)
At(e, places) == exec[e].pc \in places
Goes(e, pc) == exec' = [exec EXCEPT ![e].pc = pc]
Of(e) == exec[e].claim
MayWrite(e) == Fenced(claim[Of(e)].token)

\* The authority names the worker the executor acts as.
Begin(e, c) ==
    /\ At(e, {"idle"})
    /\ authority[c] # 0
    /\ exec' = [exec EXCEPT ![e] = [Resting EXCEPT !.pc = "loading", !.claim = c]]
    /\ UNCHANGED <<runVars, claim, paperVars, permit, callVars, sent>>

Load(e) ==
    /\ At(e, {"loading"})
    /\ Rebuilt(Of(e)) /\ approval[Of(e)].state = "active"
    /\ Goes(e, "loaded")
    /\ UNCHANGED <<runVars, claim, paperVars, permit, callVars, sent>>

\* consume_and_prepare: the approval is used up for a permit.
ConsumeAndPrepare(e) ==
    LET c == Of(e) IN
    /\ At(e, {"loaded"})
    /\ approval[c].state = "active" /\ Alive(approval[c].expires)
    /\ running /\ MayExecute(c)
    /\ approval' = [approval EXCEPT ![c].state = "consumed"]
    /\ permit' = [permit EXCEPT ![c] = "ready"]
    /\ exec' = [exec EXCEPT ![e].pc = "permitted", ![e].holds = TRUE]
    /\ UNCHANGED <<runVars, claim, authority, source, callVars, sent>>

IssueSource(e) ==
    /\ At(e, {"permitted"})
    /\ Alive(authority[Of(e)])
    /\ source' = [source EXCEPT ![Of(e)] = "issued"]
    /\ Goes(e, "sourced")
    /\ UNCHANGED <<runVars, claim, authority, approval, permit, callVars, sent>>

\* The grant, its consumption and the network authorisation, each of which no
\* later step but the dispatch asks for.
Grant(e) ==
    /\ At(e, {"sourced"})
    /\ running
    /\ Goes(e, "granted")
    /\ UNCHANGED <<runVars, claim, authority, approval, source, permit, callVars, sent>>

\* Mutant: the dispatch of another authorisation is taken over.
PrepareOver(e) ==
    /\ At(e, {"granted"})
    /\ running /\ MayWrite(e)
    /\ slot' = [state |-> "prepared", by |-> Of(e)]
    /\ Goes(e, "slotted")
    /\ UNCHANGED <<runVars, claim, paperVars, permit, network, record, runner, sent>>

\* prepare_live_dispatch: a dispatch of the same idempotency key under another
\* authorisation is refused.
Prepare(e) ==
    /\ At(e, {"granted"})
    /\ running /\ MayWrite(e)
    /\ slot.state = "none"
    /\ slot' = [state |-> "prepared", by |-> Of(e)]
    /\ Goes(e, "slotted")
    /\ UNCHANGED <<runVars, claim, paperVars, permit, network, record, runner, sent>>

Start(e) ==
    /\ At(e, {"slotted"})
    /\ MayWrite(e)
    /\ slot = [state |-> "prepared", by |-> Of(e)]
    /\ slot' = [slot EXCEPT !.state = "send_started"]
    /\ Goes(e, "started")
    /\ UNCHANGED <<runVars, claim, paperVars, permit, network, record, runner, sent>>

\* consume_source_permit asks for no fence.
ConsumeSource(e) ==
    /\ At(e, {"started"})
    /\ source[Of(e)] = "issued" /\ Alive(authority[Of(e)])
    /\ source' = [source EXCEPT ![Of(e)] = "consumed"]
    /\ Goes(e, "armed")
    /\ UNCHANGED <<runVars, claim, authority, approval, permit, callVars, sent>>

\* mark_http_dispatch_boundary_crossed: it asks for the fence and not for the
\* state of the run.
Cross(e) ==
    /\ At(e, {"armed"})
    /\ MayWrite(e)
    /\ slot = [state |-> "send_started", by |-> Of(e)]
    /\ permit[Of(e)] = "ready"
    /\ permit' = [permit EXCEPT ![Of(e)] = "send_started"]
    /\ Goes(e, "crossed")
    /\ UNCHANGED <<runVars, claim, paperVars, callVars, sent>>

\* The network event of the boundary, which asks for the fence again.
AuditCrossing(e) ==
    /\ At(e, {"crossed"})
    /\ MayWrite(e)
    /\ network' = TRUE
    /\ Goes(e, "audited")
    /\ UNCHANGED <<runVars, claim, paperVars, permit, slot, record, runner, sent>>

\* The connection, the request and its answer, with no transaction open: what
\* became of the run or the lease meanwhile is not asked.  The answer may be
\* missing, malformed, refused or over its caps.
Send(e, answered) ==
    /\ At(e, {"audited"})
    /\ sent' = [sent EXCEPT ![Of(e)] = @ + 1]
    /\ Goes(e, IF answered THEN "answered" ELSE "failing")
    /\ UNCHANGED <<runVars, claim, paperVars, permit, callVars>>

\* record_provider_call and the acknowledgement.
Record(e) ==
    /\ At(e, {"answered"})
    /\ MayWrite(e) /\ record = "none"
    /\ record' = "recorded"
    /\ slot' = [slot EXCEPT !.state = "recorded"]
    /\ Goes(e, "recorded")
    /\ UNCHANGED <<runVars, claim, paperVars, permit, network, runner, sent>>

\* The attestation, the dispatch permit and the network attempt.
Settle(e) ==
    /\ At(e, {"recorded"})
    /\ MayWrite(e)
    /\ record' = "attested"
    /\ slot' = [slot EXCEPT !.state = "settled"]
    /\ Goes(e, "settled")
    /\ UNCHANGED <<runVars, claim, paperVars, permit, network, runner, sent>>

\* record_outcome of a success; the runner is not told.
Succeed(e) ==
    /\ At(e, {"settled"})
    /\ permit[Of(e)] = "send_started"
    /\ permit' = [permit EXCEPT ![Of(e)] = "succeeded"]
    /\ exec' = [exec EXCEPT ![e] = Done]
    /\ UNCHANGED <<runVars, claim, paperVars, callVars, sent>>

(***************************************************************************)
(* The failure                                                             *)
(***************************************************************************)
\* A refusal of the authority before the permit ends the execution.
Refused(e) ==
    /\ At(e, {"loading", "loaded"})
    /\ exec' = [exec EXCEPT ![e] = Done]
    /\ UNCHANGED <<runVars, claim, paperVars, permit, callVars, sent>>

\* Anything else that fails, the permit there or not, is closed.
Fails(e) ==
    /\ At(e, Working)
    /\ Goes(e, "failing")
    /\ UNCHANGED <<runVars, claim, paperVars, permit, callVars, sent>>

\* Mutant: only what the provider's ledger knows counts.
LedgerEvidence(c) == record # "none" \/ slot.state \in {"settled", "unknown"}

\* classify_provider_boundary: the permit's own event, or any event, record or
\* terminal attempt of the request.
Evidence(c) ==
    \/ permit[c] \in {"send_started", "succeeded", "unknown"}
    \/ network \/ record # "none"
    \/ slot.state \in {"recorded", "settled", "unknown"}

\* Without a permit in hand nothing is read; evidence that cannot be read is
\* taken for a send.
Classify(e, readable) ==
    /\ At(e, {"failing"})
    /\ ~readable => exec[e].holds
    /\ exec' = [exec EXCEPT ![e].pc = "closing",
                            ![e].reached = exec[e].holds /\ (readable => Evidence(Of(e)))]
    /\ UNCHANGED <<runVars, claim, paperVars, permit, callVars, sent>>

\* The provider's side of what this executor prepared, then the source permit
\* (and the grant), which stay as they are after a send.
CloseProvider(e) ==
    LET c == Of(e)
        mine == exec[e].holds /\ slot.by = c
        open == slot.state \in {"prepared", "send_started"} IN
    /\ At(e, {"closing"})
    /\ slot' = IF mine /\ open /\ MayWrite(e)
               THEN [slot EXCEPT !.state = IF exec[e].reached THEN "unknown" ELSE "cancelled"]
               ELSE slot
    /\ network' = (network \/ (mine /\ exec[e].reached))
    /\ IF exec[e].holds /\ ~exec[e].reached
         THEN source' = [source EXCEPT ![c] = IF @ = "issued" THEN "revoked" ELSE @]
         ELSE UNCHANGED source
    /\ Goes(e, "concluding")
    /\ UNCHANGED <<runVars, claim, authority, approval, permit, record, runner, sent>>

\* record_outcome: "unknown" takes a permit that crossed, "aborted" one that is
\* not over.
Outcome(e) ==
    LET c == Of(e)
        taken == IF exec[e].reached THEN {"send_started"} ELSE {"ready", "send_started"} IN
    IF exec[e].holds /\ permit[c] \in taken
    THEN permit' = [permit EXCEPT ![c] = IF exec[e].reached THEN "unknown" ELSE "aborted"]
    ELSE UNCHANGED permit

RecordOutcome(e) ==
    /\ At(e, {"concluding"})
    /\ Outcome(e)
    /\ exec' = [exec EXCEPT ![e] = IF @.reached THEN Done ELSE [@ EXCEPT !.pc = "aborting"]]
    /\ UNCHANGED <<runVars, claim, paperVars, callVars, sent>>

\* RunnerPersistence.abort_pre_send of the open iteration.
AbortRunner(e) ==
    /\ At(e, {"aborting"})
    /\ runner' = IF running /\ MayWrite(e) THEN "not sent" ELSE runner
    /\ Goes(e, "pausing")
    /\ UNCHANGED <<runVars, claim, paperVars, permit, slot, network, record, sent>>

PauseRun(e) ==
    /\ At(e, {"pausing"})
    /\ IF running /\ MayWrite(e) THEN Paused ELSE UNCHANGED <<running, lease>>
    /\ Goes(e, "releasing")
    /\ UNCHANGED <<now, claim, paperVars, permit, callVars, sent>>

Release(e) ==
    /\ At(e, {"releasing"})
    /\ claim' = [claim EXCEPT ![Of(e)].released = @ \/ ~running \/ MayWrite(e)]
    /\ exec' = [exec EXCEPT ![e] = Done]
    /\ UNCHANGED <<runVars, paperVars, permit, callVars, sent>>

\* A step of the cleanup that fails is noted, and the next one goes on.
Skip(e) ==
    /\ \/ At(e, {"closing"}) /\ Goes(e, "concluding")
       \/ /\ At(e, {"concluding"})
          /\ exec' = [exec EXCEPT ![e] = IF @.reached THEN Done ELSE [@ EXCEPT !.pc = "aborting"]]
       \/ At(e, {"aborting"}) /\ Goes(e, "pausing")
       \/ At(e, {"pausing"}) /\ Goes(e, "releasing")
    /\ UNCHANGED <<runVars, claim, paperVars, permit, callVars, sent>>

------------------------------------------------------------------------------
Executes(e) ==
    \/ \E c \in Claims : Begin(e, c)
    \/ Load(e) \/ ConsumeAndPrepare(e) \/ IssueSource(e) \/ Grant(e) \/ Prepare(e) \/ Start(e)
    \/ ConsumeSource(e) \/ Cross(e) \/ AuditCrossing(e) \/ Record(e) \/ Settle(e) \/ Succeed(e)
    \/ \E answered \in BOOLEAN : Send(e, answered)
    \/ Refused(e) \/ Fails(e) \/ CloseProvider(e) \/ RecordOutcome(e) \/ AbortRunner(e)
    \/ \E readable \in BOOLEAN : Classify(e, readable)
    \/ PauseRun(e) \/ Release(e) \/ Skip(e)

Next ==
    \/ Tick \/ Pause \/ Resume \/ TakeLease
    \/ \E c \in Claims :
           \/ Claim(c) \/ ReleaseClaim(c) \/ Authorize(c) \/ Revoke(c) \/ RevokePermit(c)
           \/ \E expires \in 1..(MaxTime + LeaseTtl) : Register(c, expires)
    \/ \E e \in Executors : Executes(e)

Spec == Init /\ [][Next]_vars

(***************************************************************************)
(* Properties                                                              *)
(***************************************************************************)
\* However many claims, authorities and approvals the call is given, and
\* whatever becomes of their executors, one request leaves and one source is
\* disclosed for it; every variable has its type.
OneRequest ==
    /\ TypeOK
    /\ \A c \in Claims : sent[c] <= 1
    /\ Cardinality({c \in Claims : sent[c] > 0}) <= 1
    /\ Cardinality({c \in Claims : source[c] = "consumed"}) <= 1

\* What the permits say is so, whichever executor closed what in between: one
\* that ended as aborted or revoked was never sent, and one that succeeded has
\* the provider's attested record and the settled dispatch of its own claim.
OutcomesAreTrue ==
    \A c \in Claims :
        /\ permit[c] \in {"aborted", "revoked"} => sent[c] = 0
        /\ permit[c] = "succeeded" => record = "attested" /\ slot = [state |-> "settled", by |-> c]

\* A paused run crosses no boundary and writes no event of one, although the
\* boundary never asks for its state, and no request leaves that the event and
\* the permit do not tell of.  The request itself may leave after a pause: it
\* is the one whose event was written before.
CrossesWhileRunning ==
    [][/\ (\E c \in Claims : permit[c] = "ready" /\ permit'[c] = "send_started") => running
       /\ (\E e \in Executors : exec[e].pc = "crossed" /\ exec'[e].pc = "audited") => running
       /\ \A c \in Claims : sent'[c] # sent[c] => network /\ permit[c] = "send_started"]_vars

\* "Close the saga from durable evidence, never from a process flag"
\* (production_bridge.py): a call with a request on the wire is not closed as
\* one that was not sent.  The code's order of steps allows it.
ClosedFromEvidence == runner = "not sent" => \A c \in Claims : sent[c] = 0
==============================================================================
