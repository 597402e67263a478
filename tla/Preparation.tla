----------------------------- MODULE Preparation -----------------------------
(***************************************************************************)
(* The preparation of one live call: the snapshot of what the call binds,  *)
(* the request for one DNS lookup, the lookup itself, and the handoff by   *)
(* which the worker that prepared the call gives up its claim and lease    *)
(* while people decide.  The run is RUNNING, its iteration is open, and    *)
(* its call group has one intent that nobody sent.                         *)
(*                                                                         *)
(* What a snapshot binds (state, plan, intent, profile, policy, source) is *)
(* one content; the contents follow each other and do not come back.       *)
(* Everything but the resolver is a transaction, and so one step.          *)
(***************************************************************************)
EXTENDS Naturals

CONSTANTS
    Contents,       \* what a snapshot can bind, 1, 2, ...
    RequestTtl,     \* DNS authority
    LeaseTtl,       \* lease and claim
    MaxToken,       \* bound on the lease's fencing token
    MaxTime         \* bound on the clock

ASSUME ContentsAssumption == 1 \in Contents /\ Contents \subseteq Nat
ASSUME TtlsAssumption == {RequestTtl, LeaseTtl, MaxToken, MaxTime} \subseteq Nat \ {0}

VARIABLES
    now,
    running,        \* max_runs.status = "RUNNING"
    content,        \* what a snapshot taken now would bind
    lease,          \* max_leases
    claims,         \* max_runner_invocation_claims, by token: expiry of one not released
    snapshot,       \* ..._preparation_snapshot_current, by content
    preview,        \* max_live_canary_preparation_previews: the contents they show
    request,        \* ..._preparation_dns_requests, by content: expiry
    attempt,        \* max_live_canary_dns_attempt_current of the handoff's request
    resolver,       \* the process that makes the lookup
    receipt,        \* max_live_canary_native_dns_receipts, by content
    handoff         \* max_runner_preparation_handoff_current

runVars == <<now, running, content, lease, claims>>
reviewVars == <<snapshot, preview, request, receipt>>
dnsVars == <<attempt, resolver>>
prepVars == <<runVars, reviewVars, dnsVars, handoff>>

SnapshotStates == {"none", "active", "invalidated", "consumed"}
AttemptStates == {"none", "resolver_started", "passed", "failed", "unknown"}
Waiting == "PREPARED"
Withdrawn == "CANCELLED"      \* EXPIRED and CLOSED are as final
HandoffStates == {"none", Waiting, "JIT_EXECUTING", "SUCCEEDED", "FAILED", "UNKNOWN"}
                    \cup {Withdrawn}

PrepTypeOK ==
    /\ now \in 1..MaxTime /\ running \in BOOLEAN /\ content \in Contents
    /\ lease \in [token : 1..MaxToken, expires : Nat]
    /\ claims \in [1..MaxToken -> Nat]
    /\ snapshot \in [Contents -> SnapshotStates]
    /\ preview \subseteq Contents
    /\ request \in [Contents -> Nat]
    /\ attempt \in AttemptStates /\ resolver \in {"idle", "out"}
    /\ receipt \in [Contents -> {"none", "passed", "failed"}]
    /\ handoff \in [state : HandoffStates, of : {0} \cup Contents, token : 0..MaxToken]

\* The worker that made the plan and the intent holds the claim of its group.
PrepInit ==
    /\ now = 1 /\ running = TRUE /\ content = 1
    /\ lease = [token |-> 1, expires |-> 1 + LeaseTtl]
    /\ claims = [t \in 1..MaxToken |-> IF t = 1 THEN 1 + LeaseTtl ELSE 0]
    /\ snapshot = [c \in Contents |-> "none"]
    /\ preview = {}
    /\ request = [c \in Contents |-> 0]
    /\ attempt = "none" /\ resolver = "idle"
    /\ receipt = [c \in Contents |-> "none"]
    /\ handoff = [state |-> "none", of |-> 0, token |-> 0]

Alive(expires) == expires > now

(***************************************************************************)
(* The run, its lease and its claims                                       *)
(***************************************************************************)
Tick ==
    /\ now < MaxTime
    /\ now' = now + 1
    /\ UNCHANGED <<running, content, lease, claims, reviewVars, dnsVars, handoff>>

\* A new state, plan, intent, profile or policy of the run.
Change ==
    /\ content + 1 \in Contents
    /\ content' = content + 1
    /\ UNCHANGED <<now, running, lease, claims, reviewVars, dnsVars, handoff>>

\* pause gives the lease back and leaves the claims.
Paused == running' = FALSE /\ lease' = [lease EXCEPT !.expires = 0]

Pause ==
    /\ running
    /\ Paused
    /\ UNCHANGED <<now, content, claims, reviewVars, dnsVars, handoff>>

Resume ==
    /\ ~running
    /\ running' = TRUE
    /\ UNCHANGED <<now, content, lease, claims, reviewVars, dnsVars, handoff>>

\* _assert_fence of the holder of a token.
Fenced(t) == lease.token = t /\ Alive(lease.expires)

\* A lease under a new token, with the claim of an invocation.
Acquired ==
    /\ running
    /\ ~Alive(lease.expires)
    /\ lease.token < MaxToken
    /\ lease' = [token |-> lease.token + 1, expires |-> now + LeaseTtl]
    /\ claims' = [claims EXCEPT ![lease.token + 1] = now + LeaseTtl]

\* release_invocation, then release_lease: each is refused without the fence.
Released(t) ==
    IF Fenced(t)
    THEN /\ claims' = [claims EXCEPT ![t] = 0]
         /\ lease' = [lease EXCEPT !.expires = 0]
    ELSE UNCHANGED <<claims, lease>>

\* The preparing worker comes back for the call it prepared.
Work ==
    /\ handoff.state = "none"
    /\ Acquired
    /\ UNCHANGED <<now, running, content, reviewVars, dnsVars, handoff>>

(***************************************************************************)
(* The snapshot and what is shown of it                                    *)
(***************************************************************************)
\* _drift: the run does not run, or the snapshot binds something else by now.
Bound(c) == running /\ c = content

\* An unchanged binding is an old snapshot, whatever became of it.
CreateSnapshot ==
    /\ running
    /\ snapshot[content] = "none"
    /\ \A c \in Contents : snapshot[c] # "active"
    /\ snapshot' = [snapshot EXCEPT ![content] = "active"]
    /\ UNCHANGED <<runVars, preview, request, receipt, dnsVars, handoff>>

Invalidate(c) ==
    /\ snapshot[c] = "active"
    /\ snapshot' = [snapshot EXCEPT ![c] = "invalidated"]
    /\ UNCHANGED <<runVars, preview, request, receipt, dnsVars, handoff>>

Usable(c) == snapshot[c] = "active" /\ Bound(c)

\* issue_jit_authority with its human approval: a fresh lease and claim, and
\* the snapshot is used up.
IssueJit(c) ==
    /\ Usable(c) /\ c \in preview
    /\ Acquired
    /\ snapshot' = [snapshot EXCEPT ![c] = "consumed"]
    /\ UNCHANGED <<now, running, content, preview, request, receipt, dnsVars, handoff>>

ShowPreview(c) ==
    /\ Usable(c) /\ c \notin preview
    /\ preview' = preview \cup {c}
    /\ UNCHANGED <<runVars, snapshot, request, receipt, dnsVars, handoff>>

\* create_dns_only_request: one of a preview.
RequestDns(c) ==
    /\ Usable(c) /\ c \in preview
    /\ request[c] = 0
    /\ request' = [request EXCEPT ![c] = now + RequestTtl]
    /\ UNCHANGED <<runVars, snapshot, preview, receipt, dnsVars, handoff>>

\* record_dns_receipt, of a lookup made elsewhere: one of a request, of
\* which it asks neither the age nor the snapshot.
RecordReceipt(c, result) ==
    /\ request[c] > 0 /\ receipt[c] = "none"
    /\ receipt' = [receipt EXCEPT ![c] = result]
    /\ UNCHANGED <<runVars, snapshot, preview, request, dnsVars, handoff>>

(***************************************************************************)
(* The handoff                                                             *)
(***************************************************************************)
\* handoff_preparation of the snapshot of c under the claim of t.
HandOff(t, c, sent) ==
    /\ handoff.state = "none"
    /\ claims[t] > 0 /\ Fenced(t)
    /\ request[c] > 0 /\ Bound(c)
    /\ ~sent
    /\ handoff' = [state |-> Waiting, of |-> c, token |-> t]
    /\ Released(t)
    /\ UNCHANGED <<now, running, content, reviewVars, dnsVars>>

\* verify_group_handoff of a handoff that waits.
Idle(sent) == ~sent /\ ~Alive(lease.expires) /\ \A t \in DOMAIN claims : ~Alive(claims[t])

\* close_waiting_handoff.
CloseWaiting(sent) ==
    /\ handoff.state = Waiting
    /\ Idle(sent)
    /\ handoff' = [handoff EXCEPT !.state = Withdrawn]
    /\ UNCHANGED <<runVars, reviewVars, dnsVars>>

\* transition_to_jit_connection: the lease and the claim of token t are fresh.
Executing(t) ==
    /\ handoff.state = Waiting
    /\ t > handoff.token
    /\ handoff' = [handoff EXCEPT !.state = "JIT_EXECUTING"]

\* transition_terminal, whose refusal its callers swallow.
Concluded(state) ==
    handoff' = [handoff EXCEPT !.state = IF @ \in {"JIT_EXECUTING", state} THEN state ELSE @]

(***************************************************************************)
(* The lookup                                                              *)
(***************************************************************************)
\* begin_attempt: the attempt and its consumptions are written before the
\* resolver is asked, once for a request.
BeginAttempt(touched) ==
    /\ handoff.state = Waiting
    /\ Alive(request[handoff.of])
    /\ attempt = "none"
    /\ ~Alive(lease.expires)
    /\ ~touched /\ receipt[handoff.of] = "none"
    /\ attempt' = "resolver_started" /\ resolver' = "out"
    /\ UNCHANGED <<runVars, reviewVars, handoff>>

\* Mutant: an answer is recorded wherever the attempt stands.
CommitsLate(result) == attempt' = result

\* _commit_result, and _transition_unknown where it is refused.
Commits(result) == attempt' = IF attempt = "resolver_started" THEN result ELSE attempt

\* An exception and an answer that cannot be bounded are "unknown".
ResolverReturns(result) ==
    /\ resolver = "out"
    /\ Commits(result)
    /\ resolver' = "idle"
    /\ UNCHANGED <<runVars, reviewVars, handoff>>

ResolverLost ==
    /\ resolver = "out"
    /\ resolver' = "idle"
    /\ UNCHANGED <<runVars, reviewVars, attempt, handoff>>

\* recover_unknown does not know whether the resolver is still out.
RecoverUnknown ==
    /\ attempt = "resolver_started"
    /\ attempt' = "unknown"
    /\ UNCHANGED <<runVars, reviewVars, resolver, handoff>>

Looked == attempt = "passed"

------------------------------------------------------------------------------
\* The preparation of a call that nobody executes.
PrepNext ==
    \/ Tick \/ Change \/ Pause \/ Resume \/ Work \/ CreateSnapshot
    \/ \E c \in Contents : Invalidate(c) \/ IssueJit(c) \/ ShowPreview(c) \/ RequestDns(c)
    \/ \E c \in Contents, result \in {"passed", "failed"} : RecordReceipt(c, result)
    \/ \E t \in DOMAIN claims, c \in Contents : HandOff(t, c, FALSE)
    \/ CloseWaiting(FALSE)
    \/ BeginAttempt(FALSE) \/ ResolverLost \/ RecoverUnknown
    \/ \E result \in {"passed", "failed", "unknown"} : ResolverReturns(result)

PrepSpec == PrepInit /\ [][PrepNext]_prepVars

(***************************************************************************)
(* Properties                                                              *)
(***************************************************************************)
\* A handoff that waits for people holds up nobody: the claim it was prepared
\* under was given up.
ClaimGivenUp == handoff.state = Waiting => claims[handoff.token] = 0

\* A lookup that was given up as unknown does not pass later, and one that
\* passed is not taken back.
VerdictStep == attempt \in {"passed", "failed", "unknown"} => attempt' = attempt
LookupVerdictStands == [][VerdictStep]_prepVars
==============================================================================
