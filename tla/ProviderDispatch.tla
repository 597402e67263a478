-------------------------- MODULE ProviderDispatch --------------------------
(***************************************************************************)
(* The provider store: one execution grant, the claims and the physical    *)
(* attempts the run's model calls make under it, the grant's usage         *)
(* projection, and for live calls the authorizations, the bundle that      *)
(* hands them out in order and the one-time dispatch permits.  Workers are *)
(* the adapters of the runner processes; two of them may run in one        *)
(* session and so share its lease.                                         *)
(*                                                                         *)
(* Every store method is one control_transaction and one step, on the      *)
(* clock as it is inside the transaction.  An adapter is the sequence of   *)
(* the methods it calls.  A refused method is the worker giving up, except *)
(* where the live adapter answers the refusal with a disputed permit.      *)
(* Costs stand for the five capped amounts of a reservation.  The lease is *)
(* RunControl's, the durable intent of a call RunnerCall's.                *)
(***************************************************************************)
EXTENDS Naturals, FiniteSets, SequencesExt

CONSTANTS
    Workers, Sessions, Calls,
    LiveCalls,      \* the calls made through the live adapter and its bundle
    NoOne,          \* no session, no call
    MaxCalls,       \* grant: max_provider_calls
    CostCap,        \* grant: max_cost_units
    Reserve,        \* what the profile's maximum usage costs
    Within, Beyond, \* what the provider charges within the reservation and beyond it
    LeaseTtl, GrantTtl, AuthTtl, PermitTtl,
    MaxAuths,       \* live authorizations the administrator issues
    MaxTakes,       \* bound on the lease's fencing token
    MaxTime         \* bound on the clock

ASSUME CallsAssumption == LiveCalls \subseteq Calls /\ NoOne \notin Calls \cup Sessions
ASSUME CostsAssumption ==
    /\ {Within, Beyond} \subseteq Nat /\ Within <= Reserve /\ Reserve < Beyond
    /\ {MaxCalls, CostCap, Reserve, MaxAuths, MaxTakes} \subseteq Nat
    /\ {LeaseTtl, GrantTtl, AuthTtl, PermitTtl, MaxTime} \subseteq Nat \ {0}

VARIABLES
    clock,
    status,         \* max_runs.status, from the start of the run on
    lease,          \* max_leases
    grant,          \* the execution grant with its consumption and closure
    usage,          \* max_provider_grant_usage_current
    claims,         \* max_provider_call_claim_current, by call
    attempts,       \* max_provider_dispatch_attempts with their current state
    records,        \* max_provider_call_records, by call: the attempt it binds
    retries,        \* last retry decision consumed for a call
    auths,          \* max_live_network_authorizations with their current state
    bundle,         \* max_live_authorization_bundles with its current state
    assigned,       \* max_live_authorization_assignments: call -> authorization
    permits,        \* max_live_dispatch_permits with their current state
    worker,         \* the processes
    sent            \* ghost: how often the request of an attempt left the process

runVars == <<clock, status, lease>>
ledgerVars == <<usage, claims, attempts, records>>
liveVars == <<auths, bundle, assigned, permits>>
vars == <<runVars, grant, ledgerVars, retries, liveVars, worker, sent>>

AttemptStates == {"reserved", "dispatching", "unknown", "succeeded", "failed", "cancelled",
                  "disputed", "settled"}
ClaimStates == {"none", "claimed", "dispatching", "unknown", "dispatched", "failed", "released",
                "disputed", "settled"}
PermitStates == {"none", "ready", "send_started", "settled", "failed", "unknown", "disputed"}
PermitOutcomes == {"settled", "failed", "unknown", "disputed"}
Costs == {"within", "beyond"}
CostOf(answer) == IF answer = "within" THEN Within ELSE Beyond
Answers == {"none", "known_failure", "bad_reply"} \cup PermitOutcomes \cup Costs
Places == {"idle", "claimed", "sending", "crossed", "answered", "recorded", "outcome", "disputed"}

\* A process of session s that has nothing in hand.
Idle(s) == [session |-> s, pc |-> "idle", call |-> NoOne, token |-> 0, attempt |-> 0,
            answer |-> "none"]

NoPermit == [state |-> "none", attempt |-> 0, auth |-> 0, owner |-> NoOne, token |-> 0,
                crossed |-> FALSE, expires |-> 0]

TypeOK ==
    /\ clock \in 1..MaxTime
    /\ status \in {"RUNNING", "PAUSED"}
    /\ lease \in [owner : Sessions \cup {NoOne}, token : 0..MaxTakes, expires : Nat]
    /\ grant \in [state : {"none", "issued", "consumed"}, expires : Nat, closed : BOOLEAN]
    /\ usage \in [dispatches : 0..MaxCalls, reserved : 0..CostCap, settled : 0..CostCap,
                  released : Nat]
    /\ usage.reserved + usage.settled <= CostCap
    /\ claims \in [Calls -> ClaimStates]
    /\ \A a \in DOMAIN attempts :
         attempts[a] \in [call : Calls, owner : Sessions, token : 1..MaxTakes,
                          state : AttemptStates, at : Nat, actual : Nat]
    /\ records \in [Calls -> 0..MaxCalls]
    /\ retries \in [Calls -> Nat]
    /\ \A n \in DOMAIN auths :
         auths[n] \in [state : {"active", "consumed", "revoked", "expired"}, expires : Nat]
    /\ bundle.state \in {"none", "active", "exhausted", "revoked"}
    /\ \A n \in DOMAIN bundle.members : bundle.members[n] \in DOMAIN auths
    /\ assigned \in [Calls -> 0..MaxAuths]
    /\ permits \in [Calls -> [state : PermitStates, attempt : 0..MaxCalls, auth : 0..MaxAuths,
                              owner : Sessions \cup {NoOne}, token : 0..MaxTakes,
                              crossed : BOOLEAN, expires : Nat]]
    /\ worker \in [Workers -> [session : Sessions, pc : Places, call : Calls \cup {NoOne},
                               token : 0..MaxTakes, attempt : 0..MaxCalls, answer : Answers]]
    /\ sent \in [1..MaxCalls -> Nat]

Init ==
    /\ clock = 1
    /\ status = "RUNNING"
    /\ lease = [owner |-> NoOne, token |-> 0, expires |-> 0]
    /\ grant = [state |-> "none", expires |-> 0, closed |-> FALSE]
    /\ usage = [dispatches |-> 0, reserved |-> 0, settled |-> 0, released |-> 0]
    /\ claims = [c \in Calls |-> "none"]
    /\ attempts = <<>>
    /\ records = [c \in Calls |-> 0]
    /\ retries = [c \in Calls |-> 0]
    /\ auths = <<>>
    /\ bundle = [state |-> "none", members |-> <<>>, next |-> 1]
    /\ assigned = [c \in Calls |-> 0]
    /\ permits = [c \in Calls |-> NoPermit]
    /\ \E home \in [Workers -> Sessions] : worker = [w \in Workers |-> Idle(home[w])]
    /\ sent = [a \in 1..MaxCalls |-> 0]

Tick ==
    /\ clock < MaxTime
    /\ clock' = clock + 1
    /\ UNCHANGED <<status, lease, grant, ledgerVars, retries, liveVars, worker, sent>>

(***************************************************************************)
(* The run and its lease                                                   *)
(***************************************************************************)
Alive(expires) == expires > clock

\* Taken for some time, which its renewals are part of.
TakeLease(s, ttl) ==
    /\ status = "RUNNING"
    /\ ~Alive(lease.expires)
    /\ lease.token < MaxTakes
    /\ lease' = [owner |-> s, token |-> lease.token + 1, expires |-> clock + ttl]
    /\ UNCHANGED <<clock, status, grant, ledgerVars, retries, liveVars, worker, sent>>

\* pause gives the lease back.
Paused == status' = "PAUSED" /\ lease' = [lease EXCEPT !.expires = 0]

Pause ==
    /\ status = "RUNNING"
    /\ Paused
    /\ UNCHANGED <<clock, grant, ledgerVars, retries, liveVars, worker, sent>>

\* A decision and the resumption are two commands of an administrator: time
\* passes between them.
Resume ==
    /\ status = "PAUSED"
    /\ \A c \in Calls : retries[c] < clock
    /\ status' = "RUNNING"
    /\ UNCHANGED <<clock, lease, grant, ledgerVars, retries, liveVars, worker, sent>>

\* consume_admin_decision: once for a call, in a paused run whose dispatch of
\* the call is in doubt.
DecideRetry(c) ==
    /\ status = "PAUSED"
    /\ retries[c] = 0
    /\ claims[c] \in {"claimed", "dispatching", "unknown", "dispatched"}
    /\ retries' = [retries EXCEPT ![c] = clock]
    /\ UNCHANGED <<runVars, grant, ledgerVars, liveVars, worker, sent>>

(***************************************************************************)
(* The grant                                                               *)
(***************************************************************************)
IssueGrant ==
    /\ grant.state = "none" /\ ~grant.closed
    /\ status = "RUNNING"
    /\ grant' = [grant EXCEPT !.state = "issued", !.expires = clock + GrantTtl]
    /\ UNCHANGED <<runVars, ledgerVars, retries, liveVars, worker, sent>>

ConsumeGrant ==
    /\ grant.state = "issued" /\ ~grant.closed
    /\ Alive(grant.expires)
    /\ grant' = [grant EXCEPT !.state = "consumed"]
    /\ UNCHANGED <<runVars, ledgerVars, retries, liveVars, worker, sent>>

\* close_execution_grant_before_send looks at no attempt.
CloseGrant ==
    /\ grant.state # "none" /\ ~grant.closed
    /\ grant' = [grant EXCEPT !.closed = TRUE]
    /\ UNCHANGED <<runVars, ledgerVars, retries, liveVars, worker, sent>>

(***************************************************************************)
(* Claims and physical attempts                                            *)
(***************************************************************************)
OfCall(c) == {a \in DOMAIN attempts : attempts[a].call = c}
Latest(c) == Max(OfCall(c))

Holds(s, token) ==
    /\ Alive(lease.expires)
    /\ lease.owner = s
    /\ lease.token = token

\* Mutant: the session is compared, the token is not.
OwnsByName(w, a) ==
    /\ attempts[a].owner = worker[w].session
    /\ Holds(worker[w].session, lease.token)

\* _check_attempt_lease.
Owns(w, a) ==
    /\ attempts[a].owner = worker[w].session
    /\ attempts[a].token = worker[w].token
    /\ Holds(worker[w].session, worker[w].token)

\* One more call and its reservation fit into the grant.
Room ==
    /\ usage.dispatches < MaxCalls
    /\ usage.settled + usage.reserved + Reserve <= CostCap

\* Mutant: a retry takes over the reservation of the attempt before it.
NewAttemptOnce(s, c) ==
    /\ attempts' = Append(attempts, [call |-> c, owner |-> s, token |-> lease.token,
                                     state |-> "reserved", at |-> 0, actual |-> 0])
    /\ usage' = [usage EXCEPT !.dispatches = @ + 1,
                              !.reserved = IF OfCall(c) = {} THEN @ + Reserve ELSE @]
    /\ claims' = [claims EXCEPT ![c] = "claimed"]

\* _create_physical_attempt: it reserves again.
NewAttempt(s, c) ==
    /\ attempts' = Append(attempts, [call |-> c, owner |-> s, token |-> lease.token,
                                     state |-> "reserved", at |-> 0, actual |-> 0])
    /\ usage' = [usage EXCEPT !.dispatches = @ + 1, !.reserved = @ + Reserve]
    /\ claims' = [claims EXCEPT ![c] = "claimed"]

\* _set_attempt_current and _set_claim_current in one transaction.
Moves(a, attempt, claim) ==
    /\ attempts' = [attempts EXCEPT ![a].state = attempt,
                                    ![a].at = IF attempt \in {"dispatching", "unknown"}
                                              THEN clock ELSE @]
    /\ claims' = [claims EXCEPT ![attempts[a].call] = claim]

Released == usage' = [usage EXCEPT !.reserved = @ - Reserve, !.released = @ + Reserve]

ClaimNew(s, c) ==
    /\ ~grant.closed
    /\ claims[c] = "none"
    /\ grant.state = "consumed" /\ Alive(grant.expires)
    /\ status = "RUNNING"
    /\ Holds(s, lease.token)
    /\ Room
    /\ NewAttempt(s, c)

Claimed(c) == ~grant.closed /\ claims[c] \notin {"none", "disputed", "released", "failed"}

\* A retry was decided on after the last attempt was last seen in flight.
Decided(c) ==
    /\ retries[c] > 0
    /\ attempts[Latest(c)].at > 0
    /\ retries[c] >= attempts[Latest(c)].at

ClaimRetry(s, c) ==
    /\ Claimed(c)
    /\ Holds(s, lease.token)
    /\ attempts[Latest(c)].state # "reserved"
    /\ claims[c] \in {"unknown", "dispatching"}
    /\ Decided(c)
    /\ Room
    /\ NewAttempt(s, c)

(***************************************************************************)
(* The administrator of live calls                                         *)
(***************************************************************************)
IssueAuth ==
    /\ Len(auths) < MaxAuths
    /\ status = "RUNNING"
    /\ grant.state = "consumed"
    /\ auths' = Append(auths, [state |-> "active", expires |-> clock + AuthTtl])
    /\ UNCHANGED <<runVars, grant, ledgerVars, retries, bundle, assigned, permits, worker, sent>>

\* _change_live_authorization_state: a consumed authority is not taken back.
EndAuth(n) ==
    /\ auths[n].state = "active"
    /\ \E target \in {"revoked", "expired"} :
         /\ target = "expired" => ~Alive(auths[n].expires)
         /\ auths' = [auths EXCEPT ![n].state = target]
    /\ UNCHANGED <<runVars, grant, ledgerVars, retries, bundle, assigned, permits, worker, sent>>

Usable(n) == auths[n].state = "active" /\ Alive(auths[n].expires)

\* create: an authority is in one bundle, and a run has one bundle here.
CreateBundle(members) ==
    /\ bundle.state = "none"
    /\ status = "RUNNING"
    /\ Len(members) <= MaxCalls
    /\ \A n \in Range(members) : Usable(n)
    /\ bundle' = [state |-> "active", members |-> members, next |-> 1]
    /\ UNCHANGED <<runVars, grant, ledgerVars, retries, auths, assigned, permits, worker, sent>>

RevokeBundle ==
    /\ bundle.state \in {"active", "exhausted"}
    /\ bundle' = [bundle EXCEPT !.state = "revoked"]
    /\ UNCHANGED <<runVars, grant, ledgerVars, retries, auths, assigned, permits, worker, sent>>

\* A bundle expires with the first of its members.
BundleAlive == \A n \in Range(bundle.members) : Alive(auths[n].expires)

(***************************************************************************)
(* The worker of a hermetic call                                           *)
(***************************************************************************)
Enters(w, place, c, a) ==
    worker' = [worker EXCEPT ![w] = [session |-> @.session, pc |-> place, call |-> c,
                                     token |-> lease.token, attempt |-> a, answer |-> "none"]]
Goes(w, place) == worker' = [worker EXCEPT ![w].pc = place]
Leaves(w) == worker' = [worker EXCEPT ![w] = Idle(@.session)]
Live(w) == worker[w].call \in LiveCalls

Claim(w, c) ==
    /\ worker[w].pc = "idle"
    /\ c \notin LiveCalls
    /\ ClaimNew(worker[w].session, c) \/ ClaimRetry(worker[w].session, c)
    /\ Enters(w, "claimed", c, Len(attempts'))
    /\ UNCHANGED <<runVars, grant, records, retries, liveVars, sent>>

\* The claim of a slot that was reserved and not started is given again.
ClaimReserved(w, c) ==
    /\ worker[w].pc = "idle"
    /\ c \notin LiveCalls
    /\ Claimed(c)
    /\ Holds(worker[w].session, lease.token)
    /\ LET last == attempts[Latest(c)]
       IN last.state = "reserved" /\ last.owner = worker[w].session /\ last.token = lease.token
    /\ Enters(w, "claimed", c, Latest(c))
    /\ UNCHANGED <<runVars, grant, ledgerVars, retries, liveVars, sent>>

\* Mutant: who finds the attempt dispatching sends as well.
StartableAgain(state) == state \in {"reserved", "dispatching"}
Startable(state) == state = "reserved"

\* start_provider_dispatch_attempt; who finds the attempt dispatching is told
\* that another worker is busy with it and gives up.
Start(w) ==
    /\ worker[w].pc = "claimed" /\ ~Live(w)
    /\ Owns(w, worker[w].attempt)
    /\ Startable(attempts[worker[w].attempt].state)
    /\ Moves(worker[w].attempt, "dispatching", "dispatching")
    /\ Goes(w, "sending")
    /\ UNCHANGED <<runVars, grant, usage, records, retries, liveVars, sent>>

Answered(w, answer) == worker' = [worker EXCEPT ![w].pc = "answered", ![w].answer = answer]

\* The transport: nothing is looked up between the start and the request.
Send(w, answer) ==
    /\ worker[w].pc = IF Live(w) THEN "crossed" ELSE "sending"
    /\ sent' = [sent EXCEPT ![worker[w].attempt] = @ + 1]
    /\ Answered(w, answer)
    /\ UNCHANGED <<runVars, grant, ledgerVars, retries, liveVars>>

\* It fails before the request is out.
SendFails(w) ==
    /\ worker[w].pc = "sending"
    /\ Answered(w, "known_failure")
    /\ UNCHANGED <<runVars, grant, ledgerVars, retries, liveVars, sent>>

\* What a live worker has to tell the permit next; others are done.
Concludes(w, outcome) ==
    IF Live(w) THEN worker' = [worker EXCEPT ![w].pc = "outcome", ![w].answer = outcome]
               ELSE Leaves(w)

\* mark_provider_call_unknown: of the latest attempt, if it is not over.
MarkUnknown(w) ==
    LET last == Latest(worker[w].call) IN
    /\ worker[w].pc = "answered" /\ worker[w].answer = "unknown"
    /\ Owns(w, last)
    /\ IF attempts[last].state \in {"failed", "settled", "cancelled", "disputed"}
         THEN UNCHANGED <<attempts, claims>>
         ELSE Moves(last, "unknown", "unknown")
    /\ Concludes(w, "unknown")
    /\ UNCHANGED <<runVars, grant, usage, records, retries, liveVars, sent>>

\* record_provider_call up to its insert.
Recordable(w) ==
    LET c == worker[w].call
        a == worker[w].attempt
    IN /\ records[c] = 0
       /\ Latest(c) = a
       /\ claims[c] \in {"claimed", "dispatching", "unknown"}
       /\ attempts[a].state \in {"reserved", "dispatching", "unknown"}
       /\ attempts[a].owner = worker[w].session
       /\ Holds(attempts[a].owner, attempts[a].token)

RecordFailed(w) ==
    /\ worker[w].pc = "answered" /\ worker[w].answer \in {"known_failure", "bad_reply"}
    /\ Recordable(w)
    /\ records' = [records EXCEPT ![worker[w].call] = worker[w].attempt]
    /\ Moves(worker[w].attempt, "failed", "failed")
    /\ Released
    /\ Concludes(w, IF worker[w].answer = "bad_reply" THEN "disputed" ELSE "failed")
    /\ UNCHANGED <<runVars, grant, retries, liveVars, sent>>

RecordSuccess(w) ==
    /\ worker[w].pc = "answered" /\ worker[w].answer \in Costs
    /\ Recordable(w)
    /\ records' = [records EXCEPT ![worker[w].call] = worker[w].attempt]
    /\ Moves(worker[w].attempt, "succeeded", "dispatched")
    /\ Goes(w, "recorded")
    /\ UNCHANGED <<runVars, grant, usage, retries, liveVars, sent>>

\* Mutant: usage beyond the reservation is settled like any other.
VerdictSettled(cost) == "settled"
Verdict(cost) == IF cost > Reserve THEN "disputed" ELSE "settled"

\* record_provider_attestation: a dispute keeps the reservation.
Attest(w) ==
    LET c == worker[w].call
        a == records[c]
        cost == CostOf(worker[w].answer)
    IN /\ worker[w].pc = "recorded"
       /\ claims[c] = "dispatched" /\ attempts[a].state = "succeeded"
       /\ attempts[a].owner = worker[w].session
       /\ Holds(attempts[a].owner, attempts[a].token)
       /\ claims' = [claims EXCEPT ![c] = Verdict(cost)]
       /\ IF cost > Reserve
            THEN /\ attempts' = [attempts EXCEPT ![a].state = "disputed"]
                 /\ UNCHANGED usage
            ELSE /\ attempts' = [attempts EXCEPT ![a].state = "settled", ![a].actual = cost]
                 /\ usage' = [usage EXCEPT !.reserved = @ - Reserve, !.settled = @ + cost,
                                           !.released = @ + (Reserve - cost)]
       /\ IF Verdict(cost) = "disputed" /\ ~Live(w) THEN Goes(w, "disputed")
                                                     ELSE Concludes(w, Verdict(cost))
       /\ UNCHANGED <<runVars, grant, records, retries, liveVars, sent>>

\* The store refuses a live call's record or its attestation: for the lease, or
\* for what the record and its bindings say, which this model does not look
\* into.  The adapter turns to the permit all the same, and the attempt stays as
\* it is.
RecordRefused(w) ==
    /\ Live(w)
    /\ worker[w].pc \in {"answered", "recorded"} /\ worker[w].answer \in Costs
    /\ Concludes(w, "disputed")
    /\ UNCHANGED <<runVars, grant, ledgerVars, retries, liveVars, sent>>

\* The adapter pauses the run of a disputed call if it still may.
PauseDisputed(w) ==
    /\ worker[w].pc = "disputed"
    /\ IF status = "RUNNING" /\ Holds(worker[w].session, worker[w].token)
         THEN Paused ELSE UNCHANGED <<status, lease>>
    /\ Leaves(w)
    /\ UNCHANGED <<clock, grant, ledgerVars, retries, liveVars, sent>>

(***************************************************************************)
(* The worker of a live call                                               *)
(***************************************************************************)
\* assign: the next authority of the bundle for the call's intent.
Assign(w, c) ==
    LET n == bundle.members[bundle.next] IN
    /\ worker[w].pc = "idle" /\ c \in LiveCalls /\ assigned[c] = 0
    /\ bundle.state = "active" /\ BundleAlive
    /\ status = "RUNNING"
    /\ Holds(worker[w].session, lease.token)
    /\ Usable(n)
    /\ assigned' = [assigned EXCEPT ![c] = n]
    /\ bundle' = [bundle EXCEPT !.next = @ + 1,
                                !.state = IF bundle.next = Len(bundle.members)
                                          THEN "exhausted" ELSE "active"]
    /\ UNCHANGED <<runVars, grant, ledgerVars, retries, auths, permits, worker, sent>>

\* The assignment's bundle: one that has given out its last authority will do.
Executable == bundle.state \in {"active", "exhausted"} /\ BundleAlive

\* consume_live_network_authorization.
Consume(n) == Usable(n) /\ auths' = [auths EXCEPT ![n].state = "consumed"]

\* prepare_live_dispatch: claim, reservation, consumption of the authority and
\* permit in one transaction; a claim that exists is refused.
Prepare(w, c) ==
    LET n == assigned[c] IN
    /\ worker[w].pc = "idle" /\ n # 0
    /\ Executable
    /\ permits[c].state = "none"
    /\ ClaimNew(worker[w].session, c)
    /\ Consume(n)
    /\ permits' = [permits EXCEPT ![c] =
         [state |-> "ready", attempt |-> Len(attempts'), auth |-> n,
          owner |-> worker[w].session, token |-> lease.token, crossed |-> FALSE,
          expires |-> IF auths[n].expires < clock + PermitTtl THEN auths[n].expires
                                                              ELSE clock + PermitTtl]]
    /\ Enters(w, "claimed", c, Len(attempts'))
    /\ UNCHANGED <<runVars, grant, records, retries, bundle, assigned, sent>>

\* The permit that is ready is given again to callers that prepare by
\* themselves; the live adapter's preflight asks for an active authority first
\* and never gets here.
PrepareAgain(w, c) ==
    /\ worker[w].pc = "idle" /\ assigned[c] # 0
    /\ Executable
    /\ permits[c].state = "ready" /\ Alive(permits[c].expires)
    /\ permits[c].owner = worker[w].session
    /\ worker' = [worker EXCEPT ![w] = [session |-> @.session, pc |-> "claimed", call |-> c,
                                        token |-> permits[c].token,
                                        attempt |-> permits[c].attempt, answer |-> "none"]]
    /\ UNCHANGED <<runVars, grant, ledgerVars, retries, liveVars, sent>>

StartLive(w) ==
    LET c == worker[w].call IN
    /\ worker[w].pc = "claimed" /\ Live(w)
    /\ permits[c].state = "ready" /\ Alive(permits[c].expires)
    /\ auths[permits[c].auth].state = "consumed"
    /\ Owns(w, worker[w].attempt)
    /\ Startable(attempts[worker[w].attempt].state)
    /\ Moves(worker[w].attempt, "dispatching", "dispatching")
    /\ permits' = [permits EXCEPT ![c].state = "send_started"]
    /\ Goes(w, "sending")
    /\ UNCHANGED <<runVars, grant, usage, records, retries, auths, bundle, assigned, sent>>

\* validate_live_dispatch_permit.
Validated(w) ==
    LET p == permits[worker[w].call] IN
    /\ p.state = "send_started" /\ Alive(p.expires)
    /\ auths[p.auth].state = "consumed"
    /\ Holds(p.owner, p.token)

\* The boundary is written down before the request goes out.
Cross(w) ==
    LET c == worker[w].call IN
    /\ worker[w].pc = "sending" /\ Live(w)
    /\ Validated(w)
    /\ Owns(w, worker[w].attempt)
    /\ permits' = [permits EXCEPT ![c].crossed = TRUE]
    /\ Goes(w, "crossed")
    /\ UNCHANGED <<runVars, grant, ledgerVars, retries, auths, bundle, assigned, sent>>

MarkOutcome(w) ==
    LET c == worker[w].call IN
    /\ worker[w].pc = "outcome"
    /\ Owns(w, worker[w].attempt)
    /\ permits[c].state \in {"ready", "send_started"}
    /\ permits' = [permits EXCEPT ![c].state = worker[w].answer]
    /\ Leaves(w)
    /\ UNCHANGED <<runVars, grant, ledgerVars, retries, auths, bundle, assigned, sent>>

\* No boundary was written down: what the callers of the abort look at.
Unsent(c) == ~permits[c].crossed

\* abort_live_dispatch_before_send, by the process that has the call in hand.
AbortBeforeSend(w) ==
    LET c == worker[w].call
        a == worker[w].attempt
    IN /\ worker[w].pc \in {"claimed", "sending", "crossed", "answered", "outcome"} /\ Live(w)
       /\ Unsent(c)
       /\ permits[c].state \in {"ready", "send_started"}
       /\ Owns(w, a)
       /\ attempts[a].state \in {"reserved", "dispatching"}
       /\ Moves(a, "cancelled", "released")
       /\ Released
       /\ permits' = [permits EXCEPT ![c].state = "failed"]
       /\ Leaves(w)
       /\ UNCHANGED <<runVars, grant, records, retries, auths, bundle, assigned, sent>>

\* A worker gives up what was refused or raised, or dies; it is started again in
\* its session, and the other worker is what a new session would be.
Restart(w) ==
    /\ worker[w].pc # "idle"
    /\ Leaves(w)
    /\ UNCHANGED <<runVars, grant, ledgerVars, retries, liveVars, sent>>

Work(w) ==
    \/ \E c \in Calls : Claim(w, c) \/ ClaimReserved(w, c)
    \/ \E c \in LiveCalls : Assign(w, c) \/ Prepare(w, c) \/ PrepareAgain(w, c)
    \/ Start(w) \/ StartLive(w) \/ Cross(w) \/ SendFails(w)
    \/ \E answer \in {"known_failure", "bad_reply", "unknown"} \cup Costs : Send(w, answer)
    \/ MarkUnknown(w) \/ RecordFailed(w) \/ RecordSuccess(w) \/ Attest(w) \/ RecordRefused(w)
    \/ PauseDisputed(w) \/ MarkOutcome(w) \/ AbortBeforeSend(w)
    \/ Restart(w)

Administer ==
    \/ Pause \/ Resume \/ IssueGrant \/ ConsumeGrant \/ CloseGrant
    \/ \E c \in Calls : DecideRetry(c)
    \/ IssueAuth \/ RevokeBundle
    \/ \E n \in DOMAIN auths : EndAuth(n)
    \/ \E members \in UNION {Injection(1..k, DOMAIN auths) : k \in 1..Len(auths)} :
         CreateBundle(members)

Next ==
    \/ Tick \/ Administer
    \/ \E s \in Sessions, ttl \in 1..LeaseTtl : TakeLease(s, ttl)
    \/ \E w \in Workers : Work(w)

Spec == Init /\ [][Next]_vars

(***************************************************************************)
(* Properties                                                              *)
(***************************************************************************)
InState(S) == {a \in DOMAIN attempts : attempts[a].state \in S}

\* What the settled attempts cost.
Charged ==
    SumFunctionOnSet([a \in DOMAIN attempts |-> attempts[a].actual], InState({"settled"}))

\* verify: the grant's usage projection is what its attempts add up to, through
\* retries, failures, disputes and aborts; every variable has its type.
UsageReconstructs ==
    /\ TypeOK
    /\ usage.dispatches = Len(attempts)
    /\ usage.settled = Charged
    /\ usage.reserved = Reserve * Cardinality(
         InState({"reserved", "dispatching", "succeeded", "unknown", "disputed"}))
    /\ usage.released = Reserve * Cardinality(InState({"failed", "cancelled", "settled"}))
                        - Charged

\* The request of an attempt leaves once, whoever shares a session, crashes or
\* claims the slot again; a live call has one attempt for good; and a hermetic
\* call goes out a second time only on an administrator's decision, which is
\* used up by it.  What the ledger calls cancelled, and gives the reservation
\* back for, was never sent.
SentAsDecided ==
    /\ \A a \in InState({"cancelled"}) : sent[a] = 0
    /\ \A a \in DOMAIN attempts : sent[a] <= 1
    /\ \A c \in Calls :
         Cardinality({a \in OfCall(c) : sent[a] > 0})
           <= IF retries[c] > 0 /\ c \notin LiveCalls THEN 2 ELSE 1

\* A permit that tells its outcome tells the ledger's.  What a permit calls
\* disputed the ledger may still call in flight or succeeded, where a record or
\* its attestation was refused; it is never settled, nor is it called off as not
\* sent, by whoever comes later.
PermitTellsLedger ==
    \A c \in LiveCalls :
      LET p == permits[c] IN
      p.state \in PermitOutcomes =>
        attempts[p.attempt].state \in
          CASE p.state = "settled" -> {"settled"}
            [] p.state = "failed" -> {"failed", "cancelled"}
            [] p.state = "unknown" -> {"unknown"}
            [] OTHER -> {"disputed", "failed", "dispatching", "succeeded"}

\* A recorded success is never made an unknown or failed call again by a late
\* answer of another worker.
SuccessIsKept ==
    [][\A a \in InState({"succeeded", "settled", "disputed"}) :
         attempts'[a].state \in {"succeeded", "settled", "disputed"}]_vars
=============================================================================
