-------------------------- MODULE AgentPortability --------------------------
(***************************************************************************)
(* One run on the hosts and backends of MaxPortabilityService: their       *)
(* profiles and installations, the run's bindings, the handoffs with their *)
(* snapshots, packets and acknowledgements, and the normalized results     *)
(* that are attributed to the runner's calls.  BackendHandoff has the      *)
(* clocks and leases of a handoff; here every operation is one             *)
(* transaction, and a handoff's expiry is left out.  A state of the run    *)
(* and its checkpoint are a version, digests are what they are taken of.   *)
(***************************************************************************)
EXTENDS Integers, Sequences, FiniteSets

CONSTANTS
    Hosts,
    Backends,
    Models,
    ModelOf,        \* the model identity of a backend's profile
    Payloads,       \* normalized results
    Registered,     \* the profiles there are at the beginning
    Names,          \* invocations as callers of a fixture store name them
    MaxVersion,
    MaxHandoffs

\* What the constants are assumed to be, where the module stands beside others.
PortabilityAssumption == MaxVersion \in Nat \ {0} /\ MaxHandoffs \in Nat

VARIABLES
    fixture,        \* whether the store has the fixture marker
    profile,        \* the latest profile status event, or none
    installed,      \* hosts with an attested installation of their profile
    run,            \* max_runs: status, and version of state and checkpoint
    made,           \* max_runner_call_bindings and their intents
    bindings,       \* max_run_execution_bindings; the last one is current
    handoffs,       \* approvals by generation; the last one is current
    snapshots,      \* max_portability_quiescence_snapshots
    packets,        \* max_rehydration_packets
    acks,           \* max_rehydration_packet_target_acks
    invocations,    \* max_portability_invocation_bindings
    results         \* max_normalized_agent_results_v2

profileVars == <<fixture, profile, installed>>
portableVars == <<run, made>>
handoffVars == <<bindings, handoffs, snapshots, packets, acks>>
resultVars == <<invocations, results>>
portabilityVars == <<profileVars, portableVars, handoffVars, resultVars>>

Profiles == Hosts \cup Backends
Statuses == {"active", "disabled", "revoked"}

PortabilityTypeOK ==
    /\ fixture \in BOOLEAN
    /\ profile \in [Profiles -> Statuses \cup {"none"}]
    /\ installed \subseteq Hosts
    /\ run \in [status : {"RUNNING", "PAUSED"}, version : 1..MaxVersion]
    /\ made \in Seq([model : Models, input : 1..MaxVersion, binding : Nat])
    /\ bindings \in Seq([host : Hosts, backend : Backends])
    /\ handoffs \in Seq([old : Nat, host : Hosts, backend : Backends,
                         version : 1..MaxVersion, state : {"PENDING", "CONSUMED"}])
    /\ snapshots \subseteq [handoff : Nat, phase : {"preview", "approval_consume"},
                            version : 1..MaxVersion, binding : Nat]
    /\ packets \subseteq [handoff : Nat, binding : Nat, version : 1..MaxVersion]
    /\ acks \subseteq [handoff : Nat, host : Hosts]
    /\ \A r \in results : r.payload \in Payloads /\ r.binding \in DOMAIN bindings

PortabilityInit ==
    /\ fixture \in BOOLEAN
    /\ profile = [p \in Profiles |-> IF p \in Registered THEN "active" ELSE "none"]
    /\ installed = {}
    /\ run = [status |-> "RUNNING", version |-> 1] /\ made = <<>>
    /\ bindings = <<>> /\ handoffs = <<>>
    /\ snapshots = {} /\ packets = {} /\ acks = {}
    /\ invocations = {} /\ results = {}

(***************************************************************************)
(* Profiles                                                                *)
(***************************************************************************)

\* A profile that is registered again stays as it is.
RegisterProfile(p, s) ==
    /\ profile[p] = "none"
    /\ profile' = [profile EXCEPT ![p] = s]
    /\ UNCHANGED <<fixture, installed, portableVars, handoffVars, resultVars>>

\* An installation with other digests than the profile's counts for nothing.
RegisterInstallation(h) ==
    /\ profile[h] # "none"
    /\ installed' = installed \cup {h}
    /\ UNCHANGED <<fixture, profile, portableVars, handoffVars, resultVars>>

\* disable_profile, revoke_profile: there is no way back.
ChangeStatus(p, s) ==
    /\ profile[p] \notin {"none", "revoked"} /\ s # "active"
    /\ profile' = [profile EXCEPT ![p] = s]
    /\ UNCHANGED <<fixture, installed, portableVars, handoffVars, resultVars>>

Bindable(h, b) ==
    /\ profile[h] = "active" /\ profile[b] = "active"
    /\ fixture \/ h \in installed

(***************************************************************************)
(* The run                                                                 *)
(***************************************************************************)

\* An iteration with its model call, whose model is the runner profile's: the
\* runner asks neither the binding nor the status of a profile.
Iterate(m) ==
    /\ run.status = "RUNNING" /\ run.version < MaxVersion
    /\ made' = Append(made, [model |-> m, input |-> run.version, binding |-> Len(bindings)])
    /\ run' = [run EXCEPT !.version = @ + 1]
    /\ UNCHANGED <<profileVars, handoffVars, resultVars>>

PauseTheRun ==
    /\ run.status = "RUNNING"
    /\ run' = [run EXCEPT !.status = "PAUSED"]
    /\ UNCHANGED <<made, profileVars, handoffVars, resultVars>>

\* Mutant: a call that is settled is left out of the inventory.
PausedQuiet == run.status = "PAUSED"

\* The inventory counts every call on record as active, the settled ones too.
Quiescent == run.status = "PAUSED" /\ made = <<>>

CurrentHandoff == handoffs[Len(handoffs)]

ResumeTheRun ==
    /\ run.status = "PAUSED"
    /\ packets # {} => /\ CurrentHandoff.state = "CONSUMED"
                       /\ \E a \in acks : a.handoff = Len(handoffs)
    /\ run' = [run EXCEPT !.status = "RUNNING"]
    /\ UNCHANGED <<made, profileVars, handoffVars, resultVars>>

(***************************************************************************)
(* Bindings and handoffs                                                   *)
(***************************************************************************)
BindBackend(h, b) ==
    /\ bindings = <<>> /\ Bindable(h, b)
    /\ bindings' = <<[host |-> h, backend |-> b]>>
    /\ UNCHANGED <<handoffs, snapshots, packets, acks, profileVars, portableVars, resultVars>>

Snapshot(k, phase) ==
    {[handoff |-> k, phase |-> phase, version |-> run.version, binding |-> Len(bindings)]}

\* A handoff starts from profiles that are active still.
CurrentBindable ==
    /\ bindings # <<>>
    /\ Bindable(bindings[Len(bindings)].host, bindings[Len(bindings)].backend)

PreviewHandoff(h, b) ==
    /\ Quiescent /\ CurrentBindable /\ Bindable(h, b)
    /\ handoffs # <<>> => CurrentHandoff.state # "PENDING"
    /\ Len(handoffs) < MaxHandoffs
    /\ handoffs' = Append(handoffs, [old |-> Len(bindings), host |-> h, backend |-> b,
                                     version |-> run.version, state |-> "PENDING"])
    /\ snapshots' = snapshots \cup Snapshot(Len(handoffs) + 1, "preview")
    /\ UNCHANGED <<bindings, packets, acks, profileVars, portableVars, resultVars>>

NewPacket ==
    [handoff |-> Len(handoffs), binding |-> Len(bindings) + 1, version |-> run.version]

ApproveHandoff ==
    /\ handoffs # <<>> /\ CurrentHandoff.state = "PENDING"
    /\ run.version = CurrentHandoff.version /\ Quiescent
    /\ Len(bindings) = CurrentHandoff.old
    /\ CurrentBindable /\ Bindable(CurrentHandoff.host, CurrentHandoff.backend)
    /\ bindings' = Append(bindings, [host |-> CurrentHandoff.host,
                                     backend |-> CurrentHandoff.backend])
    /\ handoffs' = [handoffs EXCEPT ![Len(handoffs)].state = "CONSUMED"]
    /\ snapshots' = snapshots \cup Snapshot(Len(handoffs), "approval_consume")
    /\ packets' = packets \cup {NewPacket}
    /\ UNCHANGED <<acks, profileVars, portableVars, resultVars>>

\* A fixture's acknowledgement fills in the binding's host.  Any other names a
\* host that could be bound to the backend, which need not be the binding's.
Acknowledge(p, h) ==
    /\ ~\E a \in acks : a.handoff = p.handoff
    /\ IF fixture THEN h = bindings[p.binding].host
       ELSE /\ p.handoff = Len(handoffs) /\ CurrentHandoff.state = "CONSUMED"
            /\ Bindable(h, bindings[p.binding].backend)
    /\ acks' = acks \cup {[handoff |-> p.handoff, host |-> h]}
    /\ UNCHANGED <<bindings, handoffs, snapshots, packets, profileVars, portableVars, resultVars>>

(***************************************************************************)
(* Results                                                                 *)
(***************************************************************************)

\* What an identifier is the digest of.
StableId(value) == value

\* The server attributes a result to the first call of the run, whichever call
\* it comes from.
ServerDescriptor ==
    [binding |-> Len(bindings), call |-> 1, iteration |-> "named",
     input |-> made[1].input, version |-> run.version]

ServerInvocation ==
    [id |-> StableId(ServerDescriptor), kind |-> "server_runner", descriptor |-> ServerDescriptor]

\* A fixture's caller names the invocation and its iteration; one who names no
\* iteration records as much or less.
FixtureDescriptor(name) ==
    [binding |-> Len(bindings), name |-> name, iteration |-> "named",
     input |-> run.version, version |-> run.version]

FixtureInvocation(name) ==
    [id |-> StableId([kind |-> "fixture_compat", descriptor |-> FixtureDescriptor(name)]),
     kind |-> "fixture_compat", descriptor |-> FixtureDescriptor(name)]

Attributable(i) ==
    IF i.kind = "server_runner"
    THEN ModelOf[bindings[Len(bindings)].backend] = made[1].model
    ELSE \A j \in invocations :
           /\ j.descriptor.binding = i.descriptor.binding
           /\ j.descriptor.name = i.descriptor.name
           => j = i

\* The row of a fixture's invocation leaves its iteration out, so that a caller
\* who comes again is taken for one that named none.
IterationOf(i) ==
    IF i.kind = "fixture_compat" /\ i \in invocations
    THEN "legacy" ELSE i.descriptor.iteration

\* A result for an invocation and iteration that have one is the same or refused.
StoreResult(i, payload) ==
    /\ Attributable(i)
    /\ ~\E r \in results : r.invocation = i.id /\ r.iteration = IterationOf(i)
    /\ invocations' = invocations \cup {i}
    /\ results' = results \cup {[binding |-> Len(bindings), invocation |-> i.id,
                                 iteration |-> IterationOf(i),
                                 input |-> i.descriptor.input, payload |-> payload]}
    /\ UNCHANGED <<profileVars, portableVars, handoffVars>>

RecordNormalizedResult(payload) ==
    /\ bindings # <<>>
    /\ \/ ~fixture /\ made # <<>> /\ StoreResult(ServerInvocation, payload)
       \/ fixture /\ \E name \in Names : StoreResult(FixtureInvocation(name), payload)

PortabilityNext ==
    \/ \E p \in Profiles, s \in Statuses : RegisterProfile(p, s) \/ ChangeStatus(p, s)
    \/ \E h \in Hosts : RegisterInstallation(h)
    \/ \E m \in Models : Iterate(m)
    \/ PauseTheRun \/ ResumeTheRun \/ ApproveHandoff
    \/ \E h \in Hosts, b \in Backends : BindBackend(h, b) \/ PreviewHandoff(h, b)
    \/ \E p \in packets, h \in Hosts : Acknowledge(p, h)
    \/ \E payload \in Payloads : RecordNormalizedResult(payload)

PortabilitySpec == PortabilityInit /\ [][PortabilityNext]_portabilityVars

(***************************************************************************)
(* verify                                                                  *)
(***************************************************************************)
BindingsVerify ==
    \A k \in DOMAIN bindings : {profile[bindings[k].host], profile[bindings[k].backend]} \subseteq Statuses

HandoffsVerify ==
    \A k \in DOMAIN handoffs : handoffs[k].old \in DOMAIN bindings

SnapshotsVerify ==
    /\ \A s \in snapshots : /\ s.handoff \in DOMAIN handoffs /\ s.binding \in DOMAIN bindings
                            /\ s.version <= run.version
    /\ \A k \in DOMAIN handoffs :
         /\ \E s \in snapshots : s.handoff = k /\ s.phase = "preview"
         /\ handoffs[k].state = "CONSUMED" =>
              \E s \in snapshots : s.handoff = k /\ s.phase = "approval_consume"

\* The identifier has to be the digest of the whole row.
InvocationsVerify ==
    \A i \in invocations :
      /\ i.id = StableId([kind |-> i.kind, descriptor |-> i.descriptor])
      /\ i.kind = "fixture_compat" => fixture
      /\ i.kind = "server_runner" =>
           made[i.descriptor.call].model = ModelOf[bindings[i.descriptor.binding].backend]

\* Its iteration is IterationsVerify's.
ResultsVerify ==
    \A r \in results :
      /\ r.input <= run.version
      /\ \E i \in invocations : /\ i.id = r.invocation
                                /\ i.descriptor.binding = r.binding
                                /\ i.descriptor.input = r.input

InstallationsVerify == \A h \in installed : profile[h] \in Statuses

PacketsVerify ==
    \A p \in packets : /\ p.handoff \in DOMAIN handoffs /\ p.binding \in DOMAIN bindings
                       /\ handoffs[p.handoff].host = bindings[p.binding].host
                       /\ handoffs[p.handoff].backend = bindings[p.binding].backend

\* A fixture's acknowledgement names an installation there is none of; any
\* other has to be of the handoff that is current now.
AcksVerify ==
    \A a \in acks : /\ a.host \in installed /\ ~fixture
                    /\ a.handoff = Len(handoffs) /\ CurrentHandoff.state = "CONSUMED"

(***************************************************************************)
(* Properties                                                              *)
(***************************************************************************)

\* verify accepts what the service wrote, as far as profiles, handoffs with
\* their snapshots and packets, installations and results go.
PortabilityVerifies ==
    /\ BindingsVerify /\ HandoffsVerify /\ SnapshotsVerify
    /\ ResultsVerify /\ InstallationsVerify /\ PacketsVerify

\* A result is never attributed to a call that was made under another binding,
\* although it is always the first call that is looked up: it was made under
\* the result's binding, or before the run had one.
CallIsOfItsBackend ==
    \A r \in results : ~fixture =>
      made[r.invocation.call].binding \in {0, r.binding}

\* Both, with the types of every variable.
ResultIsOfItsBackend == PortabilityTypeOK /\ PortabilityVerifies /\ CallIsOfItsBackend

\* A run whose backend or host is no longer active keeps it: no handoff leads
\* away from it, although the runner goes on.
RevokedIsKept ==
    [][\A k \in {Len(bindings)} \cap DOMAIN bindings :
         "active" \notin {profile[bindings[k].host]} \cap {profile[bindings[k].backend]}
           => bindings' = bindings]_portabilityVars

\* A test of the portability service: verify finds nothing wrong after a result
\* was recorded.
RecordsVerify == InvocationsVerify /\ AcksVerify

\* verify asks that a result has the iteration that its invocation was first
\* recorded for, which a fixture's result recorded again has not.
IterationsVerify ==
    \A r \in results, i \in invocations :
      i.id = r.invocation => i.descriptor.iteration = r.iteration

\* The portability document: resumption requires the acknowledgement of the
\* handoff's target.
AcknowledgedByTarget ==
    \A a \in acks, p \in packets :
      a.handoff = p.handoff => a.host = bindings[p.binding].host
=============================================================================
