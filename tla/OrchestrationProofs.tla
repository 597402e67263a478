------------------------- MODULE OrchestrationProofs -------------------------
(***************************************************************************)
(* Proofs about what goes on around the runner's calls, for any backends,  *)
(* processes, sessions, contents, policies, lifetimes and bounds.          *)
(*                                                                         *)
(* BackendHandoff: the packets count the bindings, so that the one that    *)
(* resume asks for is the current binding's.                               *)
(*                                                                         *)
(* Acquisition: what a validator has found and not recorded yet is valid,  *)
(* however the directory has changed since.                                *)
(*                                                                         *)
(* Worker: a process that is past its look at the commands has overlooked  *)
(* none that is still pending.                                             *)
(*                                                                         *)
(* Scheduler: a tick that may still be recorded began where the pointer    *)
(* is, and so within the policy and after the last tick; any other one is  *)
(* behind the pointer, which never comes back to it.                       *)
(***************************************************************************)
EXTENDS Orchestration, FiniteSetTheorems, SequenceTheorems, TLAPS

(***************************************************************************)
(* BackendHandoff                                                          *)
(***************************************************************************)

\* What the module assumes of its constants; MCOrchestration assumes the same of
\* their values, which TLC evaluates there.
HandoffAssumptions == BackendsAssumption /\ HandoffBoundsAssumption

(***************************************************************************)
(* Types of BackendHandoff                                                 *)
(***************************************************************************)

\* Every variable keeps its type in every step.
LEMMA TypeStep ==
    ASSUME HandoffAssumptions, TypeOK, [Next]_vars
    PROVE  TypeOK'
<1> USE DEF HandoffAssumptions, HandoffBoundsAssumption, TypeOK, activityVars, handoffVars
<1>1. CASE Tick
  BY <1>1 DEF Tick
<1>2. CASE Start \/ StartPaused \/ Pause \/ Resume \/ Write \/ OpenCall \/ SettleCall
  <2>1. UNCHANGED <<clock, fixture, busyUntil, handoffVars, told>>
    BY <1>2 DEF Start, StartPaused, Pause, Resume, Write, OpenCall, SettleCall
  <2>2. status' \in {"APPROVED", "RUNNING", "PAUSED"}
    BY <1>2 DEF Start, StartPaused, Pause, Resume, Write, OpenCall, SettleCall
  <2>3. stateHash' \in Nat
    BY <1>2 DEF Start, StartPaused, Pause, Resume, Write, OpenCall, SettleCall
  <2>4. calls' \in {"none", "open", "settled"}
    BY <1>2 DEF Start, StartPaused, Pause, Resume, Write, OpenCall, SettleCall
  <2> QED BY ONLY TypeOK, <2>1, <2>2, <2>3, <2>4 DEF TypeOK, handoffVars
<1>3. CASE ClaimInvocation
  BY <1>3 DEF ClaimInvocation, ClaimExpiry, Now
<1>4. ASSUME NEW b \in Backends, BindBackend(b)
      PROVE  TypeOK'
  BY <1>4 DEF BindBackend
<1>5. ASSUME NEW b \in Backends, Preview(b)
      PROVE  TypeOK'
  <2> PICK now \in Now :
        handoff' = [generation |-> handoff.generation + 1, state |-> "PENDING",
                    target |-> b, old |-> binding.version, binding |-> binding.version,
                    hash |-> stateHash, expires |-> now + HandoffTtl, since |-> clock]
    BY <1>5 DEF Preview
  <2>1. now \in Nat
    BY DEF Now
  <2> QED BY <1>5, <2>1 DEF Preview
<1>6. CASE Approve
  <2> PICK now \in SinceKnown :
        packets' = packets \cup {[handoff |-> handoff.generation, binding |-> binding.version + 1,
                                  hash |-> stateHash, created |-> now]}
    BY <1>6 DEF Approve
  <2>1. now \in Nat
    BY DEF SinceKnown, Now
  <2>2. packets' \subseteq Packet
    BY <2>1 DEF Packet
  <2>3. handoff' = [handoff EXCEPT !.state = "CONSUMED", !.binding = binding.version + 1]
    BY <1>6 DEF Approve
  <2>4. handoff' \in [generation : Nat, state : {"NONE", "PENDING", "CONSUMED", "EXPIRED"},
                      target : Backends \cup {NoBackend}, old : Nat, binding : Nat,
                      hash : Nat, expires : Nat, since : Nat]
    <3> DEFINE Handoff == [generation : Nat,
                           state : {"NONE", "PENDING", "CONSUMED", "EXPIRED"},
                           target : Backends \cup {NoBackend}, old : Nat, binding : Nat,
                           hash : Nat, expires : Nat, since : Nat]
    <3>1. handoff \in Handoff /\ binding.version + 1 \in Nat
      BY DEF TypeOK
    <3>2. [handoff EXCEPT !.state = "CONSUMED", !.binding = binding.version + 1] \in Handoff
      BY ONLY <3>1
    <3> QED BY <2>3, <3>2
  <2>5. binding' = [version |-> binding.version + 1, backend |-> handoff.target]
    BY <1>6 DEF Approve
  <2>6. binding' \in [version : Nat, backend : Backends \cup {NoBackend}]
    BY <2>5
  <2>7. UNCHANGED <<clock, fixture, status, activityVars, acks, told>>
    BY <1>6 DEF Approve
  <2> QED BY ONLY TypeOK, <2>2, <2>4, <2>6, <2>7 DEF TypeOK, activityVars
<1>7. CASE ApproveExpired
  BY <1>7 DEF ApproveExpired
<1>8. ASSUME NEW p \in packets, Acknowledge(p)
      PROVE  TypeOK'
  BY <1>8 DEF Acknowledge, Packet
<1>9. CASE UNCHANGED vars
  BY <1>9 DEF vars
<1> QED BY <1>1, <1>2, <1>3, <1>4, <1>5, <1>6, <1>7, <1>8, <1>9
        DEF Next, RunStep, HandoffStep

(***************************************************************************)
(* Its invariant                                                           *)
(***************************************************************************)

\* The packets are those of the approved handoffs: each made a binding of its
\* own, none of which is later than the current one.
PacketsTell ==
    /\ IsFiniteSet(packets)
    /\ \A p \in packets : p.binding <= binding.version
    /\ \A p, q \in packets : p.binding = q.binding => p = q

\* A run that is not bound has no handoff.
UnboundIsFresh == binding.version = 0 => handoff.state = "NONE" /\ packets = {}

HandoffInv == TypeOK /\ HandoffProjectsBinding /\ PacketsTell /\ UnboundIsFresh

\* Most steps leave bindings, handoffs and packets alone.
LEMMA HandoffStays ==
    ASSUME HandoffInv, UNCHANGED <<binding, handoff, packets>>
    PROVE  HandoffProjectsBinding' /\ PacketsTell' /\ UnboundIsFresh'
  BY DEF HandoffInv, HandoffProjectsBinding, PacketsTell, UnboundIsFresh

\* An approval's packet is a new one, and so the packets count the bindings.
LEMMA ApproveStep ==
    ASSUME HandoffInv, Approve
    PROVE  HandoffProjectsBinding' /\ PacketsTell' /\ UnboundIsFresh'
<1> USE DEF HandoffInv
<1>1. PICK packet :
        /\ packet.handoff = handoff.generation /\ packet.binding = binding.version + 1
        /\ packets' = packets \cup {packet}
  BY DEF Approve
<1>2. /\ binding' = [version |-> binding.version + 1, backend |-> handoff.target]
      /\ handoff' = [handoff EXCEPT !.state = "CONSUMED", !.binding = binding.version + 1]
  BY DEF Approve
<1>3. binding.version \in Nat /\ binding.version # 0
  BY DEF Approve, UnboundIsFresh, TypeOK
<1>4. /\ handoff'.state = "CONSUMED" /\ handoff'.binding = binding'.version
      /\ handoff'.target = handoff.target /\ handoff'.generation = handoff.generation
      /\ binding'.version = binding.version + 1 /\ binding'.backend = handoff.target
  BY <1>2 DEF TypeOK
<1>5. \A p \in packets : p.binding \in Nat /\ p.binding <= binding.version
  BY DEF TypeOK, Packet, PacketsTell
<1>6. packet \notin packets
  BY <1>1, <1>3, <1>5
<1>7. Cardinality(packets') = Cardinality(packets) + 1 /\ IsFiniteSet(packets')
  BY <1>1, <1>6, FS_AddElement DEF PacketsTell
<1>8. HandoffProjectsBinding'
  <2>1. Cardinality(packets) \in Nat
    BY FS_CardinalityType DEF PacketsTell
  <2>2. binding'.version = Cardinality(packets') + 1
    BY <1>3, <1>4, <1>7, <2>1 DEF HandoffProjectsBinding
  <2>3. binding'.version # 0
    BY <1>3, <1>4
  <2> QED BY <1>1, <1>4, <2>2, <2>3 DEF HandoffProjectsBinding
<1>9. PacketsTell'
  <2>1. \A p \in packets' : p.binding <= binding'.version
    BY <1>1, <1>3, <1>4, <1>5
  <2>2. \A p, q \in packets' : p.binding = q.binding => p = q
    BY <1>1, <1>3, <1>5 DEF PacketsTell
  <2> QED BY <1>7, <2>1, <2>2 DEF PacketsTell
<1> QED BY <1>3, <1>4, <1>8, <1>9 DEF UnboundIsFresh

\* Every step keeps the invariant.
LEMMA HandoffInvStep ==
    ASSUME HandoffAssumptions, HandoffInv, [Next]_vars
    PROVE  HandoffInv'
<1> USE DEF HandoffInv
<1> DEFINE Projected == HandoffProjectsBinding' /\ PacketsTell' /\ UnboundIsFresh'
<1>0. TypeOK'
  BY TypeStep
<1>1. CASE Tick \/ RunStep
  <2>1. UNCHANGED <<binding, handoff, packets>>
    BY <1>1 DEF Tick, RunStep, Start, StartPaused, Pause, Resume, Write, ClaimInvocation,
                OpenCall, SettleCall, handoffVars
  <2> QED BY <1>0, <2>1, HandoffStays
<1>2. ASSUME NEW b \in Backends, BindBackend(b)
      PROVE  Projected
  <2>1. /\ binding.version = 0 /\ binding' = [version |-> 1, backend |-> b]
        /\ UNCHANGED <<handoff, packets>>
    BY <1>2 DEF BindBackend
  <2>2. handoff.state = "NONE" /\ packets = {} /\ Cardinality(packets) = 0
    BY <2>1, FS_EmptySet DEF UnboundIsFresh
  <2> QED BY <2>1, <2>2 DEF HandoffProjectsBinding, PacketsTell, UnboundIsFresh
<1>3. ASSUME NEW b \in Backends, Preview(b)
      PROVE  Projected
  <2>1. /\ binding.version # 0 /\ UNCHANGED <<binding, packets>>
        /\ handoff'.state = "PENDING" /\ handoff'.binding = binding.version
    BY <1>3 DEF Preview
  <2> QED BY <2>1 DEF HandoffProjectsBinding, PacketsTell, UnboundIsFresh
<1>4. CASE Approve
  BY <1>0, <1>4, ApproveStep
<1>5. CASE ApproveExpired
  BY <1>0, <1>5, HandoffStays DEF ApproveExpired, handoffVars
<1>6. ASSUME NEW p \in packets, Acknowledge(p)
      PROVE  Projected
  BY <1>6, HandoffStays DEF Acknowledge
<1>7. CASE UNCHANGED vars
  BY <1>0, <1>7, HandoffStays DEF vars, handoffVars
<1> QED BY <1>0, <1>1, <1>2, <1>3, <1>4, <1>5, <1>6, <1>7 DEF Next, HandoffStep

LEMMA HandoffInvHolds ==
    ASSUME HandoffAssumptions
    PROVE  Spec => []HandoffInv
<1>1. Init => HandoffInv
  <2> SUFFICES ASSUME Init PROVE HandoffInv
    OBVIOUS
  <2>1. TypeOK
    BY DEF Init, TypeOK, HandoffAssumptions, HandoffBoundsAssumption, Packet
  <2>2. IsFiniteSet(packets) /\ Cardinality(packets) = 0
    BY FS_EmptySet DEF Init
  <2> QED BY <2>1, <2>2 DEF Init, HandoffInv, HandoffProjectsBinding, PacketsTell,
                            UnboundIsFresh
<1>2. HandoffInv /\ [Next]_vars => HandoffInv'
  BY HandoffInvStep
<1> QED BY <1>1, <1>2, PTL DEF Spec

(***************************************************************************)
(* Its theorem                                                             *)
(***************************************************************************)

\* Only an approval takes a bound run to another backend, and it finds the run
\* as quiet as the preview did.
LEMMA RebindStep ==
    ASSUME TypeOK, Next
    PROVE  QuiescentRebind
<1> USE DEF QuiescentRebind
<1>1. CASE Tick \/ RunStep \/ ApproveExpired \/ \E p \in packets : Acknowledge(p)
  BY <1>1 DEF Tick, RunStep, Start, StartPaused, Pause, Resume, Write, ClaimInvocation,
              OpenCall, SettleCall, ApproveExpired, Acknowledge, handoffVars
<1>2. CASE \E b \in Backends : BindBackend(b) \/ Preview(b)
  BY <1>2 DEF BindBackend, Preview
<1>3. CASE Approve
  <2> PICK now \in SinceKnown : Quiescent(now)
    BY <1>3 DEF Approve
  <2>1. now <= clock /\ now \in Nat /\ busyUntil \in Nat /\ clock \in Nat
    BY DEF SinceKnown, Now, TypeOK
  <2> QED BY <1>3, <2>1 DEF Approve, Quiescent
<1> QED BY <1>1, <1>2, <1>3 DEF Next, HandoffStep

\* The packet that resume asks for is the current binding's only one.
LEMMA ResumeStep ==
    ASSUME HandoffInv
    PROVE  AcknowledgedResume
  BY DEF AcknowledgedResume, Resume, MayResume, Latest, BindingAcknowledged, HandoffInv,
         PacketsTell

\* The projections of a handoff agree, a bound run changes backends only while
\* it is paused and quiet at the state that was approved, and resume waits for
\* the acknowledgement of that very takeover; for any number of handoffs.
THEOREM HandoffsAreOrderly ==
    ASSUME HandoffAssumptions
    PROVE  Spec => HandoffIsOrderly
<1>1. HandoffInv /\ [Next]_vars =>
        [TypeOK' /\ HandoffProjectsBinding' /\ QuiescentRebind /\ AcknowledgedResume]_vars
  BY HandoffInvStep, RebindStep, ResumeStep DEF HandoffInv
<1> QED BY <1>1, HandoffInvHolds, PTL DEF Spec, HandoffIsOrderly

(***************************************************************************)
(* Acquisition                                                             *)
(***************************************************************************)

\* What a validator has found and not recorded is valid.
FindingsAreValid == \A v \in Validators : found[v] # 0 => Valid(found[v])

RequestInv == AcquisitionVerified /\ FindingsAreValid

LEMMA RequestBegins == AcquisitionInit => RequestInv
  BY AcquisitionAssumption
  DEF AcquisitionInit, RequestInv, AcquisitionVerified, AcquisitionTypeOK, FindingsAreValid,
      RequestStates, Granted, Unclaimed, Fresh, Valid, Staged, Claimed

\* The types of the parts of a request.
LEMMA RequestTyped ==
    ASSUME AcquisitionTypeOK, AcquisitionNext
    PROVE  AcquisitionTypeOK'
<1> USE AcquisitionAssumption DEF AcquisitionTypeOK, RequestStates, authority, receipts
<1>1. CASE AcquisitionTick
  BY <1>1 DEF AcquisitionTick
<1>2. ASSUME NEW decision \in DOMAIN Target, NEW contents \in Contents,
             Decide(decision, contents)
      PROVE  AcquisitionTypeOK'
  BY <1>2 DEF Decide, Target
<1>3. ASSUME NEW w \in Workers, AuthorizeWorker(w)
      PROVE  AcquisitionTypeOK'
  BY <1>3 DEF AuthorizeWorker
<1>4. ASSUME NEW w \in Workers, ClaimRequest(w)
      PROVE  AcquisitionTypeOK'
  BY <1>4 DEF ClaimRequest
<1>5. ASSUME NEW contents \in Contents, Fill(contents)
      PROVE  AcquisitionTypeOK'
  BY <1>5 DEF Fill
<1>6. ASSUME NEW v \in Validators, Validate(v)
      PROVE  AcquisitionTypeOK'
  BY <1>6 DEF Validate
<1>7. ASSUME NEW v \in Validators, Record(v)
      PROVE  AcquisitionTypeOK'
  BY <1>7 DEF Record
<1> QED BY <1>1, <1>2, <1>3, <1>4, <1>5, <1>6, <1>7 DEF AcquisitionNext

\* No step leaves a request with other records than its state implies.
LEMMA RequestStep ==
    ASSUME RequestInv, AcquisitionNext
    PROVE  RequestInv'
<1> USE AcquisitionAssumption
    DEF RequestInv, AcquisitionVerified, FindingsAreValid, Granted, Unclaimed, Claimed,
        Staged, Fresh, Valid, authority, receipts
<1>0. AcquisitionTypeOK'
  BY RequestTyped
<1>1. CASE AcquisitionTick
  BY <1>0, <1>1 DEF AcquisitionTick
<1>2. ASSUME NEW decision \in DOMAIN Target, NEW contents \in Contents,
             Decide(decision, contents)
      PROVE  RequestInv'
  BY <1>0, <1>2 DEF Decide, Target, From
<1>3. ASSUME NEW w \in Workers, AuthorizeWorker(w)
      PROVE  RequestInv'
  BY <1>0, <1>3 DEF AuthorizeWorker
<1>4. ASSUME NEW w \in Workers, ClaimRequest(w)
      PROVE  RequestInv'
  BY <1>0, <1>4 DEF ClaimRequest
<1>5. ASSUME NEW contents \in Contents, Fill(contents)
      PROVE  RequestInv'
  BY <1>0, <1>5 DEF Fill
<1>6. ASSUME NEW v \in Validators, Validate(v)
      PROVE  RequestInv'
  BY <1>0, <1>6 DEF Validate, AcquisitionTypeOK
<1>7. ASSUME NEW v \in Validators, Record(v)
      PROVE  RequestInv'
  BY <1>0, <1>7 DEF Record, AcquisitionTypeOK
<1> QED BY <1>1, <1>2, <1>3, <1>4, <1>5, <1>6, <1>7 DEF AcquisitionNext

\* A request has exactly the records its state implies, under one worker, and nothing is
\* staged or accepted but what was validated, whatever happened to the directory between
\* the validation and its record; for any workers, validators and contents.
THEOREM RequestsAreVerified == AcquisitionSpec => []AcquisitionVerified
<1>1. RequestInv /\ UNCHANGED acquisitionVars => RequestInv'
  BY DEF RequestInv, AcquisitionVerified, AcquisitionTypeOK, FindingsAreValid, Granted,
         Unclaimed, Claimed, Staged, Fresh, Valid, acquisitionVars
<1>2. RequestInv /\ [AcquisitionNext]_acquisitionVars => RequestInv'
  BY <1>1, RequestStep
<1>3. RequestInv => AcquisitionVerified
  BY DEF RequestInv
<1> QED BY <1>2, <1>3, RequestBegins, PTL DEF AcquisitionSpec

(***************************************************************************)
(* Worker                                                                  *)
(***************************************************************************)

\* Past its look at the commands, a process has rounds left, and the command it overlooked
\* in the round before is no longer pending.
Ahead == {"renewing", "beating", "stepping"}

WorkerHolds(w) ==
    /\ w.at # "idle" => w.me \in WorkerSessions /\ w.token # 0
    /\ w.at = "consuming" => w.command \in DOMAIN commands
    /\ w.at \in Ahead => w.left # 0
    /\ w.at \in Ahead /\ w.over # 0 => commands[w.over].by # Nobody
    /\ w.over \in DOMAIN commands \cup {0}
    /\ w.late < 2

WorkersHold == \A p \in WorkerProcs : WorkerHolds(worker[p])

CommandsBounded == Len(commands) <= MaxCommands

WorkerInv == WorkerTypeOK /\ CommandsBounded /\ WorkersHold

\* Nothing that happened to a command is taken back.
CommandsKept ==
    \A i \in DOMAIN commands :
      /\ i \in DOMAIN commands'
      /\ commands[i].by # Nobody => commands'[i].by # Nobody

LEMMA WorkerBegins == WorkerInit => WorkerInv
<1> SUFFICES ASSUME WorkerInit PROVE WorkerInv
  OBVIOUS
<1> USE WorkerAssumption DEF WorkerInit
<1>1. WorkerTypeOK
  BY DEF WorkerTypeOK, NotRunning, WorkerRow, WorkerPlaces, Pending
<1>2. CommandsBounded /\ WorkersHold
  BY DEF CommandsBounded, WorkersHold, WorkerHolds, NotRunning, Ahead
<1> QED BY <1>1, <1>2 DEF WorkerInv

\* A step of one process to a row that is typed and holds keeps all of them.
LEMMA WorkerMoves ==
    ASSUME WorkerInv, NEW p \in WorkerProcs, NEW w \in WorkerRow,
           worker' = [worker EXCEPT ![p] = w], CommandsKept, WorkerHolds(w)'
    PROVE  WorkersHold' /\ worker' \in [WorkerProcs -> WorkerRow]
<1>1. worker' \in [WorkerProcs -> WorkerRow]
  BY DEF WorkerInv, WorkerTypeOK
<1>2. ASSUME NEW q \in WorkerProcs PROVE WorkerHolds(worker[q])'
  <2>1. CASE q = p
    BY <2>1 DEF WorkerInv, WorkerTypeOK
  <2>2. CASE q # p
    <3>1. worker'[q] = worker[q] /\ worker[q] \in WorkerRow
      BY <2>2 DEF WorkerInv, WorkerTypeOK
    <3>2. WorkerHolds(worker[q])
      BY DEF WorkerInv, WorkersHold
    <3> QED BY <3>1, <3>2 DEF WorkerHolds, CommandsKept, WorkerRow
  <2> QED BY <2>1, <2>2
<1> QED BY <1>1, <1>2 DEF WorkersHold

\* A process that ends or never ran holds.
LEMMA EndedHolds ==
    ASSUME WorkerInv
    PROVE  NotRunning \in WorkerRow /\ WorkerHolds(NotRunning)'
  BY WorkerAssumption DEF NotRunning, WorkerRow, WorkerPlaces, WorkerHolds, Ahead

\* The types of everything but the processes.
ControlTyped ==
    /\ workerClock \in 1..WorkerMaxTime
    /\ workerRun \in [status : {"RUNNING", "PAUSED"}, version : 1..MaxVersion]
    /\ workerLease \in [owner : WorkerSessions, token : 1..WorkerMaxToken, expires : Nat]
    /\ commands \in Seq(CommandRow)
    /\ \A i, j \in Pending : i = j
    /\ beat \in [owner : WorkerSessions \cup {NoActor}, token : 0..WorkerMaxToken, count : Nat]
    /\ CommandsBounded

\* Steps that leave the commands keep the types if what they change keeps its own.
LEMMA ControlStays ==
    ASSUME ControlTyped, commands' = commands, workerClock' \in 1..WorkerMaxTime,
           workerRun' \in [status : {"RUNNING", "PAUSED"}, version : 1..MaxVersion],
           workerLease' \in [owner : WorkerSessions, token : 1..WorkerMaxToken, expires : Nat],
           beat' = beat
    PROVE  ControlTyped'
  BY DEF ControlTyped, CommandsBounded, Pending

\* A lease of the worker's, under the token there is or a later one.
LEMMA WorkerLeaseIsOne ==
    ASSUME ControlTyped, NEW owner \in WorkerSessions, NEW token \in 1..WorkerMaxToken
    PROVE  [owner |-> owner, token |-> token, expires |-> workerClock + WorkerLeaseTtl]
           \in [owner : WorkerSessions, token : 1..WorkerMaxToken, expires : Nat]
<1>1. workerClock + WorkerLeaseTtl \in Nat
  BY WorkerAssumption DEF ControlTyped
<1> QED BY <1>1

\* A renewed lease is one.
LEMMA RenewedIsOne ==
    ASSUME ControlTyped, Renewed
    PROVE  workerLease' \in [owner : WorkerSessions, token : 1..WorkerMaxToken, expires : Nat]
<1>1. workerClock + WorkerLeaseTtl \in Nat
  BY WorkerAssumption DEF ControlTyped
<1>2. workerLease \in [owner : WorkerSessions, token : 1..WorkerMaxToken, expires : Nat]
  BY DEF ControlTyped
<1> QED BY <1>1, <1>2 DEF Renewed

LEMMA WorkerActs ==
    ASSUME WorkerInv, NEW p \in WorkerProcs, NEW w \in WorkerRow,
           worker' = [worker EXCEPT ![p] = w], CommandsKept, WorkerHolds(w)', ControlTyped'
    PROVE  WorkerInv'
  BY WorkerMoves DEF WorkerInv, WorkerTypeOK, ControlTyped

LEMMA WorkerIsTyped ==
    ASSUME WorkerInv
    PROVE  ControlTyped /\ \A p \in WorkerProcs : worker[p] \in WorkerRow /\ WorkerHolds(worker[p])
  BY DEF WorkerInv, WorkerTypeOK, ControlTyped, WorkersHold

LEMMA CommandsStay ==
    ASSUME commands' = commands
    PROVE  CommandsKept
  BY DEF CommandsKept

LEMMA WorkerEnds ==
    ASSUME WorkerInv, NEW p \in WorkerProcs, Exits(p), CommandsKept, ControlTyped'
    PROVE  WorkerInv'
  BY WorkerActs, EndedHolds DEF Exits

\* A process that goes on: to a place that is not past the look at the commands, or from
\* one that is to another.
LEMMA WorkerGoes ==
    ASSUME WorkerInv, NEW p \in WorkerProcs, NEW place \in WorkerPlaces, Moves(p, place),
           CommandsKept, ControlTyped', worker[p].at # "idle", place # "consuming",
           place \in Ahead => worker[p].at \in Ahead
    PROVE  WorkerInv'
<1>1. PICK w \in WorkerRow : w = [worker[p] EXCEPT !.at = place]
  BY WorkerIsTyped DEF WorkerRow
<1>2. worker' = [worker EXCEPT ![p] = w]
  BY <1>1 DEF Moves
<1>3. WorkerHolds(worker[p]) /\ worker[p] \in WorkerRow
  BY WorkerIsTyped
<1>4. WorkerHolds(w)'
  BY <1>1, <1>3 DEF WorkerHolds, CommandsKept, WorkerRow
<1> QED BY <1>1, <1>2, <1>4, WorkerActs

LEMMA WorkersStay ==
    ASSUME WorkerInv, worker' = worker, CommandsKept, ControlTyped'
    PROVE  WorkerInv'
<1>1. ASSUME NEW p \in WorkerProcs PROVE WorkerHolds(worker[p])'
  <2>1. WorkerHolds(worker[p]) /\ worker[p] \in WorkerRow
    BY WorkerIsTyped
  <2> QED BY <2>1 DEF WorkerHolds, CommandsKept, WorkerRow
<1> QED BY <1>1 DEF WorkerInv, WorkerTypeOK, ControlTyped, WorkersHold

LEMMA AdminStep ==
    ASSUME WorkerInv,
           \/ WorkerTick
           \/ \E kind \in Commands : IssueCommand(kind)
           \/ \E s \in WorkerSessions : HandOn(s)
    PROVE  WorkerInv'
<1> USE WorkerAssumption
<1>0. ControlTyped
  BY WorkerIsTyped
<1>1. CASE WorkerTick
  <2>1. ControlTyped'
    BY <1>0, <1>1 DEF WorkerTick, ControlTyped, CommandsBounded, Pending
  <2> QED BY <1>1, <2>1, CommandsStay, WorkersStay DEF WorkerTick
<1>2. ASSUME NEW kind \in Commands, IssueCommand(kind)
      PROVE  WorkerInv'
  <2>1. PICK row \in CommandRow : row = [kind |-> kind, version |-> workerRun.version,
                                          by |-> Nobody]
    BY <1>0 DEF ControlTyped, CommandRow
  <2>2. commands' = Append(commands, row) /\ Len(commands) < MaxCommands
    BY <1>2, <2>1 DEF IssueCommand
  <2>3. /\ commands' \in Seq(CommandRow) /\ Len(commands') = Len(commands) + 1
        /\ \A i \in DOMAIN commands : i \in DOMAIN commands' /\ commands'[i] = commands[i]
        /\ DOMAIN commands' = DOMAIN commands \cup {Len(commands) + 1}
    <3>1. commands \in Seq(CommandRow)
      BY <1>0 DEF ControlTyped
    <3>2. commands' \in Seq(CommandRow) /\ Len(commands') = Len(commands) + 1
      BY <2>2, <3>1
    <3>3. \A i \in DOMAIN commands : i \in DOMAIN commands' /\ commands'[i] = commands[i]
      BY <2>2, <3>1
    <3>4. DOMAIN commands' = DOMAIN commands \cup {Len(commands) + 1}
      BY <3>1, <3>2
    <3> QED BY <3>2, <3>3, <3>4
  <2>4. CommandsKept
    BY <2>3 DEF CommandsKept
  <2>5. \A i \in Pending' : i = Len(commands) + 1
    BY <1>2, <2>3 DEF IssueCommand, Pending
  <2>6. ControlTyped'
    BY <1>0, <1>2, <2>2, <2>3, <2>5 DEF IssueCommand, ControlTyped, CommandsBounded
  <2> QED BY <1>2, <2>4, <2>6, WorkersStay DEF IssueCommand
<1>3. ASSUME NEW s \in WorkerSessions, HandOn(s)
      PROVE  WorkerInv'
  <2>1. commands' = commands /\ worker' = worker
    BY <1>3 DEF HandOn
  <2>2. workerRun' \in [status : {"RUNNING", "PAUSED"}, version : 1..MaxVersion]
    BY <1>0, <1>3 DEF HandOn, ControlTyped
  <2>3. workerLease.token + 2 \in 1..WorkerMaxToken
    BY <1>0, <1>3 DEF HandOn, ControlTyped
  <2>4. workerLease' \in [owner : WorkerSessions, token : 1..WorkerMaxToken, expires : Nat]
    BY <1>0, <1>3, <2>3, WorkerLeaseIsOne DEF HandOn
  <2>5. workerClock' \in 1..WorkerMaxTime /\ beat' = beat
    BY <1>0, <1>3 DEF HandOn, ControlTyped
  <2>6. ControlTyped'
    BY <1>0, <2>1, <2>2, <2>4, <2>5, ControlStays
  <2> QED BY <2>1, <2>6, CommandsStay, WorkersStay
<1> QED BY <1>1, <1>2, <1>3

LEMMA ClaimStep ==
    ASSUME WorkerInv, NEW p \in WorkerProcs, NEW s \in WorkerSessions, ClaimLease(p, s)
    PROVE  WorkerInv'
<1> USE WorkerAssumption
<1>0. ControlTyped
  BY WorkerIsTyped
<1>1. PICK w \in WorkerRow :
        w = [NotRunning EXCEPT !.at = "starting", !.me = s, !.left = Rounds,
                               !.token = workerLease.token, !.count = beat.count]
  <2>1. /\ workerLease.token \in 0..WorkerMaxToken /\ beat.count \in Nat
        /\ Rounds \in 0..Rounds /\ 0 \in 0..MaxCommands
    BY <1>0 DEF ControlTyped
  <2>2. NotRunning \in WorkerRow
    BY EndedHolds
  <2> QED BY <2>1, <2>2 DEF WorkerRow, WorkerPlaces
<1>2. worker' = [worker EXCEPT ![p] = w]
  BY <1>1 DEF ClaimLease
<1>3. WorkerHolds(w)'
  BY <1>0, <1>1 DEF WorkerHolds, ControlTyped, NotRunning, Ahead
<1>4. ControlTyped'
  <2>1. workerLease' \in [owner : WorkerSessions, token : 1..WorkerMaxToken, expires : Nat]
    BY <1>0, RenewedIsOne DEF ClaimLease
  <2>2. UNCHANGED <<workerClock, workerRun, commands, beat>>
    BY DEF ClaimLease
  <2>3. workerClock \in 1..WorkerMaxTime
        /\ workerRun \in [status : {"RUNNING", "PAUSED"}, version : 1..MaxVersion]
    BY <1>0 DEF ControlTyped
  <2> QED BY <1>0, <2>1, <2>2, <2>3, ControlStays
<1>5. CommandsKept
  BY CommandsStay DEF ClaimLease
<1> QED BY <1>1, <1>2, <1>3, <1>4, <1>5, WorkerActs

LEMMA BeatStep ==
    ASSUME WorkerInv, NEW p \in WorkerProcs, NEW from \in WorkerPlaces \ {"idle"},
           NEW to \in WorkerPlaces \ {"consuming"}, to \in Ahead => from \in Ahead,
           Beat(p, from, to)
    PROVE  WorkerInv'
<1>0. ControlTyped /\ worker[p] \in WorkerRow /\ WorkerHolds(worker[p])
  BY WorkerIsTyped
<1>1. ControlTyped'
  <2>1. /\ workerClock' = workerClock /\ workerRun' = workerRun
        /\ workerLease' = workerLease /\ commands' = commands
    BY DEF Beat
  <2>2. beat' = beat \/ Beats(p)
    BY DEF Beat
  <2>3. worker[p].me \in WorkerSessions
    BY <1>0 DEF Beat, WorkerHolds
  <2>4. beat' \in [owner : WorkerSessions \cup {NoActor}, token : 0..WorkerMaxToken, count : Nat]
    BY <1>0, <2>2, <2>3 DEF ControlTyped, Beats, WorkerRow
  <2> QED BY <1>0, <2>1, <2>4 DEF ControlTyped, CommandsBounded, Pending
<1>2. CommandsKept
  BY CommandsStay DEF Beat
<1>3. CASE Moves(p, to)
  BY <1>1, <1>2, <1>3, WorkerGoes DEF Beat
<1>4. CASE Exits(p)
  BY <1>1, <1>2, <1>4, WorkerEnds
<1> QED BY <1>3, <1>4 DEF Beat

\* The look at the commands: who finds none has overlooked none that is pending still.
LEMMA CheckStep ==
    ASSUME WorkerInv, NEW p \in WorkerProcs, Check(p) \/ RunsOut(p)
    PROVE  WorkerInv'
<1> USE WorkerAssumption
<1>0. ControlTyped /\ worker[p] \in WorkerRow /\ WorkerHolds(worker[p])
  BY WorkerIsTyped
<1>1. /\ UNCHANGED <<workerClock, workerRun, workerLease, commands, beat>>
      /\ worker[p].at = "checking"
  BY DEF Check, RunsOut
<1>2. ControlTyped' /\ CommandsKept
  BY <1>0, <1>1, CommandsStay DEF ControlTyped, CommandsBounded, Pending
<1>3. CASE Moves(p, "ending")
  BY <1>1, <1>2, <1>3, WorkerGoes DEF WorkerPlaces, Ahead
<1>4. CASE worker[p].left # 0 /\ Seen = {} /\ Moves(p, "renewing")
  <2>1. PICK w \in WorkerRow : w = [worker[p] EXCEPT !.at = "renewing"]
    BY <1>0 DEF WorkerRow, WorkerPlaces
  <2>2. worker' = [worker EXCEPT ![p] = w]
    BY <1>4, <2>1 DEF Moves
  <2>3. w.over # 0 => commands[w.over].by # Nobody
    BY <1>0, <1>4, <2>1 DEF Seen, Pending, WorkerHolds, WorkerRow
  <2>4. WorkerHolds(w)'
    BY <1>0, <1>1, <1>4, <2>1, <2>3 DEF WorkerHolds, WorkerRow
  <2> QED BY <1>2, <2>1, <2>2, <2>4, WorkerActs
<1>5. ASSUME NEW i \in Seen,
             worker' = [worker EXCEPT ![p].at = "consuming", ![p].command = i]
      PROVE  WorkerInv'
  <2>1. i \in DOMAIN commands /\ i \in 0..MaxCommands
    BY <1>0 DEF Seen, Pending, ControlTyped, CommandsBounded
  <2>2. PICK w \in WorkerRow : w = [worker[p] EXCEPT !.at = "consuming", !.command = i]
    BY <1>0, <2>1 DEF WorkerRow, WorkerPlaces
  <2>3. worker' = [worker EXCEPT ![p] = w]
    BY <1>5, <2>2
  <2>4. WorkerHolds(w)'
    BY <1>0, <1>1, <2>1, <2>2 DEF WorkerHolds, WorkerRow, Ahead
  <2> QED BY <1>2, <2>2, <2>3, <2>4, WorkerActs
<1> QED BY <1>3, <1>4, <1>5 DEF Check, RunsOut

\* Consumption takes one command from the pending ones.
LEMMA ConsumeStep ==
    ASSUME WorkerInv, NEW p \in WorkerProcs, Consume(p)
    PROVE  WorkerInv'
<1>0. ControlTyped /\ worker[p] \in WorkerRow /\ WorkerHolds(worker[p])
  BY WorkerIsTyped
<1> DEFINE i == worker[p].command
           self == [owner |-> worker[p].me, token |-> worker[p].token]
<1>1. i \in DOMAIN commands /\ worker[p].at = "consuming"
  BY <1>0 DEF Consume, WorkerHolds
<1>2. self \in [owner : WorkerSessions, token : 1..WorkerMaxToken] /\ self # Nobody
  BY <1>0, <1>1 DEF WorkerHolds, WorkerRow, Nobody
<1>3. commands' = commands \/ commands' = [commands EXCEPT ![i].by = self]
  BY DEF Consume
<1>4. /\ commands' \in Seq(CommandRow) /\ Len(commands') = Len(commands)
      /\ DOMAIN commands' = DOMAIN commands
      /\ \A j \in DOMAIN commands : commands[j].by # Nobody => commands'[j].by # Nobody
  <2>1. CASE commands' = commands
    BY <1>0, <2>1 DEF ControlTyped
  <2>2. CASE commands' = [commands EXCEPT ![i].by = self]
    <3>1. commands \in Seq(CommandRow) /\ commands[i] \in CommandRow
      BY <1>0, <1>1 DEF ControlTyped
    <3>2. PICK row \in CommandRow : row = [commands[i] EXCEPT !.by = self]
      BY <1>2, <3>1 DEF CommandRow
    <3>3. row.by # Nobody
      BY <1>2, <3>1, <3>2 DEF CommandRow
    <3>4. commands' = [commands EXCEPT ![i] = row]
      BY <2>2, <3>2
    <3> HIDE DEF i, self
    <3> QED BY <1>1, <3>1, <3>3, <3>4
  <2> QED BY <1>3, <2>1, <2>2
<1>5. CommandsKept
  BY <1>4 DEF CommandsKept
<1>6. ControlTyped'
  <2>1. \A j \in Pending' : j \in Pending
    BY <1>4 DEF Pending
  <2>2. UNCHANGED <<workerClock, workerRun, workerLease, beat>>
    BY DEF Consume
  <2>3. \A j, k \in Pending' : j = k
    BY <1>0, <2>1 DEF ControlTyped
  <2> QED BY <1>0, <1>4, <2>2, <2>3 DEF ControlTyped, CommandsBounded
<1>7. CASE Exits(p)
  BY <1>5, <1>6, <1>7, WorkerEnds
<1>8. CASE Moves(p, "pausing") \/ Moves(p, "ending")
  BY <1>1, <1>5, <1>6, <1>8, WorkerGoes DEF WorkerPlaces, Ahead
<1>9. \/ Exits(p)
      \/ Moves(p, IF commands[i].kind = "pause" THEN "pausing" ELSE "ending")
  BY DEF Consume
<1> QED BY <1>7, <1>8, <1>9

LEMMA PauseStep ==
    ASSUME WorkerInv, NEW p \in WorkerProcs, PauseRun(p)
    PROVE  WorkerInv'
<1> USE WorkerAssumption
<1>0. ControlTyped
  BY WorkerIsTyped
<1>1. UNCHANGED <<workerClock, commands, beat>> /\ worker[p].at = "pausing"
  BY DEF PauseRun
<1>2. CASE Pauses /\ workerRun.version < MaxVersion /\ Moves(p, "paused")
  <2>1. ControlTyped'
    <3>1. /\ workerClock \in 1..WorkerMaxTime
          /\ workerRun \in [status : {"RUNNING", "PAUSED"}, version : 1..MaxVersion]
          /\ workerLease \in [owner : WorkerSessions, token : 1..WorkerMaxToken, expires : Nat]
      BY <1>0 DEF ControlTyped
    <3>2. workerRun' \in [status : {"RUNNING", "PAUSED"}, version : 1..MaxVersion]
      BY <1>2, <3>1 DEF Pauses
    <3>3. workerLease' \in [owner : WorkerSessions, token : 1..WorkerMaxToken, expires : Nat]
      BY <1>2, <3>1 DEF Pauses
    <3> QED BY <1>0, <1>1, <3>1, <3>2, <3>3, ControlStays
  <2> QED BY <1>1, <1>2, <2>1, CommandsStay, WorkerGoes DEF WorkerPlaces, Ahead
<1>3. CASE Exits(p) /\ UNCHANGED <<workerRun, workerLease>>
  <2>1. ControlTyped'
    BY <1>0, <1>1, <1>3 DEF ControlTyped, CommandsBounded, Pending
  <2> QED BY <1>1, <1>3, <2>1, CommandsStay, WorkerEnds
<1> QED BY <1>2, <1>3 DEF PauseRun

LEMMA RenewStep ==
    ASSUME WorkerInv, NEW p \in WorkerProcs, Renew(p)
    PROVE  WorkerInv'
<1> USE WorkerAssumption
<1>0. ControlTyped /\ worker[p] \in WorkerRow /\ WorkerHolds(worker[p])
  BY WorkerIsTyped
<1>1. UNCHANGED <<workerClock, workerRun, commands, beat>> /\ worker[p].at = "renewing"
  BY DEF Renew
<1>2. ControlTyped'
  <2>1. /\ workerClock \in 1..WorkerMaxTime
        /\ workerRun \in [status : {"RUNNING", "PAUSED"}, version : 1..MaxVersion]
        /\ workerLease \in [owner : WorkerSessions, token : 1..WorkerMaxToken, expires : Nat]
    BY <1>0 DEF ControlTyped
  <2>2. Renewed \/ workerLease' = workerLease
    BY DEF Renew
  <2>3. workerLease' \in [owner : WorkerSessions, token : 1..WorkerMaxToken, expires : Nat]
    BY <1>0, <2>1, <2>2, RenewedIsOne
  <2> QED BY <1>0, <1>1, <2>1, <2>3, ControlStays
<1>3. CASE worker' = [worker EXCEPT ![p].at = "beating", ![p].token = workerLease.token]
  <2>1. workerLease.token \in 0..WorkerMaxToken /\ workerLease.token # 0
    BY <1>0 DEF ControlTyped
  <2>2. PICK w \in WorkerRow :
          w = [worker[p] EXCEPT !.at = "beating", !.token = workerLease.token]
    BY <1>0, <2>1 DEF WorkerRow, WorkerPlaces
  <2>3. worker' = [worker EXCEPT ![p] = w]
    BY <1>3, <2>2
  <2>4. WorkerHolds(w)'
    BY <1>0, <1>1, <2>1, <2>2 DEF WorkerHolds, WorkerRow, Ahead
  <2> QED BY <1>1, <1>2, <2>2, <2>3, <2>4, CommandsStay, WorkerActs
<1>4. CASE Exits(p)
  BY <1>1, <1>2, <1>4, CommandsStay, WorkerEnds
<1> QED BY <1>3, <1>4 DEF Renew

\* The step overlooks a command that came after the look, and so not the one before.
LEMMA TakeStepStep ==
    ASSUME WorkerInv, NEW p \in WorkerProcs, NEW result \in {"done", "paused", "failed"},
           TakeStep(p, result)
    PROVE  WorkerInv'
<1> USE WorkerAssumption
<1> DEFINE over == Overlooked
           late == Lateness(p)
           place == IF result = "done" THEN "checking" ELSE "ending"
           count == worker[p].count + (IF result = "failed" THEN 0 ELSE 1)
<1>0. ControlTyped /\ worker[p] \in WorkerRow /\ WorkerHolds(worker[p])
  BY WorkerIsTyped
<1>1. UNCHANGED <<workerClock, commands, beat>> /\ worker[p].at = "stepping"
  BY DEF TakeStep
<1>2. CommandsKept
  BY <1>1, CommandsStay
<1>3. ControlTyped'
  BY <1>0, <1>1 DEF TakeStep, Pauses, ControlTyped, CommandsBounded, Pending
<1>4. over = 0 \/ over \in Pending
  BY DEF Overlooked
<1>5. over \in DOMAIN commands \cup {0} /\ over \in 0..MaxCommands
  BY <1>0, <1>4 DEF Pending, ControlTyped, CommandsBounded
<1>6. over # 0 => over # worker[p].over
  BY <1>0, <1>1, <1>4 DEF Pending, WorkerHolds, Ahead
<1>7. late \in 0..2 /\ late < 2
  BY <1>6 DEF Lateness
<1>8. worker[p].left - 1 \in 0..Rounds /\ count \in Nat /\ place \in {"checking", "ending"}
  BY <1>0, <1>1 DEF WorkerHolds, WorkerRow, Ahead
<1>9. worker' = [worker EXCEPT ![p] =
                   [worker[p] EXCEPT !.at = place, !.count = count, !.left = worker[p].left - 1,
                                     !.over = over, !.late = late]]
  BY DEF TakeStep
<1> HIDE DEF over, late, place, count
<1>10. PICK w \in WorkerRow :
         w = [worker[p] EXCEPT !.at = place, !.count = count, !.left = worker[p].left - 1,
                               !.over = over, !.late = late]
  <2>1. place \in WorkerPlaces
    BY <1>8 DEF WorkerPlaces
  <2> QED BY <1>0, <1>5, <1>7, <1>8, <2>1 DEF WorkerRow
<1>11. worker' = [worker EXCEPT ![p] = w]
  BY <1>9, <1>10
<1>12. /\ w.at \in {"checking", "ending"} /\ w.over = over /\ w.late = late
       /\ w.me = worker[p].me /\ w.token = worker[p].token
  BY <1>0, <1>8, <1>10 DEF WorkerRow
<1>13. WorkerHolds(w)'
  BY <1>0, <1>1, <1>5, <1>7, <1>12 DEF WorkerHolds, Ahead
<1> QED BY <1>2, <1>3, <1>11, <1>13, WorkerActs

LEMMA WorkerStep ==
    ASSUME WorkerInv, WorkerNext
    PROVE  WorkerInv'
<1>1. CASE \/ WorkerTick
           \/ \E kind \in Commands : IssueCommand(kind)
           \/ \E s \in WorkerSessions : HandOn(s)
  BY <1>1, AdminStep
<1>2. ASSUME NEW p \in WorkerProcs, NEW s \in WorkerSessions, ClaimLease(p, s)
      PROVE  WorkerInv'
  BY <1>2, ClaimStep
<1>3. ASSUME NEW p \in WorkerProcs,
             StartBeat(p) \/ PausedBeat(p) \/ FinalBeat(p) \/ RunningBeat(p)
      PROVE  WorkerInv'
  <2>1. CASE Beat(p, "starting", "checking")
    BY <2>1, BeatStep DEF WorkerPlaces, Ahead
  <2>2. CASE Beat(p, "paused", "idle")
    BY <2>2, BeatStep DEF WorkerPlaces, Ahead
  <2>3. CASE Beat(p, "ending", "idle")
    BY <2>3, BeatStep DEF WorkerPlaces, Ahead
  <2>4. CASE Beat(p, "beating", "stepping")
    BY <2>4, BeatStep DEF WorkerPlaces, Ahead
  <2> QED BY <1>3, <2>1, <2>2, <2>3, <2>4 DEF StartBeat, PausedBeat, FinalBeat, RunningBeat
<1>4. ASSUME NEW p \in WorkerProcs, Check(p) \/ RunsOut(p)
      PROVE  WorkerInv'
  BY <1>4, CheckStep
<1>5. ASSUME NEW p \in WorkerProcs, Consume(p)
      PROVE  WorkerInv'
  BY <1>5, ConsumeStep
<1>6. ASSUME NEW p \in WorkerProcs, PauseRun(p)
      PROVE  WorkerInv'
  BY <1>6, PauseStep
<1>7. ASSUME NEW p \in WorkerProcs, Renew(p)
      PROVE  WorkerInv'
  BY <1>7, RenewStep
<1>8. ASSUME NEW p \in WorkerProcs, WorkerCrash(p)
      PROVE  WorkerInv'
  <2>1. ControlTyped
    BY WorkerIsTyped
  <2>2. UNCHANGED <<workerClock, workerRun, workerLease, commands, beat>> /\ Exits(p)
    BY <1>8 DEF WorkerCrash
  <2>3. ControlTyped'
    BY <2>1, <2>2 DEF ControlTyped, CommandsBounded, Pending
  <2> QED BY <2>2, <2>3, CommandsStay, WorkerEnds
<1>9. ASSUME NEW p \in WorkerProcs, NEW result \in {"done", "paused", "failed"},
             TakeStep(p, result)
      PROVE  WorkerInv'
  BY <1>9, TakeStepStep
<1> QED BY <1>1, <1>2, <1>3, <1>4, <1>5, <1>6, <1>7, <1>8, <1>9 DEF WorkerNext

LEMMA WorkerInvHolds == WorkerSpec => []WorkerInv
<1>1. WorkerInv /\ UNCHANGED workerVars => WorkerInv'
  <2> SUFFICES ASSUME WorkerInv, UNCHANGED workerVars PROVE WorkerInv'
    OBVIOUS
  <2>1. ControlTyped
    BY WorkerIsTyped
  <2>2. ControlTyped' /\ CommandsKept /\ worker' = worker
    BY <2>1, CommandsStay DEF ControlTyped, CommandsBounded, Pending, workerVars
  <2> QED BY <2>2, WorkersStay
<1>2. WorkerInv /\ [WorkerNext]_workerVars => WorkerInv'
  BY <1>1, WorkerStep
<1> QED BY <1>2, WorkerBegins, PTL DEF WorkerSpec

(***************************************************************************)
(* Scheduler                                                               *)
(***************************************************************************)

\* What WithinPolicy and TicksChain say of a sequence of ticks.
Windows(ts) ==
    /\ \A i \in 1..(Len(ts) - MaxFailures) :
         \E j \in i..(i + MaxFailures - 1) : ~ts[j].failed
    /\ \A i \in 1..(Len(ts) - MaxIdle) :
         \E j \in i..(i + MaxIdle - 1) : ts[j].in # ts[j].out

Chained(ts) ==
    \A i \in DOMAIN ts :
      /\ ts[i].in <= ts[i].out
      /\ i > 1 => ts[i - 1].out <= ts[i].in

\* The last ticks that failed, and those without progress, are as many as counted.
Trails(ts, fails, still) ==
    /\ fails \in 0..Len(ts) /\ (fails < Len(ts) => ~ts[Len(ts) - fails].failed)
    /\ still \in 0..Len(ts)
    /\ still < Len(ts) => ts[Len(ts) - still].in # ts[Len(ts) - still].out

LastOut(ts) == IF ts = <<>> THEN 0 ELSE ts[Len(ts)].out

\* A tick after fewer failures and fewer idle ticks than the policy allows.
LEMMA TickAppends ==
    ASSUME NEW ts \in Seq(TickRow), NEW t \in TickRow, NEW fails \in Nat, NEW still \in Nat,
           Windows(ts), Chained(ts), Trails(ts, fails, still),
           fails < MaxFailures, still < MaxIdle, LastOut(ts) <= t.in, t.in <= t.out
    PROVE  /\ Windows(Append(ts, t)) /\ Chained(Append(ts, t))
           /\ Trails(Append(ts, t), IF t.failed THEN fails + 1 ELSE 0,
                     IF t.in = t.out THEN still + 1 ELSE 0)
           /\ LastOut(Append(ts, t)) = t.out /\ Len(Append(ts, t)) = Len(ts) + 1
<1> DEFINE n == Len(ts)
           us == Append(ts, t)
<1>1. /\ n \in Nat /\ Len(us) = n + 1 /\ us[n + 1] = t /\ us # <<>>
      /\ \A i \in 1..n : us[i] = ts[i] /\ ts[i] \in TickRow
      /\ DOMAIN ts = 1..n /\ DOMAIN us = 1..(n + 1)
  OBVIOUS
<1>2. MaxFailures \in Nat /\ MaxIdle \in Nat
  BY SchedulerAssumption
<1>3. t.failed \in BOOLEAN /\ t.in \in Nat /\ t.out \in Nat
  BY DEF TickRow
<1> HIDE DEF n, us
<1>4. /\ fails \in 0..n /\ (fails < n => ~ts[n - fails].failed)
      /\ still \in 0..n /\ (still < n => ts[n - still].in # ts[n - still].out)
  BY DEF Trails, n
<1>5. ASSUME NEW i \in 1..(n + 1 - MaxFailures)
      PROVE  \E j \in i..(i + MaxFailures - 1) : ~us[j].failed
  <2>1. CASE i <= n - MaxFailures
    <3>1. PICK j \in i..(i + MaxFailures - 1) : ~ts[j].failed
      BY <1>1, <1>2, <2>1 DEF Windows, n
    <3>2. j \in 1..n
      BY <1>1, <1>2, <2>1
    <3> QED BY <1>1, <3>1, <3>2
  <2>2. CASE i = n + 1 - MaxFailures
    <3>1. n - fails \in i..(i + MaxFailures - 1) /\ n - fails \in 1..n /\ fails < n
      BY <1>1, <1>2, <1>4, <2>2
    <3> QED BY <1>1, <1>4, <3>1
  <2> QED BY <1>1, <1>2, <2>1, <2>2
<1>6. ASSUME NEW i \in 1..(n + 1 - MaxIdle)
      PROVE  \E j \in i..(i + MaxIdle - 1) : us[j].in # us[j].out
  <2>1. CASE i <= n - MaxIdle
    <3>1. PICK j \in i..(i + MaxIdle - 1) : ts[j].in # ts[j].out
      BY <1>1, <1>2, <2>1 DEF Windows, n
    <3>2. j \in 1..n
      BY <1>1, <1>2, <2>1
    <3> QED BY <1>1, <3>1, <3>2
  <2>2. CASE i = n + 1 - MaxIdle
    <3>1. n - still \in i..(i + MaxIdle - 1) /\ n - still \in 1..n /\ still < n
      BY <1>1, <1>2, <1>4, <2>2
    <3> QED BY <1>1, <1>4, <3>1
  <2> QED BY <1>1, <1>2, <2>1, <2>2
<1>7. Windows(us)
  <2>1. \A i \in 1..(Len(us) - MaxFailures) :
          \E j \in i..(i + MaxFailures - 1) : ~us[j].failed
    <3>1. Len(us) - MaxFailures = n + 1 - MaxFailures
      BY <1>1, <1>2
    <3> QED BY <1>5, <3>1
  <2>2. \A i \in 1..(Len(us) - MaxIdle) :
          \E j \in i..(i + MaxIdle - 1) : us[j].in # us[j].out
    <3>1. Len(us) - MaxIdle = n + 1 - MaxIdle
      BY <1>1, <1>2
    <3> QED BY <1>6, <3>1
  <2> QED BY <2>1, <2>2 DEF Windows
<1>8. Chained(us)
  <2> SUFFICES ASSUME NEW i \in 1..(n + 1)
               PROVE  us[i].in <= us[i].out /\ (i > 1 => us[i - 1].out <= us[i].in)
    BY <1>1 DEF Chained
  <2>1. CASE i \in 1..n
    <3>1. us[i] = ts[i] /\ (i > 1 => us[i - 1] = ts[i - 1])
      BY <1>1, <2>1
    <3> QED BY <1>1, <2>1, <3>1 DEF Chained
  <2>2. CASE i = n + 1
    <3>1. i > 1 => us[i - 1] = ts[n] /\ ts # <<>>
      BY <1>1, <2>2
    <3>2. i > 1 => us[i - 1].out <= t.in
      BY <3>1 DEF LastOut, n
    <3> QED BY <1>1, <2>2, <3>2
  <2> QED BY <1>1, <2>1, <2>2
<1>9. Trails(us, IF t.failed THEN fails + 1 ELSE 0, IF t.in = t.out THEN still + 1 ELSE 0)
  <2>1. ASSUME t.failed PROVE fails + 1 \in 0..(n + 1) /\ (fails + 1 < n + 1 =>
                                ~us[n + 1 - (fails + 1)].failed)
    <3>1. n + 1 - (fails + 1) = n - fails
      BY <1>1, <1>4
    <3> QED BY <1>1, <1>4, <3>1
  <2>2. ASSUME t.in = t.out
        PROVE  /\ still + 1 \in 0..(n + 1)
               /\ still + 1 < n + 1 =>
                    us[n + 1 - (still + 1)].in # us[n + 1 - (still + 1)].out
    <3>1. n + 1 - (still + 1) = n - still
      BY <1>1, <1>4
    <3> QED BY <1>1, <1>4, <3>1
  <2>3. n + 1 - 0 = n + 1 /\ 0 \in 0..(n + 1)
    BY <1>1
  <2>4. CASE t.failed /\ t.in = t.out
    BY <1>1, <2>1, <2>2, <2>4 DEF Trails
  <2>5. CASE t.failed /\ t.in # t.out
    BY <1>1, <2>1, <2>3, <2>5 DEF Trails
  <2>6. CASE ~t.failed /\ t.in = t.out
    BY <1>1, <2>2, <2>3, <2>6 DEF Trails
  <2>7. CASE ~t.failed /\ t.in # t.out
    BY <1>1, <2>3, <2>7 DEF Trails
  <2> QED BY <2>4, <2>5, <2>6, <2>7
<1>10. LastOut(us) = t.out
  BY <1>1 DEF LastOut
<1> QED BY <1>1, <1>7, <1>8, <1>9, <1>10 DEF n, us

(***************************************************************************)
(* The scheduler's invariant                                               *)
(***************************************************************************)
AtWork == {"working", "appending"}

\* The policy allows one more tick after what the pointer counts.
Unexhausted(at) ==
    /\ at.tick < MaxTicks /\ at.tick < MaxIterations
    /\ at.failures < MaxFailures /\ at.idle < MaxIdle

\* The part of it that ticks ask: how many ticks there may be is asked before each tick.
Open(at) == at.tick < MaxIterations /\ at.failures < MaxFailures /\ at.idle < MaxIdle

\* A tick under way is behind the pointer, or it may be recorded.
TickHolds(l) ==
    /\ l.prior <= schedulerRun.hash
    /\ l.tick <= pointer.tick
    /\ l.tick = pointer.tick => Unexhausted(pointer) /\ LastOut(ticks) <= l.prior

LoopHolds(l) ==
    /\ l.at # "idle" => l.me \in SchedulerSessions /\ l.left # 0
    /\ l.at = "stopping" => l.outcome \in Stops
    /\ l.at \in AtWork => TickHolds(l)

LoopsHold == \A p \in Schedulers : LoopHolds(loop[p])

DurableTyped ==
    /\ schedulerClock \in 1..SchedulerMaxTime
    /\ schedulerRun \in [status : {"RUNNING", "PAUSED"}, hash : 1..(MaxTicks + MaxLost + 1)]
    /\ schedulerLease \in [owner : SchedulerSessions \cup {Admin}, token : 1..MaxToken,
                           expires : Nat, released : BOOLEAN]
    /\ executionGrant \in SchedulerSessions \cup {None}
    /\ sessions \in Seq(SessionRow)
    /\ pointer \in PointerRow
    /\ ticks \in Seq(TickRow)
    /\ lost \in 0..MaxLost
    /\ Verified

DurableTells ==
    /\ pointer.tick = Len(ticks) /\ Len(ticks) <= MaxTicks /\ Len(ticks) <= MaxIterations
    /\ Windows(ticks) /\ Chained(ticks)
    /\ Trails(ticks, pointer.failures, pointer.idle)
    /\ LastOut(ticks) <= schedulerRun.hash
    /\ pointer.status = "active" => Open(pointer)

SchedulerInv ==
    DurableTyped /\ DurableTells /\ loop \in [Schedulers -> LoopRow] /\ LoopsHold

LEMMA SchedulerInvTells ==
    ASSUME SchedulerInv
    PROVE  WithinPolicy /\ TicksChain
  BY DEF SchedulerInv, DurableTyped, DurableTells, SchedulerTypeOK, WithinPolicy, TicksChain,
         Windows, Chained

LEMMA SchedulerBegins == SchedulerInit => SchedulerInv
<1> SUFFICES ASSUME SchedulerInit PROVE SchedulerInv
  OBVIOUS
<1> USE SchedulerAssumption DEF SchedulerInit
<1>1. DurableTyped
  BY DEF DurableTyped, PointerRow, Verified
<1>2. DurableTells
  <2>1. Windows(ticks) /\ Chained(ticks) /\ Trails(ticks, 0, 0) /\ LastOut(ticks) = 0
    BY DEF Windows, Chained, Trails, LastOut
  <2> QED BY <2>1 DEF DurableTells, Open
<1>3. Outside \in LoopRow /\ LoopHolds(Outside)
  BY DEF Outside, LoopRow, SchedulerPlaces, LoopHolds, AtWork
<1>4. loop \in [Schedulers -> LoopRow] /\ LoopsHold
  BY <1>3 DEF LoopsHold
<1> QED BY <1>1, <1>2, <1>4 DEF SchedulerInv

\* What other processes' ticks rest on: a step leaves the pointer's tick and what it
\* counts, or it moves to the next one.
Forward ==
    /\ schedulerRun.hash <= schedulerRun'.hash
    /\ \/ /\ pointer'.tick = pointer.tick /\ pointer'.failures = pointer.failures
          /\ pointer'.idle = pointer.idle /\ ticks' = ticks
       \/ pointer'.tick = pointer.tick + 1

LEMMA ForwardHolds ==
    ASSUME DurableTyped, DurableTyped', Forward, NEW l \in LoopRow, LoopHolds(l)
    PROVE  LoopHolds(l)'
<1>1. /\ l.tick \in Nat /\ l.prior \in Nat /\ pointer.tick \in Nat /\ pointer'.tick \in Nat
      /\ schedulerRun.hash \in Nat /\ schedulerRun'.hash \in Nat
  <2>1. l.tick \in Nat /\ l.prior \in Nat
    BY DEF LoopRow
  <2>2. pointer.tick \in Nat /\ pointer'.tick \in Nat
    BY DEF DurableTyped, PointerRow
  <2>3. schedulerRun.hash \in Nat /\ schedulerRun'.hash \in Nat
    BY DEF DurableTyped
  <2> QED BY <2>1, <2>2, <2>3
<1>2. TickHolds(l) => TickHolds(l)'
  BY <1>1 DEF Forward, TickHolds, Unexhausted
<1> QED BY <1>2 DEF LoopHolds

LEMMA LoopActs ==
    ASSUME SchedulerInv, NEW p \in Schedulers, NEW l \in LoopRow,
           loop' = [loop EXCEPT ![p] = l], Forward, DurableTyped', DurableTells', LoopHolds(l)'
    PROVE  SchedulerInv'
<1>1. loop' \in [Schedulers -> LoopRow]
  BY DEF SchedulerInv
<1>2. ASSUME NEW q \in Schedulers PROVE LoopHolds(loop[q])'
  <2>1. CASE q = p
    BY <2>1 DEF SchedulerInv
  <2>2. CASE q # p
    <3>1. PICK k \in LoopRow : k = loop[q] /\ k = loop'[q]
      BY <2>2 DEF SchedulerInv
    <3>2. LoopHolds(k)
      BY <3>1 DEF SchedulerInv, LoopsHold
    <3>3. LoopHolds(k)'
      BY <3>2, ForwardHolds DEF SchedulerInv
    <3> QED BY <3>1, <3>3 DEF LoopHolds, TickHolds
  <2> QED BY <2>1, <2>2
<1> QED BY <1>1, <1>2 DEF SchedulerInv, LoopsHold

LEMMA LoopsStay ==
    ASSUME SchedulerInv, loop' = loop, Forward, DurableTyped', DurableTells'
    PROVE  SchedulerInv'
<1>1. ASSUME NEW q \in Schedulers PROVE LoopHolds(loop[q])'
  <2>1. PICK k \in LoopRow : k = loop[q] /\ k = loop'[q]
    BY DEF SchedulerInv
  <2>2. LoopHolds(k)
    BY <2>1 DEF SchedulerInv, LoopsHold
  <2>3. LoopHolds(k)'
    BY <2>2, ForwardHolds DEF SchedulerInv
  <2> QED BY <2>1, <2>3 DEF LoopHolds, TickHolds
<1> QED BY <1>1 DEF SchedulerInv, LoopsHold

(***************************************************************************)
(* The scheduler's steps                                                   *)
(***************************************************************************)
LEMMA LoopIsTyped ==
    ASSUME SchedulerInv, NEW p \in Schedulers
    PROVE  /\ DurableTyped /\ DurableTells
           /\ loop[p] \in LoopRow /\ LoopHolds(loop[p])
  BY DEF SchedulerInv, LoopsHold

\* The pointer and the ticks stay, or only the session and the status move, and no stopped
\* pointer is active again.
LEMMA PointerStays ==
    ASSUME SchedulerInv, ticks' = ticks, schedulerRun'.hash >= schedulerRun.hash,
           pointer'.tick = pointer.tick, pointer'.failures = pointer.failures,
           pointer'.idle = pointer.idle,
           pointer'.status = "active" => pointer.status = "active",
           schedulerRun'.hash \in Nat
    PROVE  Forward /\ DurableTells'
<1>1. /\ schedulerRun.hash \in Nat
      /\ ticks = <<>> \/ ticks[Len(ticks)].out \in Nat
  <2>1. ticks \in Seq(TickRow) /\ schedulerRun.hash \in Nat
    BY DEF SchedulerInv, DurableTyped
  <2>2. ticks # <<>> => ticks[Len(ticks)] \in TickRow
    BY <2>1
  <2> QED BY <2>1, <2>2 DEF TickRow
<1>2. LastOut(ticks) \in Nat
  BY <1>1 DEF LastOut
<1>3. Forward
  BY <1>1 DEF Forward
<1>4. DurableTells'
  <2>1. LastOut(ticks) <= schedulerRun'.hash
    BY <1>1, <1>2 DEF SchedulerInv, DurableTells
  <2> QED BY <2>1 DEF SchedulerInv, DurableTells, Open
<1> QED BY <1>3, <1>4

LEMMA PointerUnmoved ==
    ASSUME SchedulerInv, UNCHANGED <<pointer, ticks, schedulerRun>>
    PROVE  Forward /\ DurableTells'
  BY PointerStays DEF SchedulerInv, DurableTyped

LEMMA OutsideHolds ==
    ASSUME SchedulerInv
    PROVE  Outside \in LoopRow /\ LoopHolds(Outside)'
  BY SchedulerAssumption DEF Outside, LoopRow, SchedulerPlaces, LoopHolds, AtWork

LEMMA LoopLeaves ==
    ASSUME SchedulerInv, NEW p \in Schedulers, Leaves(p), Forward, DurableTyped', DurableTells'
    PROVE  SchedulerInv'
  BY OutsideHolds, LoopActs DEF Leaves

\* A process that is not at work after the step, and inside before it.
LEMMA LoopGoes ==
    ASSUME SchedulerInv, NEW p \in Schedulers, loop[p].at # "idle",
           NEW at \in SchedulerPlaces \ AtWork, NEW n \in Nat,
           NEW outcome \in Stops \cup Results \cup {None},
           at = "stopping" => outcome \in Stops,
           loop' = [loop EXCEPT ![p] = [loop[p] EXCEPT !.at = at, !.session = n,
                                                       !.outcome = outcome]],
           Forward, DurableTyped', DurableTells'
    PROVE  SchedulerInv'
<1>0. loop[p] \in LoopRow /\ LoopHolds(loop[p])
  BY LoopIsTyped
<1>1. PICK l \in LoopRow : l = [loop[p] EXCEPT !.at = at, !.session = n, !.outcome = outcome]
  BY <1>0 DEF LoopRow
<1>2. /\ l.at = at /\ l.outcome = outcome /\ l.me = loop[p].me /\ l.left = loop[p].left
  BY <1>0, <1>1 DEF LoopRow
<1>3. LoopHolds(l)'
  BY <1>0, <1>2 DEF LoopHolds
<1> QED BY <1>1, <1>3, LoopActs

\* A lease that is handed on is one.
LEMMA LeaseIsOne ==
    ASSUME DurableTyped, NEW owner \in SchedulerSessions \cup {Admin}, NEW token \in Nat,
           schedulerLease.token <= token, token <= MaxToken
    PROVE  [owner |-> owner, token |-> token, expires |-> schedulerClock + LeaseTtl,
            released |-> FALSE]
           \in [owner : SchedulerSessions \cup {Admin}, token : 1..MaxToken, expires : Nat,
                released : BOOLEAN]
<1>1. LeaseTtl \in Nat /\ MaxToken \in Nat
  BY SchedulerAssumption
<1>2. schedulerClock + LeaseTtl \in Nat
  BY <1>1 DEF DurableTyped
<1>3. token \in 1..MaxToken
  BY <1>1 DEF DurableTyped
<1> QED BY <1>2, <1>3

LEMMA AuthorityStep ==
    ASSUME SchedulerInv,
           \/ TimePasses \/ ResumeRun
           \/ \E s \in SchedulerSessions : HandoffExpired(s) \/ HandoffHeld(s)
    PROVE  SchedulerInv'
<1> USE SchedulerAssumption
<1>0. DurableTyped
  BY DEF SchedulerInv
<1>1. CASE TimePasses
  <2>1. DurableTyped'
    BY <1>0, <1>1 DEF TimePasses, DurableTyped, Verified, controlVars, durableVars
  <2> QED BY <1>1, <2>1, PointerUnmoved, LoopsStay DEF TimePasses, controlVars, durableVars
<1>2. CASE ResumeRun
  <2>1. /\ schedulerRun' = [schedulerRun EXCEPT !.status = "RUNNING"]
        /\ schedulerLease' = [owner |-> Admin, token |-> schedulerLease.token + 1,
                              expires |-> schedulerClock + LeaseTtl, released |-> FALSE]
        /\ UNCHANGED <<schedulerClock, executionGrant, sessions, pointer, ticks, loop, lost>>
        /\ schedulerLease.token < MaxToken
    BY <1>2 DEF ResumeRun, Leased, durableVars
  <2>2. DurableTyped'
    <3>1. schedulerLease.token + 1 \in Nat /\ schedulerLease.token + 1 <= MaxToken
          /\ schedulerLease.token <= schedulerLease.token + 1
      <4>1. schedulerLease.token \in Nat
        BY <1>0 DEF DurableTyped
      <4> QED BY <2>1, <4>1
    <3>2. schedulerLease' \in [owner : SchedulerSessions \cup {Admin}, token : 1..MaxToken,
                               expires : Nat, released : BOOLEAN]
      BY <1>0, <2>1, <3>1, LeaseIsOne
    <3>3. schedulerRun' \in [status : {"RUNNING", "PAUSED"}, hash : 1..(MaxTicks + MaxLost + 1)]
      BY <1>0, <2>1 DEF DurableTyped
    <3> QED BY <1>0, <2>1, <3>2, <3>3 DEF DurableTyped, Verified
  <2>3. schedulerRun'.hash = schedulerRun.hash /\ schedulerRun.hash \in Nat
    BY <1>0, <2>1 DEF DurableTyped
  <2> QED BY <2>1, <2>2, <2>3, PointerStays, LoopsStay
<1>3. ASSUME NEW s \in SchedulerSessions, HandoffExpired(s) \/ HandoffHeld(s)
      PROVE  SchedulerInv'
  <2>1. PICK k \in {1, 2} :
          /\ schedulerLease' = [owner |-> s, token |-> schedulerLease.token + k,
                                expires |-> schedulerClock + LeaseTtl, released |-> FALSE]
          /\ schedulerLease.token + k <= MaxToken
    <3>1. CASE HandoffExpired(s)
      BY <3>1 DEF HandoffExpired, Leased
    <3>2. CASE HandoffHeld(s)
      <4>1. schedulerLease.token + 1 <= MaxToken
        BY <1>0, <3>2 DEF HandoffHeld, DurableTyped
      <4> QED BY <3>2, <4>1 DEF HandoffHeld, Leased
    <3> QED BY <1>3, <3>1, <3>2
  <2>2. UNCHANGED <<schedulerClock, schedulerRun, executionGrant, sessions, pointer, ticks,
                    loop, lost>>
    BY <1>3 DEF HandoffExpired, HandoffHeld, durableVars
  <2>3. DurableTyped'
    <3>1. schedulerLease.token + k \in Nat /\ schedulerLease.token <= schedulerLease.token + k
      <4>1. schedulerLease.token \in Nat
        BY <1>0 DEF DurableTyped
      <4>2. k = 1 \/ k = 2
        OBVIOUS
      <4> QED BY <4>1, <4>2
    <3>2. schedulerLease' \in [owner : SchedulerSessions \cup {Admin}, token : 1..MaxToken,
                               expires : Nat, released : BOOLEAN]
      BY <1>0, <2>1, <3>1, LeaseIsOne
    <3> QED BY <1>0, <2>2, <3>2 DEF DurableTyped, Verified
  <2> QED BY <2>2, <2>3, PointerUnmoved, LoopsStay
<1> QED BY <1>1, <1>2, <1>3

LEMMA BeginStep ==
    ASSUME SchedulerInv, NEW p \in Schedulers, NEW s \in SchedulerSessions, Begin(p, s)
    PROVE  SchedulerInv'
<1>0. DurableTyped
  BY DEF SchedulerInv
<1>1. UNCHANGED <<schedulerClock, controlVars, durableVars, lost>>
  BY DEF Begin
<1>2. DurableTyped' /\ DurableTells' /\ Forward
  BY <1>0, <1>1, PointerUnmoved DEF DurableTyped, Verified, controlVars, durableVars
<1>3. Bound \in 0..Bound /\ Bound # 0
  BY SchedulerAssumption
<1>4. PICK l \in LoopRow : l = [Outside EXCEPT !.at = "looking", !.me = s, !.left = Bound]
  BY <1>3, OutsideHolds DEF LoopRow, SchedulerPlaces
<1>5. LoopHolds(l)'
  BY <1>3, <1>4 DEF LoopHolds, AtWork, Outside
<1>6. loop' = [loop EXCEPT ![p] = l]
  BY <1>4 DEF Begin
<1> QED BY <1>2, <1>5, <1>6, LoopActs

\* A tick looks at what is needed for it, and stops the session, ends or goes on.
LEMMA LookStep ==
    ASSUME SchedulerInv, NEW p \in Schedulers, Look(p)
    PROVE  SchedulerInv'
<1>0. DurableTyped /\ loop[p] \in LoopRow
  BY LoopIsTyped
<1>1. UNCHANGED <<schedulerClock, controlVars, durableVars, lost>> /\ loop[p].at = "looking"
  BY DEF Look
<1>2. DurableTyped' /\ DurableTells' /\ Forward
  BY <1>0, <1>1, PointerUnmoved DEF DurableTyped, Verified, controlVars, durableVars
<1>3. CASE Leaves(p)
  BY <1>2, <1>3, LoopLeaves
<1>4. ASSUME NEW reason \in Stops, Stopping(p, reason)
      PROVE  SchedulerInv'
  <2>1. "stopping" \in SchedulerPlaces \ AtWork /\ pointer.session \in Nat
    BY <1>0 DEF SchedulerPlaces, AtWork, DurableTyped, PointerRow
  <2>2. loop' = [loop EXCEPT ![p] = [loop[p] EXCEPT !.at = "stopping",
                                       !.session = pointer.session, !.outcome = reason]]
    BY <1>4 DEF Stopping
  <2> QED BY <1>1, <1>2, <2>1, <2>2, LoopGoes
<1>5. ASSUME NEW at \in {"consuming", "entering"}, loop' = [loop EXCEPT ![p].at = at]
      PROVE  SchedulerInv'
  <2>1. at \in SchedulerPlaces \ AtWork /\ at # "stopping"
    BY DEF SchedulerPlaces, AtWork
  <2>2. /\ loop[p].session \in Nat
        /\ loop[p].outcome \in Stops \cup Results \cup {None}
        /\ [loop[p] EXCEPT !.at = at]
            = [loop[p] EXCEPT !.at = at, !.session = loop[p].session,
                              !.outcome = loop[p].outcome]
    BY <1>0 DEF LoopRow
  <2> QED BY <1>1, <1>2, <1>5, <2>1, <2>2, LoopGoes
<1>6. {"grant_expired", "run_paused", "budget_exhausted"} \subseteq Stops
  BY DEF Stops
<1> QED BY <1>3, <1>4, <1>5, <1>6 DEF Look

\* A session is stopped by whoever has read it.
LEMMA StopStep ==
    ASSUME SchedulerInv, NEW p \in Schedulers, Stop(p)
    PROVE  SchedulerInv'
<1>0. DurableTyped /\ LoopHolds(loop[p]) /\ loop[p].at = "stopping"
  BY LoopIsTyped DEF Stop
<1>1. loop[p].outcome \in Stops
  BY <1>0 DEF LoopHolds
<1>2. UNCHANGED <<schedulerClock, controlVars, sessions, ticks, lost>>
  BY DEF Stop
<1>3. \/ pointer' = pointer
      \/ \E now \in {"paused", "stopped"} :
           pointer' = [pointer EXCEPT !.status = now, !.stop = loop[p].outcome]
  BY DEF Stop, Stopped
<1>4. /\ pointer' \in PointerRow /\ pointer'.session = pointer.session
      /\ pointer'.tick = pointer.tick /\ pointer'.failures = pointer.failures
      /\ pointer'.idle = pointer.idle
      /\ pointer'.status = "active" => pointer.status = "active"
      /\ pointer'.status # "active" => pointer'.stop # None
  <2>1. pointer \in PointerRow /\ (pointer.status # "active" => pointer.stop # None)
    BY <1>0 DEF DurableTyped, Verified
  <2>2. loop[p].outcome # None
    BY <1>1, SchedulerAssumption
  <2>3. CASE pointer' = pointer
    BY <2>1, <2>3
  <2>4. ASSUME NEW now \in {"paused", "stopped"},
               pointer' = [pointer EXCEPT !.status = now, !.stop = loop[p].outcome]
        PROVE  /\ pointer' \in PointerRow /\ pointer'.session = pointer.session
               /\ pointer'.tick = pointer.tick /\ pointer'.failures = pointer.failures
               /\ pointer'.idle = pointer.idle /\ pointer'.status = now
               /\ pointer'.stop = loop[p].outcome
    <3>1. pointer' \in PointerRow
      BY <1>1, <2>1, <2>4 DEF PointerRow
    <3> QED BY <2>1, <2>4, <3>1 DEF PointerRow
  <2> QED BY <1>3, <2>2, <2>3, <2>4
<1>5. DurableTyped'
  BY <1>0, <1>2, <1>4 DEF DurableTyped, Verified, controlVars
<1>6. schedulerRun' = schedulerRun /\ ticks' = ticks /\ schedulerRun.hash \in Nat
  BY <1>0, <1>2 DEF controlVars, DurableTyped
<1>7. Forward /\ DurableTells'
  BY <1>4, <1>6, PointerStays
<1> QED BY <1>5, <1>7, LoopLeaves DEF Stop

LEMMA ConsumeGrantStep ==
    ASSUME SchedulerInv, NEW p \in Schedulers, ConsumeGrant(p)
    PROVE  SchedulerInv'
<1>0. DurableTyped /\ loop[p] \in LoopRow /\ LoopHolds(loop[p])
  BY LoopIsTyped
<1>1. /\ UNCHANGED <<schedulerClock, schedulerRun, schedulerLease, durableVars, lost>>
      /\ loop[p].at = "consuming"
  BY DEF ConsumeGrant
<1>2. executionGrant' \in SchedulerSessions \cup {None}
  BY <1>0, <1>1 DEF ConsumeGrant, Me, LoopHolds, DurableTyped
<1>3. DurableTyped'
  BY <1>0, <1>1, <1>2 DEF DurableTyped, Verified, durableVars
<1>4. DurableTells' /\ Forward
  BY <1>1, PointerUnmoved DEF durableVars
<1>5. CASE Leaves(p)
  BY <1>3, <1>4, <1>5, LoopLeaves
<1>6. CASE loop' = [loop EXCEPT ![p].at = "entering"]
  <2>1. "entering" \in SchedulerPlaces \ AtWork /\ loop[p].at # "idle"
    BY <1>1 DEF SchedulerPlaces, AtWork
  <2>2. /\ loop[p].session \in Nat
        /\ loop[p].outcome \in Stops \cup Results \cup {None}
        /\ [loop[p] EXCEPT !.at = "entering"]
            = [loop[p] EXCEPT !.at = "entering", !.session = loop[p].session,
                              !.outcome = loop[p].outcome]
    BY <1>0 DEF LoopRow
  <2>3. loop' = [loop EXCEPT ![p] = [loop[p] EXCEPT !.at = "entering",
                    !.session = loop[p].session, !.outcome = loop[p].outcome]]
    BY <1>6, <2>2
  <2> QED BY <1>3, <1>4, <2>1, <2>2, <2>3, LoopGoes
<1> QED BY <1>5, <1>6 DEF ConsumeGrant

\* Who goes on to run_next has read a pointer that is active, and the run's state.
LEMMA ProceedsStep ==
    ASSUME SchedulerInv, NEW p \in Schedulers, loop[p].at # "idle", NEW n \in Nat,
           NEW started \in Nat, Proceeds(p, n, started),
           ticks' = ticks, schedulerRun' = schedulerRun, pointer'.tick = pointer.tick,
           pointer'.failures = pointer.failures, pointer'.idle = pointer.idle,
           Forward, DurableTyped', DurableTells'
    PROVE  SchedulerInv'
<1>0. DurableTyped /\ DurableTells /\ loop[p] \in LoopRow /\ LoopHolds(loop[p])
  BY LoopIsTyped
<1>1. CASE Leaves(p)
  BY <1>1, LoopLeaves
<1>2. ASSUME NEW limit \in {"max_ticks", "wall_clock_limit"},
             loop' = [loop EXCEPT ![p] = [loop[p] EXCEPT !.at = "stopping", !.session = n,
                                                         !.outcome = limit]]
      PROVE  SchedulerInv'
  <2>1. limit \in Stops /\ "stopping" \in SchedulerPlaces \ AtWork
    BY DEF Stops, SchedulerPlaces, AtWork
  <2> QED BY <1>2, <2>1, LoopGoes
<1>3. CASE /\ ~HasStopped /\ ~(pointer.tick >= MaxTicks)
           /\ loop' = [loop EXCEPT ![p] =
                         [loop[p] EXCEPT !.at = "working", !.session = n, !.tick = pointer.tick,
                                         !.token = schedulerLease.token,
                                         !.prior = schedulerRun.hash]]
  <2>1. /\ pointer.tick \in Nat /\ schedulerLease.token \in 0..MaxToken
        /\ schedulerRun.hash \in Nat
    <3>1. pointer \in PointerRow
      BY <1>0 DEF DurableTyped
    <3>2. schedulerLease.token \in 0..MaxToken
      BY <1>0 DEF DurableTyped
    <3>3. schedulerRun.hash \in Nat
      BY <1>0 DEF DurableTyped
    <3> QED BY <3>1, <3>2, <3>3 DEF PointerRow
  <2>2. PICK l \in LoopRow :
          l = [loop[p] EXCEPT !.at = "working", !.session = n, !.tick = pointer.tick,
                              !.token = schedulerLease.token, !.prior = schedulerRun.hash]
    BY <1>0, <2>1 DEF LoopRow, SchedulerPlaces
  <2>3. /\ l.at = "working" /\ l.tick = pointer.tick /\ l.prior = schedulerRun.hash
        /\ l.me = loop[p].me /\ l.left = loop[p].left
    BY <1>0, <2>2 DEF LoopRow
  <2>4. Unexhausted(pointer) /\ LastOut(ticks) <= l.prior
    <3>1. pointer.tick < MaxTicks
      BY <1>3, <2>1, SchedulerAssumption
    <3> QED BY <1>0, <1>3, <2>3, <3>1 DEF DurableTells, HasStopped, Open, Unexhausted
  <2>5. LoopHolds(l)'
    BY <1>0, <2>1, <2>3, <2>4 DEF LoopHolds, TickHolds, Unexhausted
  <2> QED BY <1>3, <2>2, <2>5, LoopActs
<1> QED BY <1>1, <1>2, <1>3, SchedulerAssumption DEF Proceeds, Stops

\* A session is entered, taken over or opened, and the pointer counts on.
LEMMA EnterStep ==
    ASSUME SchedulerInv, NEW p \in Schedulers, Enter(p)
    PROVE  SchedulerInv'
<1>0. DurableTyped /\ DurableTells /\ LoopHolds(loop[p]) /\ loop[p].at = "entering"
  BY LoopIsTyped DEF Enter
<1>1. UNCHANGED <<schedulerClock, controlVars, lost>>
  BY DEF Enter
<1>2. ASSUME UNCHANGED durableVars
      PROVE  DurableTyped' /\ DurableTells' /\ Forward
  BY <1>0, <1>1, <1>2, PointerUnmoved DEF DurableTyped, Verified, controlVars, durableVars
<1>3. CASE Leaves(p) /\ UNCHANGED durableVars
  BY <1>2, <1>3, LoopLeaves
<1>4. ASSUME NEW n \in Nat, NEW started \in Nat, Proceeds(p, n, started), UNCHANGED durableVars
      PROVE  SchedulerInv'
  BY <1>0, <1>1, <1>2, <1>4, ProceedsStep DEF controlVars, durableVars
<1>5. ASSUME NEW started \in 1..SchedulerMaxTime, Owns(p), UNCHANGED ticks,
             Opened(pointer.session + 1, started), Proceeds(p, pointer.session + 1, started)
      PROVE  SchedulerInv'
  <2>1. /\ pointer \in PointerRow /\ pointer.session = Len(sessions)
        /\ pointer.session + 1 \in Nat /\ started \in Nat
    <3>1. pointer \in PointerRow /\ pointer.session = Len(sessions)
      BY <1>0 DEF DurableTyped, Verified
    <3>2. pointer.session \in Nat
      BY <3>1 DEF PointerRow
    <3> QED BY <3>1, <3>2
  <2>2. schedulerLease.owner \in SchedulerSessions /\ schedulerLease.token \in 1..MaxToken
    BY <1>0, <1>5 DEF Owns, Me, LoopHolds, DurableTyped
  <2>3. PICK row \in SessionRow : sessions' = Append(sessions, row)
    BY <1>5, <2>2 DEF Opened, SessionRow
  <2>4. sessions' \in Seq(SessionRow) /\ Len(sessions') = Len(sessions) + 1
    BY <1>0, <2>3 DEF DurableTyped
  <2>5. /\ pointer' \in PointerRow /\ pointer'.session = pointer.session + 1
        /\ pointer'.tick = pointer.tick /\ pointer'.failures = pointer.failures
        /\ pointer'.idle = pointer.idle /\ pointer'.status = pointer.status
        /\ pointer'.stop = pointer.stop
    BY <1>5, <2>1 DEF Opened, Continued, PointerRow
  <2>6. DurableTyped'
    BY <1>0, <1>1, <1>5, <2>1, <2>4, <2>5 DEF DurableTyped, Verified, controlVars
  <2>7. schedulerRun' = schedulerRun /\ schedulerRun.hash \in Nat
    BY <1>0, <1>1 DEF controlVars, DurableTyped
  <2>8. Forward /\ DurableTells'
    BY <1>5, <2>5, <2>7, PointerStays
  <2> QED BY <1>0, <1>5, <2>1, <2>5, <2>6, <2>7, <2>8, ProceedsStep
<1>6. CASE schedulerRun.status # "RUNNING" \/ ~Owns(p)
  BY <1>3, <1>6 DEF Enter
<1>7. CASE schedulerRun.status = "RUNNING" /\ Owns(p) /\ pointer.session = 0
  <2>1. Opened(1, schedulerClock) /\ Proceeds(p, 1, schedulerClock) /\ UNCHANGED ticks
    BY <1>7 DEF Enter
  <2>2. schedulerClock \in 1..SchedulerMaxTime /\ pointer.session + 1 = 1
    BY <1>0, <1>7 DEF DurableTyped
  <2> QED BY <1>5, <1>7, <2>1, <2>2
<1>8. CASE schedulerRun.status = "RUNNING" /\ Owns(p) /\ pointer.session # 0
  <2>1. PICK current \in SessionRow : current = sessions[pointer.session]
    BY <1>0, <1>8 DEF DurableTyped, Verified, PointerRow
  <2>2. current.started \in 1..SchedulerMaxTime /\ current.started \in Nat
        /\ pointer.session \in Nat
    BY <1>0 DEF SessionRow, DurableTyped, PointerRow
  <2>3. \/ Leaves(p) /\ UNCHANGED durableVars
        \/ Proceeds(p, pointer.session, current.started) /\ UNCHANGED durableVars
        \/ /\ Opened(pointer.session + 1, current.started)
           /\ Proceeds(p, pointer.session + 1, current.started)
           /\ UNCHANGED ticks
    BY <1>8, <2>1 DEF Enter
  <2> QED BY <1>3, <1>4, <1>5, <1>8, <2>2, <2>3
<1> QED BY <1>6, <1>7, <1>8

\* run_next moves the run forward under a lease that is held, and its tick is under way.
LEMMA WorksStep ==
    ASSUME SchedulerInv, NEW p \in Schedulers, NEW result \in Results, Works(p, result)
    PROVE  SchedulerInv'
<1>0. DurableTyped /\ loop[p] \in LoopRow /\ LoopHolds(loop[p]) /\ loop[p].at = "working"
  BY LoopIsTyped DEF Works
<1>1. UNCHANGED <<schedulerClock, executionGrant, durableVars, lost>>
  BY DEF Works
<1>2. PICK l \in LoopRow : l = [loop[p] EXCEPT !.at = "appending", !.outcome = result]
  BY <1>0 DEF LoopRow, SchedulerPlaces
<1>3. /\ l.at = "appending" /\ l.outcome = result /\ l.me = loop[p].me /\ l.left = loop[p].left
      /\ l.tick = loop[p].tick /\ l.prior = loop[p].prior
  BY <1>0, <1>2 DEF LoopRow
<1>4. loop' = [loop EXCEPT ![p] = l]
  BY <1>2 DEF Works
<1>5. LoopHolds(l)
  BY <1>0, <1>3 DEF LoopHolds, TickHolds, AtWork
<1>6. /\ schedulerRun.hash \in Nat /\ schedulerRun.hash <= schedulerRun'.hash
      /\ schedulerRun'.hash \in Nat
      /\ schedulerRun' \in [status : {"RUNNING", "PAUSED"}, hash : 1..(MaxTicks + MaxLost + 1)]
  <2>1. /\ schedulerRun.hash \in 1..(MaxTicks + MaxLost + 1)
        /\ schedulerRun.status \in {"RUNNING", "PAUSED"} /\ MaxTicks + MaxLost \in Nat
    BY <1>0, SchedulerAssumption DEF DurableTyped
  <2>2. CASE result = "failed"
    BY <1>0, <2>1, <2>2 DEF Works, DurableTyped
  <2>3. ASSUME result # "failed", result # "progress"
        PROVE  /\ schedulerRun'.hash = schedulerRun.hash + 0
               /\ schedulerRun'.status \in {"RUNNING", "PAUSED"}
               /\ schedulerRun' = [status |-> schedulerRun'.status, hash |-> schedulerRun'.hash]
    BY <2>1, <2>3 DEF Works
  <2>4. ASSUME result = "progress"
        PROVE  /\ schedulerRun'.hash = schedulerRun.hash + 1
               /\ schedulerRun.hash <= MaxTicks + MaxLost
               /\ schedulerRun'.status \in {"RUNNING", "PAUSED"}
               /\ schedulerRun' = [status |-> schedulerRun'.status, hash |-> schedulerRun'.hash]
    BY <2>1, <2>4 DEF Works
  <2>5. schedulerRun.hash + 0 = schedulerRun.hash
    BY <2>1
  <2>6. schedulerRun.hash <= MaxTicks + MaxLost =>
          schedulerRun.hash + 1 \in 1..(MaxTicks + MaxLost + 1)
    BY <2>1
  <2>7. CASE result = "progress"
    BY <2>1, <2>4, <2>6, <2>7
  <2>8. CASE result \notin {"failed", "progress"}
    BY <2>1, <2>3, <2>5, <2>8
  <2> QED BY <2>2, <2>7, <2>8
<1>7. schedulerLease' \in [owner : SchedulerSessions \cup {Admin}, token : 1..MaxToken,
                           expires : Nat, released : BOOLEAN]
  <2>1. CASE result = "failed"
    BY <1>0, <2>1 DEF Works, DurableTyped
  <2>2. CASE result # "failed"
    <3>1. /\ schedulerLease.owner \in SchedulerSessions \cup {Admin}
          /\ schedulerLease.token \in Nat /\ schedulerLease.token <= MaxToken
          /\ schedulerLease.token <= schedulerLease.token
      BY <1>0 DEF DurableTyped
    <3>2. PICK held \in [owner : SchedulerSessions \cup {Admin}, token : 1..MaxToken,
                         expires : Nat, released : BOOLEAN] :
            held = Leased(schedulerLease.owner, schedulerLease.token)
      BY <1>0, <3>1, LeaseIsOne DEF Leased
    <3>3. schedulerLease' = [held EXCEPT !.released = (result = "paused")]
      BY <2>2, <3>2 DEF Works
    <3>4. (result = "paused") \in BOOLEAN
      OBVIOUS
    <3> QED BY <3>3, <3>4
  <2> QED BY <2>1, <2>2
<1>8. DurableTyped'
  BY <1>0, <1>1, <1>6, <1>7 DEF DurableTyped, Verified, durableVars
<1>9. Forward /\ DurableTells'
  BY <1>1, <1>6, PointerStays DEF durableVars
<1>10. LoopHolds(l)'
  BY <1>0, <1>5, <1>8, <1>9, ForwardHolds
<1> QED BY <1>4, <1>8, <1>9, <1>10, LoopActs

\* A process that leaves may leave an iteration that no tick records.
LEMMA LossStep ==
    ASSUME SchedulerInv, NEW p \in Schedulers, RefuseTick(p) \/ LoopDies(p)
    PROVE  SchedulerInv'
<1>0. DurableTyped
  BY DEF SchedulerInv
<1>1. /\ Leaves(p) /\ UNCHANGED <<schedulerClock, controlVars, durableVars>>
      /\ \/ lost' = lost
         \/ lost' = lost + 1 /\ lost < MaxLost
  BY DEF RefuseTick, LoopDies
<1>2. lost' \in 0..MaxLost
  <2>1. MaxLost \in Nat /\ lost \in 0..MaxLost
    BY <1>0, SchedulerAssumption DEF DurableTyped
  <2> QED BY <1>1, <2>1
<1>3. DurableTyped'
  BY <1>0, <1>1, <1>2 DEF DurableTyped, Verified, controlVars, durableVars
<1>4. Forward /\ DurableTells'
  BY <1>1, PointerUnmoved DEF controlVars, durableVars
<1> QED BY <1>1, <1>3, <1>4, LoopLeaves

\* A tick is recorded where it began, and counted on what was counted there.
LEMMA AppendTickStep ==
    ASSUME SchedulerInv, NEW p \in Schedulers, AppendTick(p)
    PROVE  SchedulerInv'
<1> DEFINE t == [in |-> loop[p].prior, out |-> schedulerRun.hash,
                 failed |-> loop[p].outcome \in Failed]
           next == Recorded(p, loop[p].outcome)
<1>0. /\ DurableTyped /\ DurableTells /\ loop[p] \in LoopRow /\ LoopHolds(loop[p])
      /\ loop[p].at = "appending" /\ Authoritative(p)
  BY LoopIsTyped DEF AppendTick
<1>1. /\ UNCHANGED <<schedulerClock, controlVars, sessions, lost>>
      /\ pointer' = next /\ ticks' = Append(ticks, t)
  BY DEF AppendTick
<1>2. /\ pointer \in PointerRow /\ pointer.tick \in Nat /\ pointer.failures \in Nat
      /\ pointer.idle \in Nat /\ loop[p].prior \in Nat /\ schedulerRun.hash \in Nat
      /\ ticks \in Seq(TickRow)
  BY <1>0 DEF DurableTyped, PointerRow, LoopRow
<1>3. Unexhausted(pointer) /\ LastOut(ticks) <= loop[p].prior /\ loop[p].prior <= schedulerRun.hash
  BY <1>0 DEF Authoritative, LoopHolds, AtWork, TickHolds
<1>4. /\ next.tick = pointer.tick + 1
      /\ next.failures = (IF t.failed THEN pointer.failures + 1 ELSE 0)
      /\ next.idle = (IF t.in = t.out THEN pointer.idle + 1 ELSE 0)
      /\ next.session = pointer.session
      /\ next.stop = Reason(loop[p].outcome, pointer.tick + 1, next.failures, next.idle)
      /\ next.status = (IF next.stop = None THEN "active" ELSE "stopped")
      /\ next = [session |-> next.session, tick |-> next.tick, status |-> next.status,
                 stop |-> next.stop, failures |-> next.failures, idle |-> next.idle]
  <2> DEFINE fails == Failures(loop[p].outcome)
             still == Unmoved(loop[p].prior)
             stop == Reason(loop[p].outcome, pointer.tick + 1, fails, still)
  <2>1. next = [pointer EXCEPT !.tick = pointer.tick + 1, !.failures = fails, !.idle = still,
                  !.stop = stop, !.status = IF stop = None THEN "active" ELSE "stopped"]
    BY DEF Recorded
  <2>2. fails = (IF loop[p].outcome \in Failed THEN pointer.failures + 1 ELSE 0)
    BY DEF Failures
  <2>3. still = (IF schedulerRun.hash = loop[p].prior THEN pointer.idle + 1 ELSE 0)
    BY DEF Unmoved
  <2>4. t.failed = (loop[p].outcome \in Failed) /\ t.in = loop[p].prior
        /\ t.out = schedulerRun.hash
    OBVIOUS
  <2> HIDE DEF t, next, fails, still
  <2>5. /\ next.tick = pointer.tick + 1 /\ next.failures = fails /\ next.idle = still
        /\ next.session = pointer.session /\ next.stop = stop
        /\ next.status = (IF stop = None THEN "active" ELSE "stopped")
        /\ next = [session |-> next.session, tick |-> next.tick, status |-> next.status,
                   stop |-> next.stop, failures |-> next.failures, idle |-> next.idle]
    BY <1>2, <2>1 DEF PointerRow
  <2>6. fails = (IF t.failed THEN pointer.failures + 1 ELSE 0)
    BY <2>2, <2>4
  <2>7. still = (IF t.in = t.out THEN pointer.idle + 1 ELSE 0)
    BY <2>3, <2>4
  <2> QED BY <2>5, <2>6, <2>7
<1>5. PICK tick \in TickRow : tick = t /\ ticks' = Append(ticks, tick)
  <2>1. (loop[p].outcome \in Failed) \in BOOLEAN
    OBVIOUS
  <2>2. t \in TickRow
    BY <1>2, <2>1, Zenon DEF TickRow
  <2> QED BY <1>1, <2>2
<1>6. /\ t.in = loop[p].prior /\ t.out = schedulerRun.hash
  OBVIOUS
<1> HIDE DEF t, next
<1>7. /\ Windows(ticks') /\ Chained(ticks')
      /\ Trails(ticks', next.failures, next.idle)
      /\ LastOut(ticks') = schedulerRun.hash /\ Len(ticks') = Len(ticks) + 1
  <2>1. /\ Windows(ticks) /\ Chained(ticks) /\ Trails(ticks, pointer.failures, pointer.idle)
        /\ pointer.failures < MaxFailures /\ pointer.idle < MaxIdle
        /\ LastOut(ticks) <= tick.in /\ tick.in <= tick.out
    BY <1>0, <1>3, <1>5, <1>6 DEF DurableTells, Unexhausted
  <2> QED BY <1>2, <1>4, <1>5, <1>6, <2>1, TickAppends
<1>8. /\ next.tick \in Nat /\ next.failures \in Nat /\ next.idle \in Nat
      /\ next.session \in Nat /\ next.stop \in Stops \cup {None}
      /\ next.status \in {"active", "stopped"}
  BY <1>2, <1>4 DEF PointerRow, Reason, Stops
<1>9. next \in PointerRow
  BY <1>4, <1>8 DEF PointerRow
<1>10. ticks' \in Seq(TickRow)
  BY <1>2, <1>5
<1>11. DurableTyped'
  BY <1>0, <1>1, <1>4, <1>9, <1>10 DEF DurableTyped, Verified, controlVars
<1>12. next.status = "active" => Open(next)
  <2>1. CASE next.stop = None
    <3>1. /\ ~(next.failures >= MaxFailures) /\ ~(next.idle >= MaxIdle)
          /\ ~(next.tick >= MaxIterations)
      BY <1>4, <2>1, SchedulerAssumption DEF Reason, Stops
    <3>2. MaxFailures \in Nat /\ MaxIdle \in Nat /\ MaxIterations \in Nat
      BY SchedulerAssumption
    <3> QED BY <1>8, <3>1, <3>2 DEF Open
  <2> QED BY <1>4, <2>1
<1>13. schedulerRun' = schedulerRun
  BY <1>1 DEF controlVars
<1>14. DurableTells'
  <2>1. next.tick = Len(ticks') /\ Len(ticks') <= MaxTicks /\ Len(ticks') <= MaxIterations
    <3>1. MaxTicks \in Nat /\ MaxIterations \in Nat
      BY SchedulerAssumption
    <3> QED BY <1>0, <1>2, <1>3, <1>4, <1>7, <3>1 DEF DurableTells, Unexhausted
  <2>2. LastOut(ticks') <= schedulerRun'.hash
    BY <1>2, <1>7, <1>13
  <2> QED BY <1>1, <1>7, <1>12, <2>1, <2>2 DEF DurableTells
<1>15. Forward
  BY <1>1, <1>2, <1>4, <1>13 DEF Forward
<1>16. CASE Leaves(p)
  BY <1>11, <1>14, <1>15, <1>16, LoopLeaves
<1>17. CASE loop' = [loop EXCEPT ![p] = [loop[p] EXCEPT !.at = "stopping",
                                                        !.outcome = "max_ticks"]]
  <2>1. /\ "stopping" \in SchedulerPlaces \ AtWork /\ loop[p].at # "idle"
        /\ "max_ticks" \in Stops /\ loop[p].session \in Nat
    BY <1>0 DEF SchedulerPlaces, AtWork, Stops, LoopRow
  <2>2. [loop[p] EXCEPT !.at = "stopping", !.outcome = "max_ticks"]
         = [loop[p] EXCEPT !.at = "stopping", !.session = loop[p].session,
                           !.outcome = "max_ticks"]
    BY <1>0 DEF LoopRow
  <2>3. loop' = [loop EXCEPT ![p] = [loop[p] EXCEPT !.at = "stopping",
                                       !.session = loop[p].session, !.outcome = "max_ticks"]]
    BY <1>17, <2>2
  <2> QED BY <1>11, <1>14, <1>15, <2>1, <2>3, LoopGoes
<1>18. CASE /\ loop[p].left # 1
            /\ loop' = [loop EXCEPT ![p] = [Outside EXCEPT !.at = "looking", !.me = Me(p),
                                                           !.left = loop[p].left - 1]]
  <2>1. /\ loop[p].me \in SchedulerSessions /\ loop[p].left # 0 /\ loop[p].left \in 0..Bound
        /\ Bound \in Nat
    BY <1>0, SchedulerAssumption DEF LoopHolds, LoopRow
  <2>2. loop[p].left - 1 \in 0..Bound /\ loop[p].left - 1 # 0
    BY <1>18, <2>1
  <2>3. PICK l \in LoopRow :
          l = [Outside EXCEPT !.at = "looking", !.me = Me(p), !.left = loop[p].left - 1]
    BY <2>1, <2>2, OutsideHolds DEF LoopRow, SchedulerPlaces, Me
  <2>4. l.at = "looking" /\ l.me = loop[p].me /\ l.left = loop[p].left - 1
    BY <2>3 DEF Outside, Me
  <2>5. LoopHolds(l)'
    BY <2>1, <2>2, <2>4 DEF LoopHolds, AtWork
  <2>6. loop' = [loop EXCEPT ![p] = l]
    BY <1>18, <2>3
  <2> QED BY <1>11, <1>14, <1>15, <2>5, <2>6, LoopActs
<1> QED BY <1>16, <1>17, <1>18 DEF AppendTick

LEMMA SchedulerStep ==
    ASSUME SchedulerInv, SchedulerNext
    PROVE  SchedulerInv'
<1>1. CASE \/ TimePasses \/ ResumeRun
           \/ \E s \in SchedulerSessions : HandoffExpired(s) \/ HandoffHeld(s)
  BY <1>1, AuthorityStep
<1>2. ASSUME NEW p \in Schedulers, Process(p)
      PROVE  SchedulerInv'
  BY <1>2, BeginStep, LookStep, StopStep, ConsumeGrantStep, EnterStep, WorksStep,
     AppendTickStep, LossStep DEF Process
<1> QED BY <1>1, <1>2 DEF SchedulerNext

LEMMA SchedulerInvHolds == SchedulerSpec => []SchedulerInv
<1>1. SchedulerInv /\ UNCHANGED schedulerVars => SchedulerInv'
  <2> SUFFICES ASSUME SchedulerInv, UNCHANGED schedulerVars PROVE SchedulerInv'
    OBVIOUS
  <2>1. DurableTyped' /\ loop' = loop
    BY DEF SchedulerInv, DurableTyped, Verified, schedulerVars, controlVars, durableVars
  <2>2. DurableTells' /\ Forward
    BY PointerUnmoved DEF schedulerVars, controlVars, durableVars
  <2> QED BY <2>1, <2>2, LoopsStay
<1>2. SchedulerInv /\ [SchedulerNext]_schedulerVars => SchedulerInv'
  BY <1>1, SchedulerStep
<1> QED BY <1>2, SchedulerBegins, PTL DEF SchedulerSpec

\* No restart, race or takeover gives a run more ticks than its policy allows, nor more
\* failed ticks or ticks without progress in a row, over all its sessions and processes.
THEOREM PolicyIsKept == SchedulerSpec => []WithinPolicy
  BY SchedulerInvHolds, SchedulerInvTells, PTL

\* The ticks of a run are a history of it: each begins no earlier than the one before it
\* ended, and the pointer has counted them all.
THEOREM TicksAreAHistory == SchedulerSpec => []TicksChain
  BY SchedulerInvHolds, SchedulerInvTells, PTL

(***************************************************************************)
(* What has stopped stays so                                               *)
(***************************************************************************)
LEMMA LoopIsQuiet ==
    ASSUME SchedulerInv, Quiet, NEW p \in Schedulers, NEW l, l.at \notin AtWork,
           loop' = [loop EXCEPT ![p] = l], pointer'.status # "active"
    PROVE  Quiet'
  BY DEF SchedulerInv, Quiet, AtWork

LEMMA LeavesQuietly ==
    ASSUME SchedulerInv, Quiet, NEW p \in Schedulers, Leaves(p), pointer'.status # "active"
    PROVE  Quiet'
  BY LoopIsQuiet DEF Leaves, Outside, AtWork

LEMMA QuietStep ==
    ASSUME SchedulerInv, Quiet, SchedulerNext
    PROVE  Quiet'
<1>0. pointer.status # "active" /\ pointer \in PointerRow
  BY DEF Quiet, SchedulerInv, DurableTyped
<1>1. CASE \/ TimePasses \/ ResumeRun
           \/ \E s \in SchedulerSessions : HandoffExpired(s) \/ HandoffHeld(s)
  BY <1>1 DEF TimePasses, ResumeRun, HandoffExpired, HandoffHeld, durableVars, Quiet
<1>2. ASSUME NEW p \in Schedulers, Process(p)
      PROVE  Quiet'
  <2>0. loop[p] \in LoopRow /\ loop[p].at \notin AtWork
    BY DEF SchedulerInv, Quiet, AtWork
  <2>1. ASSUME NEW s \in SchedulerSessions, Begin(p, s)
        PROVE  Quiet'
    <3> DEFINE l == [Outside EXCEPT !.at = "looking", !.me = s, !.left = Bound]
    <3>1. l.at \notin AtWork
      BY DEF Outside, AtWork
    <3>2. pointer'.status # "active" /\ loop' = [loop EXCEPT ![p] = l]
      BY <1>0, <2>1 DEF Begin, durableVars
    <3> HIDE DEF l
    <3> QED BY <3>1, <3>2, LoopIsQuiet
  <2>2. CASE Look(p)
    <3>1. pointer'.status # "active"
      BY <1>0, <2>2 DEF Look, durableVars
    <3>2. CASE Leaves(p)
      BY <3>1, <3>2, LeavesQuietly
    <3>3. ASSUME NEW reason, Stopping(p, reason)
          PROVE  Quiet'
      <4> DEFINE l == [loop[p] EXCEPT !.at = "stopping", !.session = pointer.session,
                                      !.outcome = reason]
      <4>1. l.at \notin AtWork
        BY <2>0 DEF LoopRow, AtWork
      <4>2. loop' = [loop EXCEPT ![p] = l]
        BY <3>3 DEF Stopping
      <4> HIDE DEF l
      <4> QED BY <3>1, <4>1, <4>2, LoopIsQuiet
    <3>4. ASSUME NEW at \in {"consuming", "entering"}, loop' = [loop EXCEPT ![p].at = at]
          PROVE  Quiet'
      <4> DEFINE l == [loop[p] EXCEPT !.at = at]
      <4>1. l.at \notin AtWork /\ loop' = [loop EXCEPT ![p] = l]
        BY <2>0, <3>4 DEF LoopRow, AtWork
      <4> HIDE DEF l
      <4> QED BY <3>1, <4>1, LoopIsQuiet
    <3> QED BY <2>2, <3>2, <3>3, <3>4 DEF Look
  <2>3. CASE Stop(p)
    <3>1. pointer' = pointer \/ pointer'.status \in {"paused", "stopped"}
      BY <1>0, <2>3 DEF Stop, Stopped, PointerRow
    <3> QED BY <1>0, <2>3, <3>1, LeavesQuietly DEF Stop
  <2>4. CASE ConsumeGrant(p)
    <3>1. pointer'.status # "active"
      BY <1>0, <2>4 DEF ConsumeGrant, durableVars
    <3>2. ASSUME loop' = [loop EXCEPT ![p].at = "entering"]
          PROVE  Quiet'
      <4> DEFINE l == [loop[p] EXCEPT !.at = "entering"]
      <4>1. l.at \notin AtWork /\ loop' = [loop EXCEPT ![p] = l]
        BY <2>0, <3>2 DEF LoopRow, AtWork
      <4> HIDE DEF l
      <4> QED BY <3>1, <4>1, LoopIsQuiet
    <3> QED BY <2>4, <3>1, <3>2, LeavesQuietly DEF ConsumeGrant
  <2>5. CASE Enter(p)
    <3>1. pointer'.status = pointer.status
      BY <1>0, <2>5 DEF Enter, Opened, Continued, durableVars, PointerRow
    <3>2. ASSUME NEW n, NEW started, Proceeds(p, n, started)
          PROVE  Leaves(p)
      BY <1>0, <3>2 DEF Proceeds, HasStopped
    <3>3. Leaves(p)
      BY <2>5, <3>2 DEF Enter
    <3> QED BY <1>0, <3>1, <3>3, LeavesQuietly
  <2>6. ~AppendTick(p) /\ \A result \in Results : ~Works(p, result)
    BY <2>0 DEF AppendTick, Works, AtWork
  <2>7. CASE RefuseTick(p) \/ LoopDies(p)
    BY <1>0, <2>7, LeavesQuietly DEF RefuseTick, LoopDies, durableVars
  <2> QED BY <1>2, <2>1, <2>2, <2>3, <2>4, <2>5, <2>6, <2>7 DEF Process
<1> QED BY <1>1, <1>2 DEF SchedulerNext

(***************************************************************************)
(* The parts together                                                      *)
(***************************************************************************)
LEMMA EachPartIsItself ==
    OrchestrationSpec => Spec /\ SchedulerSpec /\ WorkerSpec /\ AcquisitionSpec
<1>1. OrchestrationInit => Init /\ SchedulerInit /\ WorkerInit /\ AcquisitionInit
  BY DEF OrchestrationInit
<1>2. [OrchestrationNext]_orchestrationVars =>
        /\ [Next]_vars /\ [SchedulerNext]_schedulerVars
        /\ [WorkerNext]_workerVars /\ [AcquisitionNext]_acquisitionVars
  BY DEF OrchestrationNext, orchestrationVars, otherVars
<1> QED BY <1>1, <1>2, PTL DEF OrchestrationSpec, Spec, SchedulerSpec, WorkerSpec,
                               AcquisitionSpec

\* A scheduler that has stopped, with no tick under way, stays so whatever restarts, takes
\* over or resumes; and a worker begins at most one step over a command to stop.
THEOREM StopsHold == OrchestrationSpec => StopsAreHeeded
<1>1. SchedulerInv /\ [SchedulerNext]_schedulerVars => (Quiet => Quiet')
  <2> SUFFICES ASSUME SchedulerInv, [SchedulerNext]_schedulerVars, Quiet PROVE Quiet'
    OBVIOUS
  <2>1. CASE UNCHANGED schedulerVars
    BY <2>1 DEF Quiet, schedulerVars, durableVars
  <2> QED BY <2>1, QuietStep
<1>2. WorkerInv => HeedsCommands
  BY DEF WorkerInv, WorkersHold, WorkerHolds, HeedsCommands
<1> QED BY <1>1, <1>2, EachPartIsItself, SchedulerInvHolds, WorkerInvHolds,
           PTL DEF StopsAreHeeded, SchedulerSpec
=============================================================================
