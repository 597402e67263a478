-------------------------- MODULE RunControlProofs --------------------------
(***************************************************************************)
(* Proofs about RunControl, for any actors, lease lengths, lock waits and  *)
(* bounds.  The argument is by one inductive invariant: the types, that a  *)
(* live lease means a running run, and that the tables agree with each     *)
(* other.  Everything else follows from it in a step.                      *)
(***************************************************************************)
EXTENDS RunControl, TLAPS

\* A method's stale `now` is a time of the clock's past.
LEMMA NowType == ASSUME NEW now \in Now, clock \in Nat
                 PROVE  now \in Nat /\ now <= clock
  BY DEF Now

\* A grant is a well-formed lease row.
LEMMA GrantedType ==
    ASSUME TypeOK, NEW a \in Actors, NEW ttl \in Ttls
    PROVE  /\ Granted(a, ttl) \in LeaseRow
           /\ [Granted(a, ttl) EXCEPT !.handed = TRUE] \in LeaseRow
<1>1. clock + ttl \in Nat
  BY TtlsAssumption DEF TypeOK
<1>2. lease.token + 1 \in Nat /\ lease.handed \in BOOLEAN
  BY DEF TypeOK, LeaseRow
<1> QED BY <1>1, <1>2 DEF Granted, LeaseRow

\* Giving a lease back leaves a well-formed row.
LEMMA GivenBackType ==
    ASSUME TypeOK, NEW now \in Now
    PROVE  GivenBack(now) \in LeaseRow
  BY NowType DEF TypeOK, GivenBack, LeaseRow

\* A recorded status change keeps the types of the run row and its ledger.
LEMMA RecordType ==
    ASSUME TypeOK, NEW to \in Status, Record(to)
    PROVE  /\ version' \in Nat /\ status' \in Status
           /\ ledger' \in [reached : Nat, status : Status, contiguous : BOOLEAN]
  BY DEF TypeOK, Record

\* Every variable keeps its type in every step.
LEMMA TypeStep == ASSUME TypeOK, [Next]_vars PROVE TypeOK'
<1> USE DEF runVars, stateVars, checkpointVars, iterationVars, contentVars
<1>1. CASE Tick
  BY <1>1 DEF Tick, TypeOK
<1>2. CASE Command
  <2> PICK a \in Actors :
        \/ Approve(a) \/ StartPaused(a) \/ CancelIdle(a)
        \/ \E ttl \in Ttls : Start(a, ttl) \/ Resume(a, ttl)
    BY <1>2 DEF Command
  <2>1. CASE Approve(a)
    BY <2>1, RecordType DEF Approve, Transition, TypeOK, Status
  <2>2. CASE StartPaused(a)
    BY <2>2, RecordType DEF StartPaused, Transition, TypeOK, Status
  <2>3. CASE CancelIdle(a)
    BY <2>3, RecordType DEF CancelIdle, Transition, TypeOK, Status
  <2>4. ASSUME NEW ttl \in Ttls, Start(a, ttl) PROVE TypeOK'
    BY <2>4, RecordType, GrantedType DEF Start, Transition, TypeOK, Status
  <2>5. ASSUME NEW ttl \in Ttls, Resume(a, ttl) PROVE TypeOK'
    BY <2>5, RecordType, GrantedType DEF Resume, Transition, TypeOK, Status
  <2> QED BY <2>1, <2>2, <2>3, <2>4, <2>5
<1>3. CASE LeaseStep
  <2> PICK a \in Actors, ttl \in Ttls :
        \/ AcquireLease(a, ttl)
        \/ ClaimRunnerLease(a, ttl)
        \/ \E r \in Actors : HandoffApproved(a, r, ttl) \/ HandoffExpired(a, r, ttl)
    BY <1>3 DEF LeaseStep
  <2>1. CASE AcquireLease(a, ttl)
    BY <2>1, GrantedType DEF AcquireLease, TypeOK
  <2>2. CASE ClaimRunnerLease(a, ttl)
    BY <2>2, NowType, TtlsAssumption DEF ClaimRunnerLease, TypeOK, LeaseRow
  <2>3. ASSUME NEW r \in Actors, HandoffApproved(a, r, ttl) PROVE TypeOK'
    BY <2>3, RecordType, GrantedType DEF HandoffApproved, Transition, TypeOK, Status
  <2>4. ASSUME NEW r \in Actors, HandoffExpired(a, r, ttl) PROVE TypeOK'
    BY <2>4, NowType, TtlsAssumption DEF HandoffExpired, TypeOK, LeaseRow
  <2> QED BY <2>1, <2>2, <2>3, <2>4
<1>4. CASE FencedStep
  <2> PICK a \in Actors, k \in 0..MaxToken :
        \/ Pause(a, k) \/ CancelRunning(a, k) \/ ReleaseLease(a, k)
        \/ \E ttl \in Ttls \cup {0} : RenewLease(a, k, ttl)
        \/ \E r \in Actors, ttl \in Ttls : HandoffHeld(a, r, k, ttl)
        \/ \E round \in RoundTypes : BeginIteration(a, k, round)
        \/ \E outcome \in {"completed", "aborted"} : FinishIteration(a, k, outcome)
        \/ \E new \in {graph, graph + 1} : ApplyChangeSet(a, k, new)
        \/ SaveResearchState(a, k) \/ RehydrateRun(a, k) \/ CreateCheckpoint(a, k)
        \/ PersistCompletion(a, k)
    BY <1>4 DEF FencedStep
  <2>0. k \in Nat
    BY BoundsAssumption
  <2> USE <2>0
  <2>1. CASE Pause(a, k)
    BY <2>1, RecordType, GivenBackType DEF Pause, FencedWrite, Transition, TypeOK, Status
  <2>2. CASE CancelRunning(a, k)
    BY <2>2, RecordType, GivenBackType DEF CancelRunning, FencedWrite, Transition, TypeOK, Status
  <2>3. CASE ReleaseLease(a, k)
    BY <2>3, GivenBackType DEF ReleaseLease, FencedWrite, TypeOK
  <2>4. ASSUME NEW ttl \in Ttls \cup {0}, RenewLease(a, k, ttl) PROVE TypeOK'
    BY <2>4, TtlsAssumption DEF RenewLease, FencedWrite, TypeOK, LeaseRow
  <2>5. ASSUME NEW r \in Actors, NEW ttl \in Ttls, HandoffHeld(a, r, k, ttl) PROVE TypeOK'
    BY <2>5, NowType, TtlsAssumption DEF HandoffHeld, FencedWrite, TypeOK, LeaseRow
  <2>6. ASSUME NEW round \in RoundTypes, BeginIteration(a, k, round) PROVE TypeOK'
    BY <2>6, RecordType DEF BeginIteration, FencedWrite, TypeOK
  <2>7. ASSUME NEW outcome \in {"completed", "aborted"}, FinishIteration(a, k, outcome)
        PROVE  TypeOK'
    <3>1. outcomes' \in [rounds : SUBSET (RoundTypes \cup {"none"}), last : Nat, prev : Nat]
      BY <2>7 DEF FinishIteration, TypeOK
    <3>2. iteration' \in [open : BOOLEAN, round : RoundTypes \cup {"none"},
                          input : Nat, changed : BOOLEAN]
      BY <2>7 DEF FinishIteration, NoIteration, NoHash
    <3> QED
      BY <2>7, <3>1, <3>2, RecordType DEF FinishIteration, FencedWrite, TypeOK
  <2>8. ASSUME NEW new \in {graph, graph + 1}, ApplyChangeSet(a, k, new) PROVE TypeOK'
    <3>1. new \in Nat
      BY <2>8 DEF TypeOK
    <3>2. checkpoint' \in [lineage : Nat, hash : Nat] /\ runCheckpoint' \in Nat
      BY <2>8, <3>1 DEF ApplyChangeSet, TypeOK
    <3>3. iteration' \in [open : BOOLEAN, round : RoundTypes \cup {"none"},
                          input : Nat, changed : BOOLEAN]
      BY <2>8 DEF ApplyChangeSet, TypeOK
    <3> QED
      BY <2>8, <3>1, <3>2, <3>3, RecordType DEF ApplyChangeSet, FencedWrite, TypeOK
  <2>9. CASE SaveResearchState(a, k)
    BY <2>9, RecordType DEF SaveResearchState, FencedWrite, TypeOK
  <2>10. CASE RehydrateRun(a, k)
    BY <2>10, RecordType DEF RehydrateRun, FencedWrite, TypeOK
  <2>11. CASE CreateCheckpoint(a, k)
    BY <2>11, RecordType DEF CreateCheckpoint, FencedWrite, TypeOK
  <2>12. CASE PersistCompletion(a, k)
    BY <2>12, RecordType, GivenBackType DEF PersistCompletion, FencedWrite, Transition, TypeOK,
                                            Status
  <2> QED BY <2>1, <2>2, <2>3, <2>4, <2>5, <2>6, <2>7, <2>8, <2>9, <2>10, <2>11, <2>12
<1>5. CASE UNCHANGED vars
  BY <1>5 DEF vars, TypeOK
<1> QED BY <1>1, <1>2, <1>3, <1>4, <1>5 DEF Next

\* The variables of every reachable state have their types.
THEOREM TypeCorrect == Spec => []TypeOK
<1>1. Init => TypeOK
  BY DEF Init, TypeOK, Status, LeaseRow, NoIteration, NoHash
<1>2. TypeOK /\ [Next]_vars => TypeOK'
  BY TypeStep
<1> QED BY <1>1, <1>2, PTL DEF Spec


(***************************************************************************)
(* A live lease means a running run                                        *)
(***************************************************************************)

\* A lease given back at a past `now` is not live.
LEMMA GivenBackIsDead ==
    ASSUME TypeOK, NEW now \in Now, lease' = GivenBack(now), clock' = clock
    PROVE  ~Live'
<1>1. lease'.expires = now
  BY DEF GivenBack
<1>2. now \in Nat /\ now <= clock
  BY NowType DEF TypeOK
<1> QED BY <1>1, <1>2 DEF Live, TypeOK

\* No step leaves or makes a lease live while the run is not running.
LEMMA LiveStep ==
    ASSUME TypeOK, LiveOnlyWhileRunning, [Next]_vars
    PROVE  LiveOnlyWhileRunning'
<1> USE DEF LiveOnlyWhileRunning, runVars, contentVars
<1>1. CASE Tick
  BY <1>1 DEF Tick, Live, TypeOK, LeaseRow
<1>2. CASE Command
  <2> PICK a \in Actors :
        \/ Approve(a) \/ StartPaused(a) \/ CancelIdle(a)
        \/ \E ttl \in Ttls : Start(a, ttl) \/ Resume(a, ttl)
    BY <1>2 DEF Command
  <2>1. CASE Approve(a)
    BY <2>1 DEF Approve, Transition, Record, Live
  <2>2. CASE StartPaused(a)
    BY <2>2 DEF StartPaused, Transition, Record
  <2>3. CASE CancelIdle(a)
    BY <2>3 DEF CancelIdle, Live
  <2>4. ASSUME NEW ttl \in Ttls, Start(a, ttl) \/ Resume(a, ttl)
        PROVE  LiveOnlyWhileRunning'
    BY <2>4 DEF Start, Resume, Transition, Record
  <2> QED BY <2>1, <2>2, <2>3, <2>4
<1>3. CASE LeaseStep
  <2> PICK a \in Actors, ttl \in Ttls :
        \/ AcquireLease(a, ttl)
        \/ ClaimRunnerLease(a, ttl)
        \/ \E r \in Actors : HandoffApproved(a, r, ttl) \/ HandoffExpired(a, r, ttl)
    BY <1>3 DEF LeaseStep
  <2>1. CASE AcquireLease(a, ttl)
    BY <2>1 DEF AcquireLease
  <2>2. CASE ClaimRunnerLease(a, ttl)
    BY <2>2 DEF ClaimRunnerLease
  <2>3. ASSUME NEW r \in Actors, HandoffApproved(a, r, ttl) \/ HandoffExpired(a, r, ttl)
        PROVE  LiveOnlyWhileRunning'
    BY <2>3 DEF HandoffApproved, HandoffExpired, Transition, Record
  <2> QED BY <2>1, <2>2, <2>3
<1>4. CASE FencedStep
  <2> PICK a \in Actors, k \in 0..MaxToken :
        \/ Pause(a, k) \/ CancelRunning(a, k) \/ ReleaseLease(a, k)
        \/ \E ttl \in Ttls \cup {0} : RenewLease(a, k, ttl)
        \/ \E r \in Actors, ttl \in Ttls : HandoffHeld(a, r, k, ttl)
        \/ \E round \in RoundTypes : BeginIteration(a, k, round)
        \/ \E outcome \in {"completed", "aborted"} : FinishIteration(a, k, outcome)
        \/ \E new \in {graph, graph + 1} : ApplyChangeSet(a, k, new)
        \/ SaveResearchState(a, k) \/ RehydrateRun(a, k) \/ CreateCheckpoint(a, k)
        \/ PersistCompletion(a, k)
    BY <1>4 DEF FencedStep
  <2>1. CASE Pause(a, k) \/ CancelRunning(a, k) \/ ReleaseLease(a, k) \/ PersistCompletion(a, k)
    BY <2>1, GivenBackIsDead DEF Pause, CancelRunning, ReleaseLease, PersistCompletion
  <2>2. ASSUME NEW ttl \in Ttls \cup {0}, RenewLease(a, k, ttl) PROVE LiveOnlyWhileRunning'
    BY <2>2 DEF RenewLease
  <2>3. ASSUME NEW r \in Actors, NEW ttl \in Ttls, HandoffHeld(a, r, k, ttl)
        PROVE  LiveOnlyWhileRunning'
    BY <2>3 DEF HandoffHeld
  <2>4. ASSUME NEW round \in RoundTypes, BeginIteration(a, k, round)
        PROVE  LiveOnlyWhileRunning'
    BY <2>4 DEF BeginIteration, Record
  <2>5. ASSUME NEW outcome \in {"completed", "aborted"}, FinishIteration(a, k, outcome)
        PROVE  LiveOnlyWhileRunning'
    BY <2>5 DEF FinishIteration, Record
  <2>6. ASSUME NEW new \in {graph, graph + 1}, ApplyChangeSet(a, k, new)
        PROVE  LiveOnlyWhileRunning'
    BY <2>6 DEF ApplyChangeSet, Record
  <2>7. CASE SaveResearchState(a, k) \/ RehydrateRun(a, k) \/ CreateCheckpoint(a, k)
    BY <2>7 DEF SaveResearchState, RehydrateRun, CreateCheckpoint, Record, Live
  <2> QED BY <2>1, <2>2, <2>3, <2>4, <2>5, <2>6, <2>7
<1>5. CASE UNCHANGED vars
  BY <1>5 DEF vars, Live
<1> QED BY <1>1, <1>2, <1>3, <1>4, <1>5 DEF Next

\* In every reachable state a live lease belongs to a running run, so that
\* create_checkpoint, which looks only at the lease, writes only to one.
THEOREM LiveOnlyWhileRunningHolds == Spec => []LiveOnlyWhileRunning
<1>1. Init => LiveOnlyWhileRunning
  BY DEF Init, LiveOnlyWhileRunning, Live
<1>2. TypeOK /\ LiveOnlyWhileRunning /\ [Next]_vars => LiveOnlyWhileRunning'
  BY LiveStep
<1> QED BY <1>1, <1>2, TypeCorrect, PTL DEF Spec

(***************************************************************************)
(* The tables agree with each other                                        *)
(***************************************************************************)

\* A recorded step from a consistent ledger leaves a consistent ledger.
LEMMA LedgerStep ==
    ASSUME TypeOK, NEW to, Record(to),
           ledger = [reached |-> version, status |-> status, contiguous |-> TRUE]
    PROVE  ledger' = [reached |-> version', status |-> status', contiguous |-> TRUE]
  BY DEF Record

\* VerifyRunOK is not inductive by itself: it would let an approval be
\* consumed twice in a run that was approved before its status said so.
Consistent ==
    /\ VerifyRunOK
    /\ status = "AWAITING_START_APPROVAL" => approvals = 0

\* No step makes two tables disagree.
LEMMA VerifyStep ==
    ASSUME TypeOK, Consistent, [Next]_vars
    PROVE  Consistent'
<1> USE DEF Consistent, VerifyRunOK, runVars, stateVars, checkpointVars, iterationVars, contentVars
<1>1. CASE Tick
  BY <1>1 DEF Tick
<1>2. CASE Command
  <2> PICK a \in Actors :
        \/ Approve(a) \/ StartPaused(a) \/ CancelIdle(a)
        \/ \E ttl \in Ttls : Start(a, ttl) \/ Resume(a, ttl)
    BY <1>2 DEF Command
  <2>1. CASE Approve(a)
    BY <2>1, LedgerStep DEF Approve, Transition, Record
  <2>2. CASE StartPaused(a)
    BY <2>2, LedgerStep DEF StartPaused, Transition, Record
  <2>3. CASE CancelIdle(a)
    BY <2>3, LedgerStep DEF CancelIdle, Transition, Record
  <2>4. ASSUME NEW ttl \in Ttls, Start(a, ttl) \/ Resume(a, ttl) PROVE Consistent'
    BY <2>4, LedgerStep DEF Start, Resume, Transition, Record
  <2> QED BY <2>1, <2>2, <2>3, <2>4
<1>3. CASE LeaseStep
  <2> PICK a \in Actors, ttl \in Ttls :
        \/ AcquireLease(a, ttl)
        \/ ClaimRunnerLease(a, ttl)
        \/ \E r \in Actors : HandoffApproved(a, r, ttl) \/ HandoffExpired(a, r, ttl)
    BY <1>3 DEF LeaseStep
  <2>1. CASE AcquireLease(a, ttl) \/ ClaimRunnerLease(a, ttl)
    BY <2>1 DEF AcquireLease, ClaimRunnerLease
  <2>2. ASSUME NEW r \in Actors, HandoffApproved(a, r, ttl) PROVE Consistent'
    BY <2>2, LedgerStep DEF HandoffApproved, Transition, Record
  <2>3. ASSUME NEW r \in Actors, HandoffExpired(a, r, ttl) PROVE Consistent'
    BY <2>3 DEF HandoffExpired
  <2> QED BY <2>1, <2>2, <2>3
<1>4. CASE FencedStep
  <2> PICK a \in Actors, k \in 0..MaxToken :
        \/ Pause(a, k) \/ CancelRunning(a, k) \/ ReleaseLease(a, k)
        \/ \E ttl \in Ttls \cup {0} : RenewLease(a, k, ttl)
        \/ \E r \in Actors, ttl \in Ttls : HandoffHeld(a, r, k, ttl)
        \/ \E round \in RoundTypes : BeginIteration(a, k, round)
        \/ \E outcome \in {"completed", "aborted"} : FinishIteration(a, k, outcome)
        \/ \E new \in {graph, graph + 1} : ApplyChangeSet(a, k, new)
        \/ SaveResearchState(a, k) \/ RehydrateRun(a, k) \/ CreateCheckpoint(a, k)
        \/ PersistCompletion(a, k)
    BY <1>4 DEF FencedStep
  <2>1. CASE Pause(a, k) \/ CancelRunning(a, k) \/ PersistCompletion(a, k)
    BY <2>1, LedgerStep DEF Pause, CancelRunning, PersistCompletion, Transition, Record
  <2>2. CASE ReleaseLease(a, k)
    BY <2>2 DEF ReleaseLease
  <2>3. ASSUME NEW ttl \in Ttls \cup {0}, RenewLease(a, k, ttl) PROVE Consistent'
    BY <2>3 DEF RenewLease
  <2>4. ASSUME NEW r \in Actors, NEW ttl \in Ttls, HandoffHeld(a, r, k, ttl) PROVE Consistent'
    BY <2>4 DEF HandoffHeld
  <2>5. ASSUME NEW round \in RoundTypes, BeginIteration(a, k, round) PROVE Consistent'
    BY <2>5, LedgerStep DEF BeginIteration, Record
  <2>6. ASSUME NEW outcome \in {"completed", "aborted"}, FinishIteration(a, k, outcome)
        PROVE  Consistent'
    BY <2>6, LedgerStep DEF FinishIteration, Record
  <2>7. ASSUME NEW new \in {graph, graph + 1}, ApplyChangeSet(a, k, new) PROVE Consistent'
    BY <2>7, LedgerStep DEF ApplyChangeSet, Record
  <2>8. CASE SaveResearchState(a, k) \/ RehydrateRun(a, k)
    BY <2>8, LedgerStep DEF SaveResearchState, RehydrateRun, Record
  <2>9. CASE CreateCheckpoint(a, k)
    BY <2>9, LedgerStep DEF CreateCheckpoint, Record
  <2> QED BY <2>1, <2>2, <2>3, <2>4, <2>5, <2>6, <2>7, <2>8, <2>9
<1>5. CASE UNCHANGED vars
  BY <1>5 DEF vars
<1> QED BY <1>1, <1>2, <1>3, <1>4, <1>5 DEF Next

\* In every reachable state what verify_run recomputes agrees with the rows.
THEOREM VerifyRunAlwaysOK == Spec => []VerifyRunOK
<1>1. Init => Consistent
  BY DEF Init, Consistent, VerifyRunOK
<1>2. TypeOK /\ Consistent /\ [Next]_vars => Consistent'
  BY VerifyStep
<1>3. Consistent => VerifyRunOK
  BY DEF Consistent
<1> QED BY <1>1, <1>2, <1>3, TypeCorrect, PTL DEF Spec

(***************************************************************************)
(* What a step may never do                                                *)
(***************************************************************************)

\* A step of a finished run is at most the passing of time.
LEMMA TerminalStep ==
    ASSUME TypeOK, LiveOnlyWhileRunning, status \in Terminal, [Next]_vars
    PROVE  UNCHANGED <<runVars, approvals, lease, contentVars>>
<1> USE DEF Terminal, LiveOnlyWhileRunning
<1>0. status # "RUNNING" /\ ~Live /\ Transitions[status] = {} /\ status # "APPROVED"
      /\ status # "PAUSED"
  BY DEF Transitions, Status, TypeOK
<1>1. CASE Tick
  BY <1>1 DEF Tick
<1>2. ~Command
  BY <1>0 DEF Command, Approve, Start, StartPaused, Resume, CancelIdle, Transition
<1>3. ~LeaseStep
  BY <1>0 DEF LeaseStep, AcquireLease, ClaimRunnerLease, HandoffApproved, HandoffExpired
<1>4. ~FencedStep
  BY <1>0 DEF FencedStep, Pause, CancelRunning, ReleaseLease, RenewLease, HandoffHeld,
              BeginIteration, FinishIteration, ApplyChangeSet, SaveResearchState,
              RehydrateRun, CreateCheckpoint, PersistCompletion, FencedWrite, Fenced
<1>5. CASE UNCHANGED vars
  BY <1>5 DEF vars
<1> QED BY <1>1, <1>2, <1>3, <1>4, <1>5 DEF Next

\* Once completed or cancelled, nothing of the run ever changes.
THEOREM FinishedRunsAreFrozen == Spec => TerminalIsFrozen
<1>1. TypeOK /\ LiveOnlyWhileRunning /\ [Next]_vars
        => [(status \in Terminal) => UNCHANGED <<runVars, approvals, lease, contentVars>>]_vars
  BY TerminalStep
<1> QED BY <1>1, TypeCorrect, LiveOnlyWhileRunningHolds, PTL DEF Spec, TerminalIsFrozen

\* Only persist_completion completes a run.
LEMMA CompletingStep ==
    ASSUME LiveOnlyWhileRunning, [Next]_vars, status # "COMPLETED", status' = "COMPLETED"
    PROVE  \E a \in Actors, k \in 0..MaxToken : PersistCompletion(a, k)
<1> USE DEF runVars
<1>1. ~Tick
  BY DEF Tick
<1>2. ~Command
  BY DEF Command, Approve, Start, StartPaused, Resume, CancelIdle, Transition, Record
<1>3. ~LeaseStep
  BY DEF LeaseStep, AcquireLease, ClaimRunnerLease, HandoffApproved, HandoffExpired,
         Transition, Record
<1>4. CASE FencedStep
  <2> PICK a \in Actors, k \in 0..MaxToken :
        \/ Pause(a, k) \/ CancelRunning(a, k) \/ ReleaseLease(a, k)
        \/ \E ttl \in Ttls \cup {0} : RenewLease(a, k, ttl)
        \/ \E r \in Actors, ttl \in Ttls : HandoffHeld(a, r, k, ttl)
        \/ \E round \in RoundTypes : BeginIteration(a, k, round)
        \/ \E outcome \in {"completed", "aborted"} : FinishIteration(a, k, outcome)
        \/ \E new \in {graph, graph + 1} : ApplyChangeSet(a, k, new)
        \/ SaveResearchState(a, k) \/ RehydrateRun(a, k) \/ CreateCheckpoint(a, k)
        \/ PersistCompletion(a, k)
    BY <1>4 DEF FencedStep
  <2>1. ~Pause(a, k) /\ ~CancelRunning(a, k) /\ ~ReleaseLease(a, k)
    BY DEF Pause, CancelRunning, ReleaseLease, Transition, Record
  <2>2. ~ \E ttl \in Ttls \cup {0} : RenewLease(a, k, ttl)
    BY DEF RenewLease
  <2>3. ~ \E r \in Actors, ttl \in Ttls : HandoffHeld(a, r, k, ttl)
    BY DEF HandoffHeld
  <2>4. ~ \E round \in RoundTypes : BeginIteration(a, k, round)
    BY DEF BeginIteration, Record
  <2>5. ~ \E outcome \in {"completed", "aborted"} : FinishIteration(a, k, outcome)
    BY DEF FinishIteration, Record
  <2>6. ~ \E new \in {graph, graph + 1} : ApplyChangeSet(a, k, new)
    BY DEF ApplyChangeSet, Record
  <2>7. ~SaveResearchState(a, k) /\ ~RehydrateRun(a, k) /\ ~CreateCheckpoint(a, k)
    BY DEF SaveResearchState, RehydrateRun, CreateCheckpoint, Record
  <2> QED BY <2>1, <2>2, <2>3, <2>4, <2>5, <2>6, <2>7
<1>5. ~UNCHANGED vars
  BY DEF vars
<1> QED BY <1>1, <1>2, <1>3, <1>4, <1>5 DEF Next

\* A completed run rests on two stable rounds at the state it ended in, and
\* stays so: nothing moves the state at completion or afterwards.
THEOREM CompletionIsStable == Spec => []CompletedIsStable
<1>1. Init => CompletedIsStable
  BY DEF Init, CompletedIsStable
<1>2. TypeOK /\ LiveOnlyWhileRunning /\ VerifyRunOK /\ CompletedIsStable /\ [Next]_vars
        => CompletedIsStable'
  <2> SUFFICES ASSUME TypeOK, LiveOnlyWhileRunning, VerifyRunOK, CompletedIsStable,
                      [Next]_vars, status' = "COMPLETED"
               PROVE  /\ outcomes'.last = graph' /\ outcomes'.prev = graph'
                      /\ RequiredRounds \subseteq outcomes'.rounds
    BY DEF CompletedIsStable
  <2> USE DEF contentVars, stateVars, iterationVars
  <2>1. CASE status = "COMPLETED"
    BY <2>1, TerminalStep DEF Terminal, CompletedIsStable
  <2>2. CASE status # "COMPLETED"
    <3>1. PICK a \in Actors, k \in 0..MaxToken : PersistCompletion(a, k)
      BY <2>2, CompletingStep
    <3>2. HistoryStable /\ graph' = graph /\ outcomes' = outcomes
      BY <3>1 DEF PersistCompletion
    <3> QED BY <3>2 DEF HistoryStable, VerifyRunOK
  <2> QED BY <2>1, <2>2
<1> QED
  BY <1>1, <1>2, TypeCorrect, LiveOnlyWhileRunningHolds, VerifyRunAlwaysOK, PTL DEF Spec

\* Canonical content changes only under the newest token of a live lease, in
\* a running run.
THEOREM ContentChangesAreFenced == Spec => ContentIsFenced
<1> DEFINE Ok == contentVars' # contentVars
                   => /\ status = "RUNNING" /\ Live
                      /\ stamp' = lease.token
                      /\ lease'.token = lease.token
<1>1. ASSUME TypeOK, LiveOnlyWhileRunning, [Next]_vars PROVE Ok
  <2> SUFFICES ASSUME contentVars' # contentVars
               PROVE  /\ status = "RUNNING" /\ Live
                      /\ stamp' = lease.token
                      /\ lease'.token = lease.token
    OBVIOUS
  <2>1. ~Tick /\ ~Command /\ ~LeaseStep /\ ~UNCHANGED vars
    BY DEF Tick, Command, Approve, Start, StartPaused, Resume, CancelIdle, LeaseStep,
           AcquireLease, ClaimRunnerLease, HandoffApproved, HandoffExpired, vars
  <2>2. FencedStep
    BY <1>1, <2>1 DEF Next
  <2>3. PICK a \in Actors, k \in 0..MaxToken :
        \/ \E round \in RoundTypes : BeginIteration(a, k, round)
        \/ \E outcome \in {"completed", "aborted"} : FinishIteration(a, k, outcome)
        \/ \E new \in {graph, graph + 1} : ApplyChangeSet(a, k, new)
        \/ SaveResearchState(a, k) \/ RehydrateRun(a, k) \/ CreateCheckpoint(a, k)
    BY <2>2 DEF FencedStep, Pause, CancelRunning, ReleaseLease, RenewLease, HandoffHeld,
                PersistCompletion
  <2>4. FencedWrite(a, k) /\ lease' = lease
    BY <2>3 DEF BeginIteration, FinishIteration, ApplyChangeSet, SaveResearchState,
                RehydrateRun, CreateCheckpoint
  <2> QED BY <1>1, <2>4 DEF FencedWrite, Fenced, LiveOnlyWhileRunning
<1>2. TypeOK /\ LiveOnlyWhileRunning /\ [Next]_vars => [Ok]_vars
  BY <1>1
<1> QED BY <1>2, TypeCorrect, LiveOnlyWhileRunningHolds, PTL DEF Spec, ContentIsFenced

\* A lease row nobody owned yet has no expiry.
Unowned == lease.owner = NoActor => lease.expires = 0

\* A step leaves the lease alone, or an actor owns it afterwards.
LEMMA OwnerStep ==
    ASSUME TypeOK, Unowned, [Next]_vars
    PROVE  lease' = lease \/ lease'.owner \in Actors
<1>1. CASE Tick
  BY <1>1 DEF Tick
<1>2. CASE Command
  BY <1>2 DEF Command, Approve, StartPaused, CancelIdle, Start, Resume, Granted
<1>3. CASE LeaseStep
  <2> PICK a \in Actors, ttl \in Ttls :
        \/ AcquireLease(a, ttl)
        \/ ClaimRunnerLease(a, ttl)
        \/ \E r \in Actors : HandoffApproved(a, r, ttl) \/ HandoffExpired(a, r, ttl)
    BY <1>3 DEF LeaseStep
  <2>1. CASE AcquireLease(a, ttl)
    BY <2>1 DEF AcquireLease, Granted
  <2>2. CASE ClaimRunnerLease(a, ttl)
    BY <2>2 DEF ClaimRunnerLease, TypeOK, LeaseRow
  <2>3. CASE \E r \in Actors : HandoffApproved(a, r, ttl)
    BY <2>3 DEF HandoffApproved, Granted
  <2>4. CASE \E r \in Actors : HandoffExpired(a, r, ttl)
    BY <2>4 DEF HandoffExpired
  <2> QED BY <2>1, <2>2, <2>3, <2>4
<1>4. CASE FencedStep
  <2> PICK a \in Actors, k \in 0..MaxToken :
        \/ Pause(a, k) \/ CancelRunning(a, k) \/ ReleaseLease(a, k)
        \/ \E ttl \in Ttls \cup {0} : RenewLease(a, k, ttl)
        \/ \E r \in Actors, ttl \in Ttls : HandoffHeld(a, r, k, ttl)
        \/ \E round \in RoundTypes : BeginIteration(a, k, round)
        \/ \E outcome \in {"completed", "aborted"} : FinishIteration(a, k, outcome)
        \/ \E new \in {graph, graph + 1} : ApplyChangeSet(a, k, new)
        \/ SaveResearchState(a, k) \/ RehydrateRun(a, k) \/ CreateCheckpoint(a, k)
        \/ PersistCompletion(a, k)
    BY <1>4 DEF FencedStep
  <2>1. CASE Pause(a, k) \/ CancelRunning(a, k) \/ ReleaseLease(a, k) \/ PersistCompletion(a, k)
    BY <2>1 DEF Pause, CancelRunning, ReleaseLease, PersistCompletion, GivenBack,
                FencedWrite, Fenced
  <2>2. CASE \E ttl \in Ttls \cup {0} : RenewLease(a, k, ttl)
    BY <2>2 DEF RenewLease, FencedWrite, Fenced, TypeOK, LeaseRow
  <2>3. CASE \E r \in Actors, ttl \in Ttls : HandoffHeld(a, r, k, ttl)
    BY <2>3 DEF HandoffHeld
  <2>4. CASE \/ \E round \in RoundTypes : BeginIteration(a, k, round)
             \/ \E outcome \in {"completed", "aborted"} : FinishIteration(a, k, outcome)
             \/ \E new \in {graph, graph + 1} : ApplyChangeSet(a, k, new)
             \/ SaveResearchState(a, k) \/ RehydrateRun(a, k) \/ CreateCheckpoint(a, k)
    BY <2>4 DEF BeginIteration, FinishIteration, ApplyChangeSet, SaveResearchState,
                RehydrateRun, CreateCheckpoint
  <2> QED BY <2>1, <2>2, <2>3, <2>4
<1>5. CASE UNCHANGED vars
  BY <1>5 DEF vars
<1> QED BY <1>1, <1>2, <1>3, <1>4, <1>5 DEF Next

\* Taking over somebody's live, unreleased lease is refused by everything
\* but the handoff its holder makes.
LEMMA EvictionStep ==
    ASSUME TypeOK, Unowned, [Next]_vars,
           lease.owner' # lease.owner, Live, ~lease.released
    PROVE  lease.owner \in Admins /\ stamp' = lease.token /\ lease'.handed
<1>0. lease.owner # NoActor
  BY DEF Unowned, Live, TypeOK
<1>1. \A a \in Actors : MayAcquire(a) => lease.owner = a
  BY <1>0 DEF MayAcquire
<1>2. ~Tick /\ ~UNCHANGED vars
  BY DEF Tick, vars
<1>3. ~Command
  BY <1>1 DEF Command, Approve, StartPaused, CancelIdle, Start, Resume, Granted
<1>4. ~LeaseStep
  <2>1. ASSUME NEW a \in Actors, NEW ttl \in Ttls PROVE ~AcquireLease(a, ttl)
    BY <1>1 DEF AcquireLease, Granted
  <2>2. ASSUME NEW a \in Actors, NEW ttl \in Ttls PROVE ~ClaimRunnerLease(a, ttl)
    BY DEF ClaimRunnerLease, TypeOK, LeaseRow
  <2>3. ASSUME NEW a \in Actors, NEW r \in Actors, NEW ttl \in Ttls
        PROVE  ~HandoffApproved(a, r, ttl)
    BY <1>1 DEF HandoffApproved, Granted
  <2>4. ASSUME NEW a \in Actors, NEW r \in Actors, NEW ttl \in Ttls
        PROVE  ~HandoffExpired(a, r, ttl)
    BY NowType DEF HandoffExpired, Live, TypeOK, LeaseRow
  <2> QED BY <2>1, <2>2, <2>3, <2>4 DEF LeaseStep
<1>5. FencedStep
  BY <1>2, <1>3, <1>4 DEF Next
<1>6. PICK a \in Actors, k \in 0..MaxToken : \E r \in Actors, ttl \in Ttls : HandoffHeld(a, r,
k, ttl)
  <2>1. \A a \in Actors, k \in 0..MaxToken :
          ~Pause(a, k) /\ ~CancelRunning(a, k) /\ ~ReleaseLease(a, k) /\ ~PersistCompletion(a, k)
    BY DEF Pause, CancelRunning, ReleaseLease, PersistCompletion, GivenBack
  <2>2. \A a \in Actors, k \in 0..MaxToken, ttl \in Ttls \cup {0} : ~RenewLease(a, k, ttl)
    BY DEF RenewLease, TypeOK, LeaseRow
  <2>3. \A a \in Actors, k \in 0..MaxToken :
          /\ \A round \in RoundTypes : ~BeginIteration(a, k, round)
          /\ \A outcome \in {"completed", "aborted"} : ~FinishIteration(a, k, outcome)
          /\ \A new \in {graph, graph + 1} : ~ApplyChangeSet(a, k, new)
          /\ ~SaveResearchState(a, k) /\ ~RehydrateRun(a, k) /\ ~CreateCheckpoint(a, k)
    BY DEF BeginIteration, FinishIteration, ApplyChangeSet, SaveResearchState,
           RehydrateRun, CreateCheckpoint
  <2> QED BY <1>5, <2>1, <2>2, <2>3 DEF FencedStep
<1> QED BY <1>6 DEF HandoffHeld, FencedWrite, Fenced

\* A waiting taker cannot evict the holder of a live lease it did not give
\* back, however stale the `now` it read before it waited.
THEOREM HoldersAreNotEvicted == Spec => NoEviction
<1>1. Init => Unowned
  BY DEF Init, Unowned
<1>2. TypeOK /\ Unowned /\ [Next]_vars => Unowned'
  BY OwnerStep, ActorsAssumption DEF Unowned
<1>3. TypeOK /\ Unowned /\ [Next]_vars
        => [lease.owner' # lease.owner /\ Live /\ ~lease.released
              => lease.owner \in Admins /\ stamp' = lease.token /\ lease'.handed]_vars
  BY EvictionStep
<1> QED BY <1>1, <1>2, <1>3, TypeCorrect, PTL DEF Spec, NoEviction

(***************************************************************************)
(* The lease implements FencingLease                                       *)
(***************************************************************************)

\* A fenced write that leaves the lease's token and owner alone is a Write.
LEMMA WriteMapsToWrite ==
    ASSUME NEW a, NEW k, FencedWrite(a, k),
           lease'.token = lease.token, lease'.owner = lease.owner
    PROVE  Fencing!Write
  BY DEF FencedWrite, Fenced, Fencing!Write, Live

\* A step that installs a larger token for an actor is an Issue.
LEMMA GrantMapsToIssue ==
    ASSUME TypeOK', lease'.token > lease.token, lease'.owner \in Actors, stamp' = stamp
    PROVE  Fencing!Issue
<1>1. lease'.token \in Nat
  BY DEF TypeOK, LeaseRow
<1> QED BY <1>1 DEF Fencing!Issue, Live

\* Every step of the run is a step of the abstract lease, or none.
LEMMA FencingStep ==
    ASSUME TypeOK, TypeOK', [Next]_vars
    PROVE  [Fencing!Next]_(Fencing!leaseVars)
<1> USE DEF Fencing!Next, Fencing!leaseVars
<1>1. CASE Tick
  <2>1. lease' = lease /\ stamp' = stamp /\ (Live' => Live)
    BY <1>1 DEF Tick, Live, TypeOK, LeaseRow
  <2>2. CASE Live /\ ~Live'
    BY <2>1, <2>2 DEF Fencing!Lapse, Live
  <2>3. CASE Live <=> Live'
    BY <2>1, <2>3 DEF Live
  <2> QED BY <2>1, <2>2, <2>3
<1>2. CASE Command
  <2> PICK a \in Actors :
        \/ Approve(a) \/ StartPaused(a) \/ CancelIdle(a)
        \/ \E ttl \in Ttls : Start(a, ttl) \/ Resume(a, ttl)
    BY <1>2 DEF Command
  <2>1. CASE Approve(a) \/ StartPaused(a) \/ CancelIdle(a)
    <3>1. lease' = lease /\ stamp' = stamp /\ clock' = clock
      BY <2>1 DEF Approve, StartPaused, CancelIdle
    <3> QED BY <3>1 DEF Live
  <2>2. ASSUME NEW ttl \in Ttls, Start(a, ttl) \/ Resume(a, ttl) PROVE Fencing!Issue
    <3>1. lease' = Granted(a, ttl) /\ stamp' = stamp
      BY <2>2 DEF Start, Resume
    <3>2. lease'.token > lease.token /\ lease'.owner \in Actors
      BY <3>1 DEF Granted, TypeOK, LeaseRow
    <3> QED BY <3>1, <3>2, GrantMapsToIssue
  <2> QED BY <2>1, <2>2
<1>3. CASE LeaseStep
  <2> PICK a \in Actors, ttl \in Ttls :
        \/ AcquireLease(a, ttl)
        \/ ClaimRunnerLease(a, ttl)
        \/ \E r \in Actors : HandoffApproved(a, r, ttl) \/ HandoffExpired(a, r, ttl)
    BY <1>3 DEF LeaseStep
  <2>1. CASE AcquireLease(a, ttl)
    <3>1. lease' = Granted(a, ttl) /\ stamp' = stamp
      BY <2>1 DEF AcquireLease
    <3>2. lease'.token > lease.token /\ lease'.owner \in Actors
      BY <3>1 DEF Granted, TypeOK, LeaseRow
    <3> QED BY <3>1, <3>2, GrantMapsToIssue
  <2>2. CASE ClaimRunnerLease(a, ttl)
    <3>1. /\ lease'.token = lease.token /\ lease'.owner = lease.owner
          /\ stamp' = stamp /\ lease.owner # NoActor
      BY <2>2, ActorsAssumption DEF ClaimRunnerLease, Runners, TypeOK, LeaseRow
    <3>2. CASE Live /\ ~Live'
      BY <3>1, <3>2 DEF Fencing!Lapse, Live
    <3>3. CASE ~Live /\ Live'
      BY <3>1, <3>3 DEF Fencing!Revive, Live
    <3>4. CASE Live <=> Live'
      BY <3>1, <3>4 DEF Live
    <3> QED BY <3>2, <3>3, <3>4
  <2>3. ASSUME NEW r \in Actors, HandoffApproved(a, r, ttl) PROVE Fencing!Issue
    <3>1. lease' = [Granted(r, ttl) EXCEPT !.handed = TRUE] /\ stamp' = stamp
      BY <2>3 DEF HandoffApproved
    <3>2. lease'.token > lease.token /\ lease'.owner \in Actors
      BY <3>1 DEF Granted, TypeOK, LeaseRow
    <3> QED BY <3>1, <3>2, GrantMapsToIssue
  <2>4. ASSUME NEW r \in Actors, HandoffExpired(a, r, ttl) PROVE Fencing!Issue
    <3>1. lease'.token > lease.token /\ lease'.owner \in Actors /\ stamp' = stamp
      BY <2>4 DEF HandoffExpired, TypeOK, LeaseRow
    <3> QED BY <3>1, GrantMapsToIssue
  <2> QED BY <2>1, <2>2, <2>3, <2>4
<1>4. CASE FencedStep
  <2> PICK a \in Actors, k \in 0..MaxToken :
        \/ Pause(a, k) \/ CancelRunning(a, k) \/ ReleaseLease(a, k)
        \/ \E ttl \in Ttls \cup {0} : RenewLease(a, k, ttl)
        \/ \E r \in Actors, ttl \in Ttls : HandoffHeld(a, r, k, ttl)
        \/ \E round \in RoundTypes : BeginIteration(a, k, round)
        \/ \E outcome \in {"completed", "aborted"} : FinishIteration(a, k, outcome)
        \/ \E new \in {graph, graph + 1} : ApplyChangeSet(a, k, new)
        \/ SaveResearchState(a, k) \/ RehydrateRun(a, k) \/ CreateCheckpoint(a, k)
        \/ PersistCompletion(a, k)
    BY <1>4 DEF FencedStep
  <2>1. CASE Pause(a, k) \/ CancelRunning(a, k) \/ ReleaseLease(a, k) \/ PersistCompletion(a, k)
    BY <2>1, WriteMapsToWrite
       DEF Pause, CancelRunning, ReleaseLease, PersistCompletion, GivenBack
  <2>2. ASSUME NEW ttl \in Ttls \cup {0}, RenewLease(a, k, ttl) PROVE Fencing!Write
    BY <2>2, WriteMapsToWrite DEF RenewLease, TypeOK, LeaseRow
  <2>3. ASSUME NEW r \in Actors, NEW ttl \in Ttls, HandoffHeld(a, r, k, ttl)
        PROVE  Fencing!WriteAndIssue
    <3>1. /\ Live /\ stamp' = lease.token
          /\ lease'.token = lease.token + 1 /\ lease'.owner \in Actors
      BY <2>3 DEF HandoffHeld, FencedWrite, Fenced
    <3>2. lease'.token \in Nat /\ lease'.token > lease.token
      BY <3>1 DEF TypeOK, LeaseRow
    <3> QED BY <3>1, <3>2 DEF Fencing!WriteAndIssue, Live
  <2>4. ASSUME NEW round \in RoundTypes, BeginIteration(a, k, round) PROVE Fencing!Write
    BY <2>4, WriteMapsToWrite DEF BeginIteration
  <2>5. ASSUME NEW outcome \in {"completed", "aborted"}, FinishIteration(a, k, outcome)
        PROVE  Fencing!Write
    BY <2>5, WriteMapsToWrite DEF FinishIteration
  <2>6. ASSUME NEW new \in {graph, graph + 1}, ApplyChangeSet(a, k, new) PROVE Fencing!Write
    BY <2>6, WriteMapsToWrite DEF ApplyChangeSet
  <2>7. CASE SaveResearchState(a, k) \/ RehydrateRun(a, k) \/ CreateCheckpoint(a, k)
    BY <2>7, WriteMapsToWrite DEF SaveResearchState, RehydrateRun, CreateCheckpoint
  <2> QED BY <2>1, <2>2, <2>3, <2>4, <2>5, <2>6, <2>7
<1>5. CASE UNCHANGED vars
  BY <1>5 DEF vars, Live
<1> QED BY <1>1, <1>2, <1>3, <1>4, <1>5 DEF Next

\* The lease of a run implements the abstract fencing lease: tokens only
\* grow, a token never has two holders, and no write is accepted under a
\* token older than the newest one issued.
THEOREM RunImplementsFencingLease == Spec => ImplementsFencingLease
<1>1. Init => Fencing!Init
  BY DEF Init, Fencing!Init, Live
<1>2. TypeOK /\ TypeOK' /\ [Next]_vars => [Fencing!Next]_(Fencing!leaseVars)
  BY FencingStep
<1> QED BY <1>1, <1>2, TypeCorrect, PTL DEF Spec, ImplementsFencingLease, Fencing!Spec

=============================================================================
