---------------------------- MODULE RunnerProofs ----------------------------
(***************************************************************************)
(* Proofs about the runner: its invocations by several processes, for any  *)
(* processes, sessions, lease lengths and lock waits, and its call groups, *)
(* for any number of calls, responses, capabilities and bounds.            *)
(*                                                                         *)
(* That the claim of an invocation is a mutex follows from one inductive   *)
(* invariant: whoever works holds the latest claim, and it has not         *)
(* expired.  What holds of a call group follows from the places the        *)
(* process can be in and the order in which a call is settled.             *)
(*                                                                         *)
(* And about what AgentPortability attributes to the runner's calls, for   *)
(* any hosts, backends, models and bounds, and about the budget ledger,    *)
(* for any limits, reservation, bills and bounds: that follows from what   *)
(* one entry more changes in the sums over the ledger, and from the order  *)
(* in which the entries of one iteration are posted.                       *)
(***************************************************************************)
EXTENDS RunnerCall, RunnerInvocation, AgentPortability, BudgetLedger, SequenceTheorems,
        WellFoundedInduction, TLAPS

(***************************************************************************)
(* RunnerInvocation                                                        *)
(***************************************************************************)
\* What the module assumes of its constants; MCRunner assumes the same of their
\* values, which TLC evaluates there.
InvocationAssumptions ==
    ProcsAssumption /\ TimesAssumption /\ InvocationBoundsAssumption

\* Time passing keeps an instant between its bounds.
LEMMA LaterType ==
    ASSUME TimesAssumption, NEW left \in Left
    PROVE  Later(left) \in Left
  BY DEF TimesAssumption, Left, Later

\* What a method takes its `now` to be keeps the instants it writes in bounds.
LEMMA LagType ==
    ASSUME TimesAssumption, NEW lag \in Lag
    PROVE  /\ lag \in Nat
           /\ Ttl - lag \in Left /\ Ttl - lag > 0
           /\ -lag \in Left /\ Ttl \in Left /\ 0 \in Left
  BY DEF TimesAssumption, Left, Lag

\* Every variable keeps its type in every step.
LEMMA InvocationTypeStep ==
    ASSUME InvocationAssumptions, InvocationTypeOK, [InvocationNext]_invocationVars
    PROVE  InvocationTypeOK'
<1> USE DEF InvocationAssumptions, runNextVars
<1>0. /\ Ttl \in Left /\ 0 \in Left /\ MaxToken \in Nat /\ MaxDeaths \in Nat
      /\ SessionOf \in [Procs -> Sessions]
  BY DEF TimesAssumption, InvocationBoundsAssumption, ProcsAssumption, Left
<1>1. CASE Tick
  <2>1. lease' \in [owner : Sessions \cup {Admin}, token : 1..MaxToken, left : Left]
    BY <1>1, LaterType DEF Tick, InvocationTypeOK
  <2>2. claim' \in [Procs -> Left]
    BY <1>1, LaterType DEF Tick, InvocationTypeOK
  <2> QED BY <1>1, <2>1, <2>2 DEF Tick, InvocationTypeOK
<1>2. CASE LeaseStep
  <2>1. ASSUME NEW to \in {"PAUSED", "CANCELLED", "COMPLETED"}, End(to)
        PROVE  InvocationTypeOK'
    BY <2>1, LagType DEF End, InvocationTypeOK
  <2>2. CASE CancelPaused
    BY <2>2 DEF CancelPaused, InvocationTypeOK
  <2>3. CASE ResumeRun
    BY <2>3, <1>0 DEF ResumeRun, InvocationTypeOK
  <2>4. ASSUME NEW o \in Sessions \cup {Admin}, AcquireLease(o)
        PROVE  InvocationTypeOK'
    BY <2>4, <1>0 DEF AcquireLease, InvocationTypeOK
  <2>5. ASSUME NEW s \in Sessions, HandOff(s)
        PROVE  InvocationTypeOK'
    <3> PICK lag \in Lag, tokens \in {1, 2} :
          /\ lease.token + tokens <= MaxToken
          /\ lease' = [owner |-> s, token |-> lease.token + tokens, left |-> Ttl - lag]
      BY <2>5 DEF HandOff
    <3> QED BY <2>5, <1>0, LagType DEF HandOff, InvocationTypeOK
  <2> QED BY <1>2, <2>1, <2>2, <2>3, <2>4, <2>5 DEF LeaseStep
<1>3. ASSUME NEW p \in Procs, RunNext(p)
      PROVE  InvocationTypeOK'
  <2>1. CASE RenewLease(p)
    <3> PICK lag \in Lag : lease' = [lease EXCEPT !.left = Ttl - lag]
      BY <2>1 DEF RenewLease
    <3>1. lease' \in [owner : Sessions \cup {Admin}, token : 1..MaxToken, left : Left]
      BY LagType DEF InvocationTypeOK
    <3>2. token' \in [Procs -> 0..MaxToken]
      BY <2>1, <1>0 DEF RenewLease, InvocationTypeOK
    <3> QED BY <2>1, <3>1, <3>2 DEF RenewLease, InvocationTypeOK
  <2>2. CASE ClaimInvocation(p)
    BY <2>2, LagType DEF ClaimInvocation, Claimed, InvocationTypeOK
  <2>3. CASE ClaimRefused(p)
    BY <2>3 DEF ClaimRefused, InvocationTypeOK
  <2>4. CASE ReleaseInvocation(p)
    BY <2>4, <1>0 DEF ReleaseInvocation, InvocationTypeOK
  <2>5. CASE ReleaseRefused(p)
    BY <2>5 DEF ReleaseRefused, InvocationTypeOK
  <2>6. CASE Dies(p)
    BY <2>6, <1>0 DEF Dies, InvocationTypeOK
  <2> QED BY <1>3, <2>1, <2>2, <2>3, <2>4, <2>5, <2>6 DEF RunNext
<1>4. CASE UNCHANGED invocationVars
  BY <1>4 DEF invocationVars, InvocationTypeOK
<1> QED BY <1>1, <1>2, <1>3, <1>4 DEF InvocationNext

\* The variables of every reachable state have their types.
THEOREM InvocationTypeCorrect ==
    ASSUME InvocationAssumptions
    PROVE  InvocationSpec => []InvocationTypeOK
<1>1. InvocationInit => InvocationTypeOK
  BY DEF InvocationInit, InvocationTypeOK, InvocationAssumptions, TimesAssumption,
         InvocationBoundsAssumption, Left
<1>2. InvocationTypeOK /\ [InvocationNext]_invocationVars => InvocationTypeOK'
  BY InvocationTypeStep
<1> QED BY <1>1, <1>2, PTL DEF InvocationSpec

\* Whoever works holds the latest claim, which has not expired: where work
\* ends before its claim does.
HoldsLatest == \A p \in Procs : Working(p) => latest = p /\ claim[p] > 0

\* No step breaks it.  A claim is not granted while a live one is the latest,
\* and only whoever holds the latest claim has one to release.
LEMMA HoldsLatestStep ==
    ASSUME InvocationAssumptions, Outlives = FALSE, InvocationTypeOK, HoldsLatest,
           [InvocationNext]_invocationVars
    PROVE  HoldsLatest'
<1> USE DEF InvocationAssumptions, HoldsLatest, Working
<1>1. CASE Tick
  <2> SUFFICES ASSUME NEW p \in Procs, Working(p)
               PROVE  latest = p /\ claim'[p] > 0
    BY <1>1 DEF Tick
  <2>1. claim[p] \in Int /\ claim[p] > 1 /\ claim'[p] = Later(claim[p])
    BY <1>1 DEF Tick, InvocationTypeOK, Left
  <2> QED BY <2>1 DEF Later
<1>2. CASE LeaseStep
  BY <1>2 DEF LeaseStep, End, CancelPaused, ResumeRun, AcquireLease, HandOff, runNextVars
<1>3. ASSUME NEW p \in Procs, RunNext(p)
      PROVE  HoldsLatest'
  <2>1. CASE RenewLease(p)
    BY <2>1 DEF RenewLease, InvocationTypeOK
  <2>2. CASE ClaimInvocation(p)
    <3> PICK lag \in Lag : ~Busy(lag) /\ claim' = [claim EXCEPT ![p] = Ttl - lag]
      BY <2>2 DEF ClaimInvocation, Claimed
    <3>1. ASSUME NEW q \in Procs, Working(q) PROVE FALSE
      <4>1. latest = q /\ latest # None /\ claim[q] \in Int /\ claim[q] > 0
        BY <3>1 DEF InvocationTypeOK, Left, ProcsAssumption
      <4>2. claim[q] + lag > 0
        BY <4>1, LagType
      <4> QED BY <4>1, <4>2 DEF Busy
    <3>2. claim'[p] > 0 /\ latest' = p
      BY <2>2, LagType DEF ClaimInvocation, InvocationTypeOK
    <3> QED BY <2>2, <3>1, <3>2 DEF ClaimInvocation, InvocationTypeOK
  <2>3. CASE ClaimRefused(p)
    BY <2>3 DEF ClaimRefused, InvocationTypeOK
  <2>4. CASE ReleaseInvocation(p)
    BY <2>4 DEF ReleaseInvocation, InvocationTypeOK
  <2>5. CASE ReleaseRefused(p)
    BY <2>5 DEF ReleaseRefused, InvocationTypeOK
  <2>6. CASE Dies(p)
    BY <2>6 DEF Dies, InvocationTypeOK
  <2> QED BY <1>3, <2>1, <2>2, <2>3, <2>4, <2>5, <2>6 DEF RunNext
<1>4. CASE UNCHANGED invocationVars
  BY <1>4 DEF invocationVars
<1> QED BY <1>1, <1>2, <1>3, <1>4 DEF InvocationNext

\* run_next's claim is a mutex: two processes never work on the run with
\* claims that have both not expired, if no process outlives its claim, and
\* every variable keeps its type.
THEOREM ClaimIsMutex ==
    ASSUME InvocationAssumptions, Outlives = FALSE
    PROVE  InvocationSpec => []OneLiveClaim
<1>1. InvocationInit => HoldsLatest
  BY DEF InvocationInit, HoldsLatest, Working
<1>2. InvocationTypeOK /\ HoldsLatest /\ [InvocationNext]_invocationVars => HoldsLatest'
  BY HoldsLatestStep
<1>3. InvocationTypeOK /\ HoldsLatest => OneLiveClaim
  BY DEF HoldsLatest, OneLiveClaim
<1> QED BY <1>1, <1>2, <1>3, InvocationTypeCorrect, PTL DEF InvocationSpec

(***************************************************************************)
(* RunnerCall                                                              *)
(***************************************************************************)
\* What the module assumes of its constants; MCRunner assumes the same of their
\* values, which TLC evaluates there.
CallAssumptions ==
    CallsAssumption /\ ResponsesAssumption /\ CapabilitiesAssumption /\ CallBoundsAssumption

(***************************************************************************)
(* Types, and the places of the process                                    *)
(***************************************************************************)

\* From the intent of a call until its result is recorded.
Asking == {"dispatch", "retry", "recover", "ambiguous", "send", "resend", "record", "failed",
           "answered", "unknown", "unsent", "ack", "unknownAck", "unsentAck", "resolve"}

\* From its result until its usage is settled.
Settling == {"settle", "commit", "release", "bind", "next"}

\* From the iteration's charge until the outcomes are recorded.
Closing == {"apply", "complete", "outcome", "outcomes"}

Aborting == {"abort", "abortFinish", "aborted"}

Places == {"idle", "pause", "existing", "call", "intent", "dispute", "finish"}
          \cup Asking \cup Settling \cup Closing \cup Aborting

InPlace == pc \in Places

\* A row with the fields of a call is what Writes leaves behind.
LEMMA WritesType ==
    ASSUME TypeOK, NEW here, NEW next, NEW row \in Call, Writes(here, next, row)
    PROVE  TypeOK'
  BY DEF TypeOK, Writes, Stays, Elsewhere, procVars, runVars

LEMMA DecidesType ==
    ASSUME TypeOK, NEW here, NEW next, Decides(here, next)
    PROVE  TypeOK'
  BY DEF TypeOK, Decides, Stays, Elsewhere, procVars, runVars

\* Nothing is executed that was not sent.
ExecutedIsSent == \A c \in Calls : provider[c].executed <= sends

\* A dispatch that is executed, or repeated to the provider, keeps the types
\* of what the provider did.
LEMMA ExecutesType ==
    ASSUME CallAssumptions, TypeOK, ExecutedIsSent, sends < MaxSends, sends' = sends + 1,
           Executes \/ UNCHANGED provider
    PROVE  /\ provider' \in [Calls -> [executed : 0..MaxSends, answer : Responses \cup {"none"}]]
           /\ ExecutedIsSent'
           /\ sends' \in 0..MaxSends
<1> USE DEF TypeOK, ExecutedIsSent, CallAssumptions, CallBoundsAssumption
<1>1. CASE UNCHANGED provider
  BY <1>1
<1>2. ASSUME NEW r \in Responses,
             provider' = [provider EXCEPT ![at] = [executed |-> @.executed + 1, answer |-> r]]
      PROVE  /\ provider' \in [Calls -> [executed : 0..MaxSends, answer : Responses \cup {"none"}]]
             /\ ExecutedIsSent'
  <2>1. provider[at].executed + 1 \in 0..MaxSends
    OBVIOUS
  <2> QED BY <1>2, <2>1
<1> QED BY <1>1, <1>2 DEF Executes

\* Every variable keeps its type and the process stays in one of its places,
\* in every step.
LEMMA CallTypeStep ==
    ASSUME CallAssumptions, TypeOK, InPlace, ExecutedIsSent, [Next]_vars
    PROVE  TypeOK' /\ InPlace' /\ ExecutedIsSent'
<1> USE DEF runVars, procVars, Stays, Elsewhere, At
<1> DEFINE Typed == TypeOK' /\ InPlace' /\ ExecutedIsSent'
<1>d. ASSUME NEW here, NEW next \in Places, Decides(here, next) PROVE Typed
  BY <1>d, DecidesType DEF Decides, InPlace, ExecutedIsSent
<1>w. ASSUME NEW here, NEW next \in Places, NEW row \in Call, Writes(here, next, row)
      PROVE  Typed
  BY <1>w, WritesType DEF Writes, InPlace, ExecutedIsSent
<1>r. calls[at] \in Call /\ at \in Calls
  BY DEF TypeOK
<1>f. Failed \in Places
  BY DEF Failed, Places, Aborting
<1>1. CASE GroupStep
  <2> USE DEF Places, Asking, Settling, Aborting
  <2>1. CASE EnterGroup
    BY <2>1 DEF EnterGroup, Enter, TypeOK, InPlace, ExecutedIsSent, Calls, CallAssumptions,
                CallsAssumption
  <2>2. CASE EnterExisting
    BY <2>2 DEF EnterExisting, Enter, Unfinished, TypeOK, InPlace, ExecutedIsSent
  <2>3. CASE Existing
    BY <2>3, <1>d DEF Existing
  <2>4. CASE CallStored
    BY <2>4 DEF CallStored, TypeOK, InPlace, ExecutedIsSent
  <2>5. CASE CallPending
    BY <2>5, <1>d DEF CallPending
  <2>6. CASE Reserve
    <3>1. [calls[at] EXCEPT !.reservation = IF @ = "none" THEN "held" ELSE @] \in Call
      BY <1>r DEF Call
    <3> QED BY <2>6, <3>1, <1>w DEF Reserve
  <2>7. CASE CallRefused
    BY <2>7, <1>d DEF CallRefused
  <2>8. CASE RecordIntent
    <3>1. [calls[at] EXCEPT !.intent = TRUE] \in Call
      BY <1>r DEF Call
    <3> QED BY <2>8, <3>1, <1>w, <1>d DEF RecordIntent
  <2> QED BY <1>1, <2>1, <2>2, <2>3, <2>4, <2>5, <2>6, <2>7, <2>8 DEF GroupStep
<1>2. CASE DispatchStep
  <2> USE DEF Places, Asking, Settling, Aborting
  <2>a. ASSUME NEW stage \in {"dispatching", "dispatched", "unknown", "failed"}
        PROVE  Attempt(stage) \in Call
    BY <1>r DEF Attempt, Call
  <2>1. CASE Dispatch
    BY <2>1, <2>a, <1>d, <1>w DEF Dispatch
  <2>q. ASSUME NEW here, NEW next \in Places, Queried(here, next) PROVE Typed
    BY <2>q DEF Queried, TypeOK, InPlace, ExecutedIsSent
  <2>2. CASE Recover
    BY <2>2, <2>q, <2>a, <1>d, <1>w, <1>f DEF Recover
  <2>3. CASE Resolve
    BY <2>3, <2>q, <1>d, <1>f DEF Resolve
  <2>s. ASSUME NEW here, NEW next \in Places, Sends(here, next),
               Executes \/ UNCHANGED provider,
               response' = response \/ response' = provider'[at].answer
        PROVE  Typed
    <3>1. /\ provider' \in [Calls -> [executed : 0..MaxSends, answer : Responses \cup {"none"}]]
          /\ ExecutedIsSent' /\ sends' \in 0..MaxSends
      BY <2>s, ExecutesType DEF Sends
    <3> QED BY <2>s, <3>1 DEF Sends, TypeOK, InPlace
  <2>4. CASE Answered
    BY <2>4, <2>s DEF Answered
  <2>5. CASE SentUnknown
    BY <2>5, <2>s DEF SentUnknown, Thrown
  <2>6. CASE NotSent
    BY <2>6, <2>s DEF NotSent
  <2>7. CASE AdapterFails
    BY <2>7, <2>s DEF AdapterFails, Thrown
  <2>8. CASE CrashSending
    <3>1. /\ provider' \in [Calls -> [executed : 0..MaxSends, answer : Responses \cup {"none"}]]
          /\ ExecutedIsSent' /\ sends' \in 0..MaxSends
      BY <2>8, ExecutesType DEF CrashSending
    <3>2. crashes' \in 0..MaxCrashes
      BY <2>8 DEF CrashSending, TypeOK, CallAssumptions, CallBoundsAssumption
    <3> QED BY <2>8, <3>1, <3>2 DEF CrashSending, TypeOK, InPlace
  <2>9. CASE AttemptFailed
    BY <2>9, <2>a, <1>w, <1>f DEF AttemptFailed
  <2>10. CASE AttemptDispatched
    BY <2>10, <2>a, <1>w DEF AttemptDispatched
  <2>11. CASE AttemptUnknown
    BY <2>11, <2>a, <1>w DEF AttemptUnknown
  <2>12. CASE AckDispatched
    <3>1. [calls[at] EXCEPT !.ack = IF @ = "none" THEN "dispatched" ELSE @] \in Call
      BY <1>r DEF Call
    <3> QED BY <2>12, <3>1, <1>w DEF AckDispatched
  <2>13. CASE AckUnknown
    <3>1. [calls[at] EXCEPT !.ack = "unknown"] \in Call
      BY <1>r DEF Call
    <3> QED BY <2>13, <3>1, <1>w, <1>d, <1>f DEF AckUnknown
  <2>14. CASE RecordAmbiguous
    <3>1. [calls[at] EXCEPT !.ambiguous = TRUE] \in Call
      BY <1>r DEF Call
    <3> QED BY <2>14, <3>1, <1>w DEF RecordAmbiguous
  <2>15. CASE Pause
    BY <2>15 DEF Pause, TypeOK, InPlace, ExecutedIsSent
  <2> QED BY <1>2, <2>1, <2>2, <2>3, <2>4, <2>5, <2>6, <2>7, <2>8, <2>9, <2>10, <2>11,
             <2>12, <2>13, <2>14, <2>15 DEF DispatchStep
<1>3. CASE SettleStep
  <2> USE DEF Places, Settling, Aborting
  <2>1. CASE RecordResult
    <3>0. [calls[at] EXCEPT !.result = response] \in Call
      BY <1>r DEF Call, TypeOK
    <3>1. calls' \in [Calls -> Call]
      BY <2>1, <3>0 DEF RecordResult, TypeOK
    <3> QED BY <2>1, <3>1 DEF RecordResult, TypeOK, InPlace, ExecutedIsSent
  <2>2. CASE ReceiptRefused
    BY <2>2, <1>d DEF ReceiptRefused
  <2>3. CASE NothingToSettle
    BY <2>3, <1>d DEF NothingToSettle
  <2>4. CASE RecordUsage
    <3>1. [calls[at] EXCEPT !.usage = TRUE] \in Call
      BY <1>r DEF Call
    <3> QED BY <2>4, <3>1, <1>w, <1>d, <1>f DEF RecordUsage, Refused
  <2>5. CASE Commit
    <3>1. [calls[at] EXCEPT !.reservation = IF @ = "held" THEN "committed" ELSE @] \in Call
      BY <1>r DEF Call
    <3> QED BY <2>5, <3>1, <1>w, <1>d, <1>f DEF Commit, Refused
  <2>6. CASE Release
    <3>1. [calls[at] EXCEPT !.reservation = "closed"] \in Call
      BY <1>r DEF Call
    <3> QED BY <2>6, <3>1, <1>w DEF Release
  <2>7. CASE Bind
    <3>1. [calls[at] EXCEPT !.bound = TRUE] \in Call
      BY <1>r DEF Call
    <3> QED BY <2>7, <3>1, <1>w DEF Bind
  <2>8. CASE DisputeGroup
    BY <2>8 DEF DisputeGroup, TypeOK, InPlace, ExecutedIsSent
  <2>9. CASE DisputeRaised
    BY <2>9, <1>d DEF DisputeRaised
  <2>10. CASE NextCall
    <3>1. CASE MoreCalls /\ at' = at + 1 /\ At("next", "call")
               /\ UNCHANGED <<path, fresh, response, runVars, calls>> /\ Elsewhere
      <4>1. at + 1 \in Calls
        BY <3>1 DEF MoreCalls, TypeOK, Calls, CallAssumptions, CallsAssumption
      <4> QED BY <3>1, <4>1 DEF TypeOK, InPlace, ExecutedIsSent
    <3> QED BY <2>10, <3>1, <1>d DEF NextCall
  <2> QED BY <1>3, <2>1, <2>2, <2>3, <2>4, <2>5, <2>6, <2>7, <2>8, <2>9, <2>10
             DEF SettleStep
<1>4. CASE FinishStep
  <2> USE DEF Places, Closing, Aborting
  <2>c. ASSUME NEW here, NEW next \in Places, NEW to \in {"open", "completed", "aborted"},
               NEW charge \in BOOLEAN, NEW apply \in BOOLEAN,
               Closes(here, next, to, charge, apply)
        PROVE  Typed
    BY <2>c DEF Closes, TypeOK, InPlace, ExecutedIsSent
  <2>n. ASSUME NEW here \in Places, NEW cs \in SUBSET Calls,
               NEW to \in {"completed", "aborted"}, RecordNext(here, cs, to)
        PROVE  Typed
    <3>1. calls' \in [Calls -> Call]
      <4>1. PICK c \in Calls : calls' = [calls EXCEPT ![c].outcome = to]
        BY <2>n DEF RecordNext
      <4>2. [calls[c] EXCEPT !.outcome = to] \in Call
        BY DEF Call, TypeOK
      <4> QED BY <4>1, <4>2 DEF TypeOK
    <3> QED BY <2>n, <3>1 DEF RecordNext, TypeOK, InPlace, ExecutedIsSent
  <2>z. ASSUME NEW here, NEW to \in {"completed", "aborted"}, Finalize(here, to)
        PROVE  Typed
    BY <2>z DEF Finalize, TypeOK, InPlace, ExecutedIsSent
  <2>t. iteration \in {"open", "completed", "aborted"} /\ charged \in BOOLEAN /\ applied \in BOOLEAN
    BY DEF TypeOK
  <2>1. CASE FinishRefused
    BY <2>1, <1>d DEF FinishRefused
  <2>2. CASE ChargeIteration
    BY <2>2, <2>c, <2>t DEF ChargeIteration
  <2>3. CASE ApplyChangeSet
    BY <2>3, <2>c, <2>t, <1>d, <1>f DEF ApplyChangeSet
  <2>4. CASE FinishIteration
    BY <2>4, <2>c, <2>t DEF FinishIteration
  <2>5. CASE RecordOutcome
    <3>1. [calls[at] EXCEPT !.outcome = "completed"] \in Call
      BY <1>r DEF Call
    <3> QED BY <2>5, <3>1, <1>w, <1>d, <1>f DEF RecordOutcome
  <2>6. CASE CompleteGroup
    BY <2>6, <2>n, <2>z, <1>d DEF CompleteGroup, OutcomeRefused
  <2>7. CASE AbortRelease
    <3> PICK c \in Calls :
          calls' = [calls EXCEPT ![c].reservation =
                                 IF @ = "committed" THEN "closed" ELSE "released"]
      BY <2>7, <1>r DEF AbortRelease, Holding, Bindings
    <3>0. [calls[c] EXCEPT !.reservation = IF @ = "committed" THEN "closed" ELSE "released"]
            \in Call
      <4>1. calls[c] \in Call
        BY DEF TypeOK
      <4> QED BY <4>1 DEF Call
    <3>1. calls' \in [Calls -> Call]
      BY <3>0 DEF TypeOK
    <3> QED BY <2>7, <3>1 DEF AbortRelease, TypeOK, InPlace, ExecutedIsSent
  <2>8. CASE AbortCharge
    BY <2>8, <2>c, <2>t DEF AbortCharge
  <2>9. CASE AbortFinish
    BY <2>9, <2>c, <2>t DEF AbortFinish
  <2>10. CASE AbortAgain
    BY <2>10, <1>d DEF AbortAgain
  <2>11. CASE AbortGroup
    <3>1. Bindings \in SUBSET Calls
      BY <1>r DEF Bindings
    <3> QED BY <2>11, <3>1, <2>n, <2>z, <1>d DEF AbortGroup, OutcomeRefused
  <2> QED BY <1>4, <2>1, <2>2, <2>3, <2>4, <2>5, <2>6, <2>7, <2>8, <2>9, <2>10, <2>11
             DEF FinishStep
<1>5. CASE AdminStep
  <2>1. CASE Resume
    BY <2>1 DEF Resume, TypeOK, InPlace, ExecutedIsSent
  <2>2. ASSUME NEW c \in Calls, NEW d \in {"retry", "abort", "accept"}, Decide(c, d)
        PROVE  Typed
    <3>0. [calls[c] EXCEPT !.decision = d] \in Call
      BY <2>2 DEF Call, TypeOK
    <3>1. calls' \in [Calls -> Call]
      BY <2>2, <3>0 DEF Decide, TypeOK
    <3> QED BY <2>2, <3>1 DEF Decide, TypeOK, InPlace, ExecutedIsSent
  <2> QED BY <1>5, <2>1, <2>2 DEF AdminStep
<1>6. CASE Crash \/ StoreFails
  <2>1. crashes' \in 0..MaxCrashes
    BY <1>6 DEF Crash, StoreFails, TypeOK, CallAssumptions, CallBoundsAssumption
  <2> QED BY <1>6, <2>1 DEF Crash, StoreFails, TypeOK, InPlace, ExecutedIsSent, Places, Aborting
<1>7. CASE UNCHANGED vars
  BY <1>7 DEF vars, TypeOK, InPlace, ExecutedIsSent
<1> QED BY <1>1, <1>2, <1>3, <1>4, <1>5, <1>6, <1>7 DEF Next

(***************************************************************************)
(* What holds in every state: the invariant of the settlement              *)
(***************************************************************************)

\* A binding is the last step of a settlement.
BoundIsClosed == \A c \in Calls :
    calls[c].bound => calls[c].usage /\ calls[c].reservation = "closed"

\* Where a settlement is, its earlier steps are in the store.
SettlesInOrder ==
    /\ pc \in {"commit", "release", "bind"} => calls[at].usage /\ ~calls[at].bound
    /\ pc = "bind" => calls[at].reservation = "closed"
    /\ pc = "next" => Settled

\* The group the process works on is open on the group path, disputed on the
\* path of an existing call, and nothing works on one that is closed.
WorksOnGroup ==
    /\ group \in {"completed", "aborted"} => pc = "idle"
    /\ pc \notin {"idle", "pause"} => group = IF path = "group" THEN "open" ELSE "paused"
    /\ pc \in {"call", "intent", "outcomes"} => path = "group"
    /\ pc = "existing" => path = "existing"

\* A result is asked for, recorded and settled under its intent, and is not
\* asked for when it is there.
AsksOnce ==
    /\ pc \in Asking \cup {"existing"} => calls[at].intent
    /\ pc \in Asking => calls[at].result = "none"
    /\ pc \in Settling \cup Closing \cup {"finish"} => calls[at].intent
    /\ \A c \in Calls : calls[c].result # "none" => calls[c].intent
    /\ pc = "intent" => ~calls[at].intent /\ calls[at].reservation # "none"

\* A call whose result can be used, and is paid for.
Proven(c) == calls[c].intent /\ calls[c].bound /\ calls[c].result \in Good

\* A call is reserved after all before it are proven, and the iteration is
\* closed after all calls are.
InOrder ==
    /\ \A c \in Calls :
         calls[c].intent \/ calls[c].reservation # "none" => \A d \in 1..(c - 1) : Proven(d)
    /\ pc # "idle" => \A d \in 1..(at - 1) : Proven(d)
    /\ pc = "finish" => at = NumCalls /\ Settled
    /\ pc \in Closing \/ applied => \A c \in Calls : Proven(c)

\* Nothing is reserved for a call that was recorded.
NothingHeld ==
    \A c \in Calls : calls[c].intent => calls[c].reservation \notin {"held", "committed"}

\* A closed iteration is charged, a completed one with the change set in the
\* graph and an aborted one with nothing reserved; calls have outcomes when it
\* is closed, and complete with the change set.
IterationTells ==
    /\ iteration = "completed" => charged /\ applied
    /\ iteration = "aborted" => charged /\ NothingHeld
    /\ \A c \in Calls : calls[c].outcome # "none" => iteration # "open"
    /\ \A c \in Calls : calls[c].outcome = "completed" => applied

\* Where the closing of an iteration is, its earlier steps are in the store,
\* and a call is recorded in an open one.
ClosesInOrder ==
    /\ pc \in {"apply", "complete"} /\ iteration = "open" => charged
    /\ pc \in {"complete", "outcome", "outcomes"} => applied
    /\ pc \in {"outcome", "outcomes", "aborted"} => iteration # "open"
    /\ pc \in {"intent", "abortFinish"} => iteration = "open"
    /\ pc = "abortFinish" => charged /\ NothingHeld

\* A usage dispute leaves a group that is not closed in order again.
UndisputedInv ==
    group # "paused" => InOrder /\ IterationTells /\ ClosesInOrder /\ ClosedGroupIsClean

SettlementInv ==
    BoundIsClosed /\ SettlesInOrder /\ WorksOnGroup /\ AsksOnce /\ UndisputedInv


\* A binding keeps its usage and its closed reservation, and a settlement goes
\* on from what it has already recorded.
LEMMA BoundStep ==
    ASSUME CallAssumptions, TypeOK, InPlace, BoundIsClosed, SettlesInOrder, AsksOnce, [Next]_vars
    PROVE  BoundIsClosed' /\ SettlesInOrder'
<1> USE DEF runVars, procVars, Stays, Elsewhere, At, BoundIsClosed, SettlesInOrder,
            AsksOnce, Settled, TypeOK, Call, InPlace, Places, Asking, Settling,
            Closing, Aborting
<1>1. CASE GroupStep
  BY <1>1 DEF GroupStep, EnterGroup, EnterExisting, Existing, CallStored,
              CallPending, Reserve, CallRefused, RecordIntent, Enter, Unfinished,
              Decides, Writes
<1>2. CASE DispatchStep
  BY <1>2 DEF DispatchStep, Dispatch, Recover, Resolve, Answered, SentUnknown,
              NotSent, AdapterFails, CrashSending, AttemptFailed, AttemptDispatched,
              AttemptUnknown, AckDispatched, AckUnknown, RecordAmbiguous, Pause,
              Decides, Writes, Attempt, Queried, Failed, Sends, Sending, Thrown
<1>3. CASE SettleStep
  <2>1. CASE RecordResult
    BY <2>1 DEF RecordResult
  <2>2. CASE ReceiptRefused
    BY <2>2 DEF ReceiptRefused, Decides
  <2>3. CASE NothingToSettle
    BY <2>3 DEF NothingToSettle, Decides
  <2>4. CASE RecordUsage
    <3>1. CASE iteration = "open"
      BY <2>4, <3>1 DEF RecordUsage, Writes
    <3>2. CASE iteration # "open"
      BY <2>4, <3>2 DEF RecordUsage, Refused, Decides, Failed
    <3> QED BY <3>1, <3>2
  <2>5. CASE Commit
    <3>1. CASE calls[at].result = "overrun" \/ calls[at].reservation = "released"
      BY <2>5, <3>1 DEF Commit, Refused, Decides, Failed
    <3>2. CASE ~(calls[at].result = "overrun" \/ calls[at].reservation = "released")
      BY <2>5, <3>2 DEF Commit, Writes
    <3> QED BY <3>1, <3>2
  <2>6. CASE Release
    BY <2>6 DEF Release, Writes
  <2>7. CASE Bind
    BY <2>7 DEF Bind, Writes
  <2>8. CASE DisputeGroup
    BY <2>8 DEF DisputeGroup
  <2>9. CASE DisputeRaised
    BY <2>9 DEF DisputeRaised, Decides
  <2>10. CASE NextCall
    BY <2>10 DEF NextCall, Decides
  <2> QED BY <1>3, <2>1, <2>2, <2>3, <2>4, <2>5, <2>6, <2>7, <2>8, <2>9, <2>10 DEF
             SettleStep
<1>4. CASE FinishStep
  <2>1. CASE FinishRefused
    BY <2>1 DEF FinishRefused, Decides
  <2>2. CASE ChargeIteration
    BY <2>2 DEF ChargeIteration, Closes
  <2>3. CASE ApplyChangeSet
    BY <2>3 DEF ApplyChangeSet, Closes, Decides, Failed
  <2>4. CASE FinishIteration
    BY <2>4 DEF FinishIteration, Closes
  <2>5. CASE RecordOutcome
    <3> PICK row : row = [calls[at] EXCEPT !.outcome = "completed"]
      OBVIOUS
    <3>1. pc' \in {"outcomes", "idle", "abort"}
      BY <2>5 DEF RecordOutcome, Writes, Decides, Failed
    <3>2. calls' = calls \/ calls' = [calls EXCEPT ![at] = row]
      BY <2>5 DEF RecordOutcome, Writes, Decides
    <3>3. /\ row.bound = calls[at].bound /\ row.usage = calls[at].usage
          /\ row.reservation = calls[at].reservation
      OBVIOUS
    <3>4. \A c \in Calls : /\ calls'[c].bound = calls[c].bound
                          /\ calls'[c].usage = calls[c].usage
                          /\ calls'[c].reservation = calls[c].reservation
      BY <3>2, <3>3
    <3> QED BY <3>1, <3>4
  <2>6. CASE CompleteGroup
    BY <2>6 DEF CompleteGroup, RecordNext, Finalize, OutcomeRefused, Decides
  <2>7. CASE AbortRelease
    BY <2>7 DEF AbortRelease, Holding, Bindings
  <2>8. CASE AbortCharge
    BY <2>8 DEF AbortCharge, Closes, Holding
  <2>9. CASE AbortFinish
    BY <2>9 DEF AbortFinish, Closes
  <2>10. CASE AbortAgain
    BY <2>10 DEF AbortAgain, Decides
  <2>11. CASE AbortGroup
    <3>1. ASSUME NEW c \in Calls, calls' = [calls EXCEPT ![c].outcome = "aborted"]
          PROVE  BoundIsClosed' /\ SettlesInOrder'
      <4>1. \A k \in Calls : calls'[k] = IF k = c THEN [calls[c] EXCEPT !.outcome = "aborted"]
                                                ELSE calls[k]
        BY <3>1
      <4>2. pc' \in {"idle", "aborted"}
        BY <2>11 DEF AbortGroup, RecordNext, Finalize, OutcomeRefused, Decides
      <4>3. \A k \in Calls : /\ calls'[k].bound = calls[k].bound
                             /\ calls'[k].usage = calls[k].usage
                             /\ calls'[k].reservation = calls[k].reservation
        BY <4>1
      <4> QED BY <4>2, <4>3
    <3>3. Bindings \subseteq Calls
      BY DEF Bindings
    <3>2. CASE UNCHANGED calls
      BY <2>11, <3>2 DEF AbortGroup, RecordNext, Finalize, OutcomeRefused, Decides
    <3> QED BY <2>11, <3>1, <3>2, <3>3 DEF AbortGroup, RecordNext, Finalize, OutcomeRefused, Decides
  <2> QED BY <1>4, <2>1, <2>2, <2>3, <2>4, <2>5, <2>6, <2>7, <2>8, <2>9, <2>10,
             <2>11 DEF FinishStep
<1>5. CASE AdminStep
  <2>1. CASE Resume
    BY <2>1 DEF Resume
  <2>2. ASSUME NEW k \in Calls, NEW d \in {"retry", "abort", "accept"}, Decide(k, d)
        PROVE  BoundIsClosed' /\ SettlesInOrder'
    BY <2>2 DEF Decide
  <2> QED BY <1>5, <2>1, <2>2 DEF AdminStep
<1>6. CASE Crash \/ StoreFails
  BY <1>6 DEF Crash, StoreFails, Paying, Caught
<1>7. CASE UNCHANGED vars
  BY <1>7 DEF vars
<1> QED BY <1>1, <1>2, <1>3, <1>4, <1>5, <1>6, <1>7 DEF Next

\* The process works on the open group, or continues a call of a paused one;
\* it asks for one result per intent.
LEMMA WorksStep ==
    ASSUME CallAssumptions, TypeOK, InPlace, WorksOnGroup, AsksOnce,
           group # "paused" => ClosedGroupIsClean, [Next]_vars
    PROVE  WorksOnGroup' /\ AsksOnce'
<1> USE DEF runVars, procVars, Stays, Elsewhere, At, WorksOnGroup, AsksOnce, TypeOK,
            Call, InPlace, Places, Asking, Settling, Closing, Aborting
<1>1. CASE GroupStep
  <2>1. CASE EnterGroup
    BY <2>1 DEF EnterGroup, Enter
  <2>2. CASE EnterExisting
    <3>1. group = "paused"
      BY <2>2 DEF EnterExisting, Enter, Unfinished, ClosedGroupIsClean
    <3> QED BY <2>2, <3>1 DEF EnterExisting, Enter, Unfinished
  <2>3. CASE Existing
    BY <2>3 DEF Existing, Decides
  <2>4. CASE CallStored
    BY <2>4 DEF CallStored
  <2>5. CASE CallPending
    BY <2>5 DEF CallPending, Decides
  <2>6. CASE Reserve
    BY <2>6 DEF Reserve, Writes
  <2>7. CASE CallRefused
    BY <2>7 DEF CallRefused, Decides
  <2>8. CASE RecordIntent
    BY <2>8 DEF RecordIntent, Writes, Decides
  <2> QED BY <1>1, <2>1, <2>2, <2>3, <2>4, <2>5, <2>6, <2>7, <2>8 DEF GroupStep
<1>2. CASE DispatchStep
  BY <1>2 DEF DispatchStep, Dispatch, Recover, Resolve, Answered, SentUnknown,
              NotSent, AdapterFails, CrashSending, AttemptFailed, AttemptDispatched,
              AttemptUnknown, AckDispatched, AckUnknown, RecordAmbiguous, Pause,
              Decides, Writes, Attempt, Queried, Failed, Sends, Sending, Thrown
<1>3. CASE SettleStep
  <2>1. CASE RecordResult
    BY <2>1 DEF RecordResult
  <2>2. CASE ReceiptRefused
    BY <2>2 DEF ReceiptRefused, Decides
  <2>3. CASE NothingToSettle
    BY <2>3 DEF NothingToSettle, Decides
  <2>4. CASE RecordUsage
    <3>1. CASE iteration = "open"
      BY <2>4, <3>1 DEF RecordUsage, Writes
    <3>2. CASE iteration # "open"
      BY <2>4, <3>2 DEF RecordUsage, Refused, Decides, Failed
    <3> QED BY <3>1, <3>2
  <2>5. CASE Commit
    <3>1. CASE calls[at].result = "overrun" \/ calls[at].reservation = "released"
      BY <2>5, <3>1 DEF Commit, Refused, Decides, Failed
    <3>2. CASE ~(calls[at].result = "overrun" \/ calls[at].reservation = "released")
      BY <2>5, <3>2 DEF Commit, Writes
    <3> QED BY <3>1, <3>2
  <2>6. CASE Release
    BY <2>6 DEF Release, Writes
  <2>7. CASE Bind
    BY <2>7 DEF Bind, Writes
  <2>8. CASE DisputeGroup
    BY <2>8 DEF DisputeGroup
  <2>9. CASE DisputeRaised
    BY <2>9 DEF DisputeRaised, Decides
  <2>10. CASE NextCall
    BY <2>10 DEF NextCall, Decides
  <2> QED BY <1>3, <2>1, <2>2, <2>3, <2>4, <2>5, <2>6, <2>7, <2>8, <2>9, <2>10 DEF
             SettleStep
<1>4. CASE FinishStep
  <2>1. CASE FinishRefused
    BY <2>1 DEF FinishRefused, Decides
  <2>2. CASE ChargeIteration
    BY <2>2 DEF ChargeIteration, Closes
  <2>3. CASE ApplyChangeSet
    BY <2>3 DEF ApplyChangeSet, Closes, Decides, Failed
  <2>4. CASE FinishIteration
    BY <2>4 DEF FinishIteration, Closes
  <2>5. CASE RecordOutcome
    BY <2>5 DEF RecordOutcome, Writes, Decides, Failed
  <2>6. CASE CompleteGroup
    <3>1. ASSUME RecordNext("outcomes", Calls, "completed") PROVE WorksOnGroup' /\ AsksOnce'
      BY <3>1, <2>6 DEF RecordNext, CompleteGroup
    <3>2. CASE Finalize("outcomes", "completed")
      BY <3>2 DEF Finalize
    <3>3. CASE Decides("outcomes", "idle")
      BY <3>3 DEF Decides
    <3> QED BY <2>6, <3>1, <3>2, <3>3 DEF CompleteGroup, OutcomeRefused
  <2>7. CASE AbortRelease
    BY <2>7 DEF AbortRelease, Holding, Bindings
  <2>8. CASE AbortCharge
    BY <2>8 DEF AbortCharge, Closes, Holding
  <2>9. CASE AbortFinish
    BY <2>9 DEF AbortFinish, Closes
  <2>10. CASE AbortAgain
    BY <2>10 DEF AbortAgain, Decides
  <2>11. CASE AbortGroup
    <3>1. ASSUME NEW cs, RecordNext("aborted", cs, "aborted") PROVE WorksOnGroup' /\ AsksOnce'
      BY <3>1, <2>11 DEF RecordNext, AbortGroup, Bindings
    <3>2. CASE Finalize("aborted", "aborted")
      BY <3>2 DEF Finalize
    <3>3. CASE Decides("aborted", "idle")
      BY <3>3 DEF Decides
    <3> QED BY <2>11, <3>1, <3>2, <3>3 DEF AbortGroup, OutcomeRefused
  <2> QED BY <1>4, <2>1, <2>2, <2>3, <2>4, <2>5, <2>6, <2>7, <2>8, <2>9, <2>10,
             <2>11 DEF FinishStep
<1>5. CASE AdminStep
  <2>1. CASE Resume
    BY <2>1 DEF Resume
  <2>2. ASSUME NEW k \in Calls, NEW d \in {"retry", "abort", "accept"}, Decide(k, d)
        PROVE  WorksOnGroup' /\ AsksOnce'
    BY <2>2 DEF Decide
  <2> QED BY <1>5, <2>1, <2>2 DEF AdminStep
<1>6. CASE Crash \/ StoreFails
  BY <1>6 DEF Crash, StoreFails, Paying, Caught
<1>7. CASE UNCHANGED vars
  BY <1>7 DEF vars
<1> QED BY <1>1, <1>2, <1>3, <1>4, <1>5, <1>6, <1>7 DEF Next

\* A group that a usage dispute closed stays so.
LEMMA PausedStays ==
    ASSUME CallAssumptions, TypeOK, InPlace, WorksOnGroup, [Next]_vars
    PROVE  group = "paused" => group' = "paused"
<1> USE DEF runVars, procVars, Stays, Elsewhere, At, WorksOnGroup
<1>1. CASE GroupStep
  BY <1>1 DEF GroupStep, EnterGroup, EnterExisting, Existing, CallStored,
              CallPending, Reserve, CallRefused, RecordIntent, Enter, Unfinished,
              Decides, Writes
<1>2. CASE DispatchStep
  BY <1>2 DEF DispatchStep, Dispatch, Recover, Resolve, Answered, SentUnknown,
              NotSent, AdapterFails, CrashSending, AttemptFailed, AttemptDispatched,
              AttemptUnknown, AckDispatched, AckUnknown, RecordAmbiguous, Pause,
              Decides, Writes, Attempt, Queried, Failed, Sends, Sending, Thrown
<1>3. CASE SettleStep
  BY <1>3 DEF SettleStep, RecordResult, ReceiptRefused, NothingToSettle,
              RecordUsage, Commit, Release, Bind, DisputeGroup, DisputeRaised,
              NextCall, Decides, Writes, Refused, Failed
<1>4. CASE FinishStep
  BY <1>4 DEF FinishStep, FinishRefused, ChargeIteration, ApplyChangeSet,
              FinishIteration, RecordOutcome, CompleteGroup, AbortRelease,
              AbortCharge, AbortFinish, AbortAgain, AbortGroup, Decides, Closes,
              Failed, Writes, RecordNext, Finalize, OutcomeRefused, Holding, Bindings
<1>5. CASE AdminStep
  BY <1>5 DEF AdminStep, Resume, Decide
<1>6. CASE Crash \/ StoreFails
  BY <1>6 DEF Crash, StoreFails, Paying, Caught
<1>7. CASE UNCHANGED vars
  BY <1>7 DEF vars
<1> QED BY <1>1, <1>2, <1>3, <1>4, <1>5, <1>6, <1>7 DEF Next

\* What a call has shown it keeps.
LEMMA ProvenStays ==
    ASSUME CallAssumptions, TypeOK, InPlace, AsksOnce, NEW c \in Calls, Proven(c), [Next]_vars
    PROVE  Proven(c)'
<1> USE DEF runVars, procVars, Stays, Elsewhere, At, AsksOnce, Proven, Good, TypeOK,
            Call, Asking
<1>1. CASE GroupStep
  BY <1>1 DEF GroupStep, EnterGroup, EnterExisting, Existing, CallStored,
              CallPending, Reserve, CallRefused, RecordIntent, Enter, Unfinished,
              Decides, Writes
<1>2. CASE DispatchStep
  BY <1>2 DEF DispatchStep, Dispatch, Recover, Resolve, Answered, SentUnknown,
              NotSent, AdapterFails, CrashSending, AttemptFailed, AttemptDispatched,
              AttemptUnknown, AckDispatched, AckUnknown, RecordAmbiguous, Pause,
              Decides, Writes, Attempt, Queried, Failed, Sends, Sending, Thrown
<1>3. CASE SettleStep
  <2>1. CASE RecordResult
    BY <2>1 DEF RecordResult
  <2>2. CASE ReceiptRefused
    BY <2>2 DEF ReceiptRefused, Decides
  <2>3. CASE NothingToSettle
    BY <2>3 DEF NothingToSettle, Decides
  <2>4. CASE RecordUsage
    <3>1. CASE iteration = "open"
      BY <2>4, <3>1 DEF RecordUsage, Writes
    <3>2. CASE iteration # "open"
      BY <2>4, <3>2 DEF RecordUsage, Refused, Decides, Failed
    <3> QED BY <3>1, <3>2
  <2>5. CASE Commit
    <3>1. CASE calls[at].result = "overrun" \/ calls[at].reservation = "released"
      BY <2>5, <3>1 DEF Commit, Refused, Decides, Failed
    <3>2. CASE ~(calls[at].result = "overrun" \/ calls[at].reservation = "released")
      BY <2>5, <3>2 DEF Commit, Writes
    <3> QED BY <3>1, <3>2
  <2>6. CASE Release
    BY <2>6 DEF Release, Writes
  <2>7. CASE Bind
    BY <2>7 DEF Bind, Writes
  <2>8. CASE DisputeGroup
    BY <2>8 DEF DisputeGroup
  <2>9. CASE DisputeRaised
    BY <2>9 DEF DisputeRaised, Decides
  <2>10. CASE NextCall
    BY <2>10 DEF NextCall, Decides
  <2> QED BY <1>3, <2>1, <2>2, <2>3, <2>4, <2>5, <2>6, <2>7, <2>8, <2>9, <2>10 DEF
             SettleStep
<1>4. CASE FinishStep
  <2>1. CASE FinishRefused
    BY <2>1 DEF FinishRefused, Decides
  <2>2. CASE ChargeIteration
    BY <2>2 DEF ChargeIteration, Closes
  <2>3. CASE ApplyChangeSet
    BY <2>3 DEF ApplyChangeSet, Closes, Decides, Failed
  <2>4. CASE FinishIteration
    BY <2>4 DEF FinishIteration, Closes
  <2>5. CASE RecordOutcome
    BY <2>5 DEF RecordOutcome, Writes, Decides, Failed
  <2>6. CASE CompleteGroup
    BY <2>6 DEF CompleteGroup, RecordNext, Finalize, OutcomeRefused, Decides
  <2>7. CASE AbortRelease
    BY <2>7 DEF AbortRelease, Holding, Bindings
  <2>8. CASE AbortCharge
    BY <2>8 DEF AbortCharge, Closes, Holding
  <2>9. CASE AbortFinish
    BY <2>9 DEF AbortFinish, Closes
  <2>10. CASE AbortAgain
    BY <2>10 DEF AbortAgain, Decides
  <2>11. CASE AbortGroup
    BY <2>11 DEF AbortGroup, RecordNext, Finalize, OutcomeRefused, Bindings,
               Decides
  <2> QED BY <1>4, <2>1, <2>2, <2>3, <2>4, <2>5, <2>6, <2>7, <2>8, <2>9, <2>10,
             <2>11 DEF FinishStep
<1>5. CASE AdminStep
  <2>1. CASE Resume
    BY <2>1 DEF Resume
  <2>2. ASSUME NEW k \in Calls, NEW d \in {"retry", "abort", "accept"}, Decide(k, d)
        PROVE  Proven(c)'
    BY <2>2 DEF Decide
  <2> QED BY <1>5, <2>1, <2>2 DEF AdminStep
<1>6. CASE Crash \/ StoreFails
  BY <1>6 DEF Crash, StoreFails, Paying, Caught
<1>7. CASE UNCHANGED vars
  BY <1>7 DEF vars
<1> QED BY <1>1, <1>2, <1>3, <1>4, <1>5, <1>6, <1>7 DEF Next

\* What a step may do to the row of a call while the group is undisputed.
LEMMA RowStep ==
    ASSUME CallAssumptions, TypeOK, InPlace, AsksOnce, WorksOnGroup,
           group # "paused", NEW c \in Calls, [Next]_vars
    PROVE  /\ calls'[c].intent # calls[c].intent => pc = "intent" /\ c = at
           /\ calls'[c].reservation # calls[c].reservation =>
                \/ /\ pc = "call" /\ c = at /\ ~calls[c].intent /\ iteration = "open"
                   /\ calls[c].reservation = "none" /\ calls'[c].reservation = "held"
                \/ pc = "commit" /\ c = at /\ calls[c].reservation = "held"
                \/ /\ calls[c].intent
                   /\ calls'[c].reservation \in {"closed", "released"}
           /\ calls'[c].outcome # calls[c].outcome =>
                \/ pc \in {"outcome", "outcomes"} /\ calls'[c].outcome = "completed"
                \/ pc = "aborted" /\ calls'[c].outcome = "aborted" 
<1> USE DEF runVars, procVars, Stays, Elsewhere, At, AsksOnce, WorksOnGroup, TypeOK,
            Call, Settling
<1>1. CASE GroupStep
  BY <1>1 DEF GroupStep, EnterGroup, EnterExisting, Existing, CallStored,
              CallPending, Reserve, CallRefused, RecordIntent, Enter, Unfinished,
              Decides, Writes
<1>2. CASE DispatchStep
  BY <1>2 DEF DispatchStep, Dispatch, Recover, Resolve, Answered, SentUnknown,
              NotSent, AdapterFails, CrashSending, AttemptFailed, AttemptDispatched,
              AttemptUnknown, AckDispatched, AckUnknown, RecordAmbiguous, Pause,
              Decides, Writes, Attempt, Queried, Failed, Sends, Sending, Thrown
<1>3. CASE SettleStep
  BY <1>3 DEF SettleStep, RecordResult, ReceiptRefused, NothingToSettle,
              RecordUsage, Commit, Release, Bind, DisputeGroup, DisputeRaised,
              NextCall, Decides, Writes, Refused, Failed
<1>4. CASE FinishStep
  <2>1. CASE FinishRefused
    BY <2>1 DEF FinishRefused, Decides
  <2>2. CASE ChargeIteration
    BY <2>2 DEF ChargeIteration, Closes
  <2>3. CASE ApplyChangeSet
    BY <2>3 DEF ApplyChangeSet, Closes, Decides, Failed
  <2>4. CASE FinishIteration
    BY <2>4 DEF FinishIteration, Closes
  <2>5. CASE RecordOutcome
    BY <2>5 DEF RecordOutcome, Writes, Decides, Failed
  <2>6. CASE CompleteGroup
    BY <2>6 DEF CompleteGroup, RecordNext, Finalize, OutcomeRefused, Decides
  <2>7. CASE AbortRelease
    BY <2>7 DEF AbortRelease, Holding, Bindings
  <2>8. CASE AbortCharge
    BY <2>8 DEF AbortCharge, Closes, Holding
  <2>9. CASE AbortFinish
    BY <2>9 DEF AbortFinish, Closes
  <2>10. CASE AbortAgain
    BY <2>10 DEF AbortAgain, Decides
  <2>11. CASE AbortGroup
    BY <2>11 DEF AbortGroup, RecordNext, Finalize, OutcomeRefused, Bindings,
               Decides
  <2> QED BY <1>4, <2>1, <2>2, <2>3, <2>4, <2>5, <2>6, <2>7, <2>8, <2>9, <2>10,
             <2>11 DEF FinishStep
<1>5. CASE AdminStep
  <2>1. CASE Resume
    BY <2>1 DEF Resume
  <2>2. ASSUME NEW k \in Calls, NEW d \in {"retry", "abort", "accept"}, Decide(k, d)
        PROVE  calls'[c] = [calls[c] EXCEPT !.decision = calls'[c].decision]
    BY <2>2 DEF Decide
  <2> QED BY <1>5, <2>1, <2>2 DEF AdminStep
<1>6. CASE Crash \/ StoreFails
  BY <1>6 DEF Crash, StoreFails, Paying, Caught
<1>7. CASE UNCHANGED vars
  BY <1>7 DEF vars
<1> QED BY <1>1, <1>2, <1>3, <1>4, <1>5, <1>6, <1>7 DEF Next

\* The process moves to the first call, or on from one that is proven.
LEMMA AtStep ==
    ASSUME CallAssumptions, TypeOK, InPlace, SettlesInOrder, WorksOnGroup, AsksOnce,
           group # "paused", ClosedGroupIsClean, [Next]_vars
    PROVE  pc' # "idle" =>
             \/ at' = at /\ pc # "idle"
             \/ at' = 1
             \/ at' = at + 1 /\ at < NumCalls /\ Proven(at) /\ pc = "next"
<1> USE DEF runVars, procVars, Stays, Elsewhere, At, WorksOnGroup, AsksOnce,
            SettlesInOrder, Proven, Settled, MoreCalls, Good, TypeOK, Call
<1>1. CASE GroupStep
  <2>1. CASE EnterGroup
    BY <2>1 DEF EnterGroup, Enter
  <2>2. CASE EnterExisting
    <3> QED BY <2>2 DEF EnterExisting, Enter, Unfinished, ClosedGroupIsClean
  <2>3. CASE Existing
    BY <2>3 DEF Existing, Decides
  <2>4. CASE CallStored
    BY <2>4 DEF CallStored
  <2>5. CASE CallPending
    BY <2>5 DEF CallPending, Decides
  <2>6. CASE Reserve
    BY <2>6 DEF Reserve, Writes
  <2>7. CASE CallRefused
    BY <2>7 DEF CallRefused, Decides
  <2>8. CASE RecordIntent
    BY <2>8 DEF RecordIntent, Writes, Decides
  <2> QED BY <1>1, <2>1, <2>2, <2>3, <2>4, <2>5, <2>6, <2>7, <2>8 DEF GroupStep
<1>2. CASE DispatchStep
  BY <1>2 DEF DispatchStep, Dispatch, Recover, Resolve, Answered, SentUnknown,
              NotSent, AdapterFails, CrashSending, AttemptFailed, AttemptDispatched,
              AttemptUnknown, AckDispatched, AckUnknown, RecordAmbiguous, Pause,
              Decides, Writes, Attempt, Queried, Failed, Sends, Sending, Thrown
<1>3. CASE SettleStep
  <2>1. CASE RecordResult
    BY <2>1 DEF RecordResult
  <2>2. CASE ReceiptRefused
    BY <2>2 DEF ReceiptRefused, Decides
  <2>3. CASE NothingToSettle
    BY <2>3 DEF NothingToSettle, Decides
  <2>4. CASE RecordUsage
    <3>1. CASE iteration = "open"
      BY <2>4, <3>1 DEF RecordUsage, Writes
    <3>2. CASE iteration # "open"
      BY <2>4, <3>2 DEF RecordUsage, Refused, Decides, Failed
    <3> QED BY <3>1, <3>2
  <2>5. CASE Commit
    <3>1. CASE calls[at].result = "overrun" \/ calls[at].reservation = "released"
      BY <2>5, <3>1 DEF Commit, Refused, Decides, Failed
    <3>2. CASE ~(calls[at].result = "overrun" \/ calls[at].reservation = "released")
      BY <2>5, <3>2 DEF Commit, Writes
    <3> QED BY <3>1, <3>2
  <2>6. CASE Release
    BY <2>6 DEF Release, Writes
  <2>7. CASE Bind
    BY <2>7 DEF Bind, Writes
  <2>8. CASE DisputeGroup
    BY <2>8 DEF DisputeGroup
  <2>9. CASE DisputeRaised
    BY <2>9 DEF DisputeRaised, Decides
  <2>10. CASE NextCall
    <3>1. CASE path = "group" /\ (NumCalls = 1 \/ calls[at].result \in Good)
      BY <2>10, <3>1 DEF NextCall, Decides, CallAssumptions, CallsAssumption, Calls
    <3>2. CASE ~(path = "group" /\ (NumCalls = 1 \/ calls[at].result \in Good))
      BY <2>10, <3>2 DEF NextCall, Decides
    <3> QED BY <3>1, <3>2
  <2> QED BY <1>3, <2>1, <2>2, <2>3, <2>4, <2>5, <2>6, <2>7, <2>8, <2>9, <2>10 DEF
             SettleStep
<1>4. CASE FinishStep
  BY <1>4 DEF FinishStep, FinishRefused, ChargeIteration, ApplyChangeSet,
              FinishIteration, RecordOutcome, CompleteGroup, AbortRelease,
              AbortCharge, AbortFinish, AbortAgain, AbortGroup, Decides, Closes,
              Failed, Writes, RecordNext, Finalize, OutcomeRefused, Holding, Bindings
<1>5. CASE AdminStep
  BY <1>5 DEF AdminStep, Resume, Decide
<1>6. CASE Crash \/ StoreFails
  BY <1>6 DEF Crash, StoreFails, Paying, Caught
<1>7. CASE UNCHANGED vars
  BY <1>7 DEF vars
<1> QED BY <1>1, <1>2, <1>3, <1>4, <1>5, <1>6, <1>7 DEF Next

\* The group is finished from its last call, its changes only when complete.
LEMMA FinishPlaceStep ==
    ASSUME CallAssumptions, TypeOK, InPlace, SettlesInOrder, WorksOnGroup, AsksOnce,
           group # "paused", ClosedGroupIsClean, [Next]_vars
    PROVE  /\ pc' = "finish" => at' = at /\ (pc = "finish" \/ (pc = "next" /\ ~MoreCalls))
           /\ pc' \in Closing => pc \in Closing \/ (pc = "finish" /\ Completes)
<1> USE DEF runVars, procVars, Stays, Elsewhere, At, WorksOnGroup, Closing
<1>1. CASE GroupStep
  BY <1>1 DEF GroupStep, EnterGroup, EnterExisting, Existing, CallStored,
              CallPending, Reserve, CallRefused, RecordIntent, Enter, Unfinished,
              Decides, Writes
<1>2. CASE DispatchStep
  BY <1>2 DEF DispatchStep, Dispatch, Recover, Resolve, Answered, SentUnknown,
              NotSent, AdapterFails, CrashSending, AttemptFailed, AttemptDispatched,
              AttemptUnknown, AckDispatched, AckUnknown, RecordAmbiguous, Pause,
              Decides, Writes, Attempt, Queried, Failed, Sends, Sending, Thrown
<1>3. CASE SettleStep
  BY <1>3 DEF SettleStep, RecordResult, ReceiptRefused, NothingToSettle,
              RecordUsage, Commit, Release, Bind, DisputeGroup, DisputeRaised,
              NextCall, Decides, Writes, Refused, Failed
<1>4. CASE FinishStep
  BY <1>4 DEF FinishStep, FinishRefused, ChargeIteration, ApplyChangeSet,
              FinishIteration, RecordOutcome, CompleteGroup, AbortRelease,
              AbortCharge, AbortFinish, AbortAgain, AbortGroup, Decides, Closes,
              Failed, Writes, RecordNext, Finalize, OutcomeRefused, Holding, Bindings
<1>5. CASE AdminStep
  BY <1>5 DEF AdminStep, Resume, Decide
<1>6. CASE Crash \/ StoreFails
  BY <1>6 DEF Crash, StoreFails, Paying, Caught
<1>7. CASE UNCHANGED vars
  BY <1>7 DEF vars
<1> QED BY <1>1, <1>2, <1>3, <1>4, <1>5, <1>6, <1>7 DEF Next

\* When the iteration is charged, its change set applied, and its status set.
LEMMA IterationMoveStep ==
    ASSUME CallAssumptions, TypeOK, InPlace, SettlesInOrder, WorksOnGroup, AsksOnce,
           group # "paused", ClosedGroupIsClean, [Next]_vars
    PROVE  /\ applied' # applied => applied' = TRUE /\ pc = "apply" /\ iteration = "open"
           /\ charged' # charged => charged' = TRUE
           /\ iteration' # iteration =>
                \/ pc = "complete" /\ iteration = "open" /\ iteration' = "completed"
                \/ pc = "abortFinish" /\ iteration' = "aborted"
<1> USE DEF runVars, procVars, Stays, Elsewhere, At, TypeOK
<1>1. CASE GroupStep
  BY <1>1 DEF GroupStep, EnterGroup, EnterExisting, Existing, CallStored,
              CallPending, Reserve, CallRefused, RecordIntent, Enter, Unfinished,
              Decides, Writes
<1>2. CASE DispatchStep
  BY <1>2 DEF DispatchStep, Dispatch, Recover, Resolve, Answered, SentUnknown,
              NotSent, AdapterFails, CrashSending, AttemptFailed, AttemptDispatched,
              AttemptUnknown, AckDispatched, AckUnknown, RecordAmbiguous, Pause,
              Decides, Writes, Attempt, Queried, Failed, Sends, Sending, Thrown
<1>3. CASE SettleStep
  BY <1>3 DEF SettleStep, RecordResult, ReceiptRefused, NothingToSettle,
              RecordUsage, Commit, Release, Bind, DisputeGroup, DisputeRaised,
              NextCall, Decides, Writes, Refused, Failed
<1>4. CASE FinishStep
  BY <1>4 DEF FinishStep, FinishRefused, ChargeIteration, ApplyChangeSet,
              FinishIteration, RecordOutcome, CompleteGroup, AbortRelease,
              AbortCharge, AbortFinish, AbortAgain, AbortGroup, Decides, Closes,
              Failed, Writes, RecordNext, Finalize, OutcomeRefused, Holding, Bindings
<1>5. CASE AdminStep
  BY <1>5 DEF AdminStep, Resume, Decide
<1>6. CASE Crash \/ StoreFails
  BY <1>6 DEF Crash, StoreFails, Paying, Caught
<1>7. CASE UNCHANGED vars
  BY <1>7 DEF vars
<1> QED BY <1>1, <1>2, <1>3, <1>4, <1>5, <1>6, <1>7 DEF Next

\* The steps of _finish_success follow one another.
LEMMA ClosingPlaceStep ==
    ASSUME CallAssumptions, TypeOK, InPlace, SettlesInOrder, WorksOnGroup, AsksOnce,
           group # "paused", ClosedGroupIsClean, [Next]_vars
    PROVE  /\ pc' = "apply" => pc = "apply" \/ charged' = TRUE \/ iteration # "open"
           /\ pc' = "complete" => (pc = "complete" \/ applied' = TRUE)
                               /\ pc \in {"apply", "complete"}
           /\ pc' \in {"outcome", "outcomes"} =>
                \/ pc \in {"outcome", "outcomes"}
                \/ pc = "complete" /\ iteration' # "open"
           /\ pc' = "intent" => (iteration = "open" /\ UNCHANGED iteration) \/ pc = "intent"
<1> USE DEF runVars, procVars, Stays, Elsewhere, At, TypeOK
<1>1. CASE GroupStep
  BY <1>1 DEF GroupStep, EnterGroup, EnterExisting, Existing, CallStored,
              CallPending, Reserve, CallRefused, RecordIntent, Enter, Unfinished,
              Decides, Writes
<1>2. CASE DispatchStep
  BY <1>2 DEF DispatchStep, Dispatch, Recover, Resolve, Answered, SentUnknown,
              NotSent, AdapterFails, CrashSending, AttemptFailed, AttemptDispatched,
              AttemptUnknown, AckDispatched, AckUnknown, RecordAmbiguous, Pause,
              Decides, Writes, Attempt, Queried, Failed, Sends, Sending, Thrown
<1>3. CASE SettleStep
  BY <1>3 DEF SettleStep, RecordResult, ReceiptRefused, NothingToSettle,
              RecordUsage, Commit, Release, Bind, DisputeGroup, DisputeRaised,
              NextCall, Decides, Writes, Refused, Failed
<1>4. CASE FinishStep
  BY <1>4 DEF FinishStep, FinishRefused, ChargeIteration, ApplyChangeSet,
              FinishIteration, RecordOutcome, CompleteGroup, AbortRelease,
              AbortCharge, AbortFinish, AbortAgain, AbortGroup, Decides, Closes,
              Failed, Writes, RecordNext, Finalize, OutcomeRefused, Holding, Bindings
<1>5. CASE AdminStep
  BY <1>5 DEF AdminStep, Resume, Decide
<1>6. CASE Crash \/ StoreFails
  BY <1>6 DEF Crash, StoreFails, Paying, Caught
<1>7. CASE UNCHANGED vars
  BY <1>7 DEF vars
<1> QED BY <1>1, <1>2, <1>3, <1>4, <1>5, <1>6, <1>7 DEF Next

\* The last call is still settled when the group is finished.
LEMMA FinishSettledStep ==
    ASSUME CallAssumptions, TypeOK, InPlace, SettlesInOrder, WorksOnGroup, AsksOnce,
           group # "paused", ClosedGroupIsClean, Settled, at' = at, [Next]_vars
    PROVE  pc' = "finish" => Settled'
<1> USE DEF runVars, procVars, Stays, Elsewhere, At, Settled, AsksOnce, TypeOK,
            Call, Asking
<1>1. CASE GroupStep
  BY <1>1 DEF GroupStep, EnterGroup, EnterExisting, Existing, CallStored,
              CallPending, Reserve, CallRefused, RecordIntent, Enter, Unfinished,
              Decides, Writes
<1>2. CASE DispatchStep
  BY <1>2 DEF DispatchStep, Dispatch, Recover, Resolve, Answered, SentUnknown,
              NotSent, AdapterFails, CrashSending, AttemptFailed, AttemptDispatched,
              AttemptUnknown, AckDispatched, AckUnknown, RecordAmbiguous, Pause,
              Decides, Writes, Attempt, Queried, Failed, Sends, Sending, Thrown
<1>3. CASE SettleStep
  BY <1>3 DEF SettleStep, RecordResult, ReceiptRefused, NothingToSettle,
              RecordUsage, Commit, Release, Bind, DisputeGroup, DisputeRaised,
              NextCall, Decides, Writes, Refused, Failed
<1>4. CASE FinishStep
  BY <1>4 DEF FinishStep, FinishRefused, ChargeIteration, ApplyChangeSet,
              FinishIteration, RecordOutcome, CompleteGroup, AbortRelease,
              AbortCharge, AbortFinish, AbortAgain, AbortGroup, Decides, Closes,
              Failed, Writes, RecordNext, Finalize, OutcomeRefused, Holding, Bindings
<1>5. CASE AdminStep
  <2>1. CASE Resume
    BY <2>1 DEF Resume
  <2>2. ASSUME NEW k \in Calls, NEW d \in {"retry", "abort", "accept"}, Decide(k, d)
        PROVE  Settled'
    BY <2>2 DEF Decide
  <2> QED BY <1>5, <2>1, <2>2 DEF AdminStep
<1>6. CASE Crash \/ StoreFails
  BY <1>6 DEF Crash, StoreFails, Paying, Caught
<1>7. CASE UNCHANGED vars
  BY <1>7 DEF vars
<1> QED BY <1>1, <1>2, <1>3, <1>4, <1>5, <1>6, <1>7 DEF Next

\* An intent is never taken back.
LEMMA IntentStays ==
    ASSUME CallAssumptions, TypeOK, InPlace, SettlesInOrder, WorksOnGroup, AsksOnce,
           group # "paused", NEW c \in Calls, calls[c].intent, [Next]_vars
    PROVE  calls'[c].intent
<1> USE DEF runVars, procVars, Stays, Elsewhere, At, TypeOK, Call
<1>1. CASE GroupStep
  BY <1>1 DEF GroupStep, EnterGroup, EnterExisting, Existing, CallStored,
              CallPending, Reserve, CallRefused, RecordIntent, Enter, Unfinished,
              Decides, Writes
<1>2. CASE DispatchStep
  BY <1>2 DEF DispatchStep, Dispatch, Recover, Resolve, Answered, SentUnknown,
              NotSent, AdapterFails, CrashSending, AttemptFailed, AttemptDispatched,
              AttemptUnknown, AckDispatched, AckUnknown, RecordAmbiguous, Pause,
              Decides, Writes, Attempt, Queried, Failed, Sends, Sending, Thrown
<1>3. CASE SettleStep
  BY <1>3 DEF SettleStep, RecordResult, ReceiptRefused, NothingToSettle,
              RecordUsage, Commit, Release, Bind, DisputeGroup, DisputeRaised,
              NextCall, Decides, Writes, Refused, Failed
<1>4. CASE FinishStep
  BY SMTT(60), <1>4 DEF FinishStep, FinishRefused, ChargeIteration, ApplyChangeSet,
              FinishIteration, RecordOutcome, CompleteGroup, AbortRelease,
              AbortCharge, AbortFinish, AbortAgain, AbortGroup, Decides, Closes,
              Failed, Writes, RecordNext, Finalize, OutcomeRefused, Holding, Bindings
<1>5. CASE AdminStep
  <2>1. CASE Resume
    BY <2>1 DEF Resume
  <2>2. ASSUME NEW k \in Calls, NEW d \in {"retry", "abort", "accept"}, Decide(k, d)
        PROVE  calls'[c].intent
    BY <2>2 DEF Decide
  <2> QED BY <1>5, <2>1, <2>2 DEF AdminStep
<1>6. CASE Crash \/ StoreFails
  BY <1>6 DEF Crash, StoreFails, Paying, Caught
<1>7. CASE UNCHANGED vars
  BY <1>7 DEF vars
<1> QED BY <1>1, <1>2, <1>3, <1>4, <1>5, <1>6, <1>7 DEF Next

\* The steps of _finish_aborted follow one another.
LEMMA AbortPlaceStep ==
    ASSUME CallAssumptions, TypeOK, InPlace, SettlesInOrder, WorksOnGroup, AsksOnce,
           group # "paused", [Next]_vars
    PROVE  /\ pc' = "abortFinish" =>
                \/ pc = "abortFinish" /\ iteration' = iteration
                \/ /\ pc = "abort" /\ iteration = "open" /\ charged' /\ iteration' = iteration
                   /\ NothingHeld
           /\ pc' = "aborted" =>
                /\ pc \in {"aborted", "abortFinish"} \/ (pc = "abort" /\ iteration # "open")
                /\ pc = "abortFinish" => iteration' = "aborted"
<1> USE DEF runVars, procVars, Stays, Elsewhere, At, WorksOnGroup, TypeOK, Aborting,
            NothingHeld
<1>1. CASE GroupStep
  BY <1>1 DEF GroupStep, EnterGroup, EnterExisting, Existing, CallStored,
              CallPending, Reserve, CallRefused, RecordIntent, Enter, Unfinished,
              Decides, Writes
<1>2. CASE DispatchStep
  BY <1>2 DEF DispatchStep, Dispatch, Recover, Resolve, Answered, SentUnknown,
              NotSent, AdapterFails, CrashSending, AttemptFailed, AttemptDispatched,
              AttemptUnknown, AckDispatched, AckUnknown, RecordAmbiguous, Pause,
              Decides, Writes, Attempt, Queried, Failed, Sends, Sending, Thrown
<1>3. CASE SettleStep
  BY <1>3 DEF SettleStep, RecordResult, ReceiptRefused, NothingToSettle,
              RecordUsage, Commit, Release, Bind, DisputeGroup, DisputeRaised,
              NextCall, Decides, Writes, Refused, Failed
<1>4. CASE FinishStep
  BY <1>4 DEF FinishStep, FinishRefused, ChargeIteration, ApplyChangeSet,
              FinishIteration, RecordOutcome, CompleteGroup, AbortRelease,
              AbortCharge, AbortFinish, AbortAgain, AbortGroup, Decides, Closes,
              Failed, Writes, RecordNext, Finalize, OutcomeRefused, Holding, Bindings
<1>5. CASE AdminStep
  BY <1>5 DEF AdminStep, Resume, Decide
<1>6. CASE Crash \/ StoreFails
  BY <1>6 DEF Crash, StoreFails, Paying, Caught
<1>7. CASE UNCHANGED vars
  BY <1>7 DEF vars
<1> QED BY <1>1, <1>2, <1>3, <1>4, <1>5, <1>6, <1>7 DEF Next

\* The group is closed by its last two steps only, once every row that needs
\* one has an outcome.
LEMMA CloseStep ==
    ASSUME CallAssumptions, TypeOK, InPlace, SettlesInOrder, WorksOnGroup, AsksOnce,
           group # "paused", [Next]_vars
    PROVE  group' \in {"completed", "aborted"} =>
             \/ group' = group /\ pc = "idle"
             \/ /\ pc = "outcomes" /\ group' = "completed"
                /\ UNCHANGED <<calls, iteration, charged, applied>>
                /\ \A c \in Calls : calls[c].outcome = "completed"
             \/ /\ pc = "aborted" /\ group' = "aborted"
                /\ UNCHANGED <<calls, iteration, charged, applied>>
                /\ \A c \in Calls : calls[c].intent => calls[c].outcome = "aborted"
<1> USE DEF runVars, procVars, Stays, Elsewhere, At, WorksOnGroup, TypeOK, Recorded
<1>1. CASE GroupStep
  BY <1>1 DEF GroupStep, EnterGroup, EnterExisting, Existing, CallStored,
              CallPending, Reserve, CallRefused, RecordIntent, Enter, Unfinished,
              Decides, Writes
<1>2. CASE DispatchStep
  BY <1>2 DEF DispatchStep, Dispatch, Recover, Resolve, Answered, SentUnknown,
              NotSent, AdapterFails, CrashSending, AttemptFailed, AttemptDispatched,
              AttemptUnknown, AckDispatched, AckUnknown, RecordAmbiguous, Pause,
              Decides, Writes, Attempt, Queried, Failed, Sends, Sending, Thrown
<1>3. CASE SettleStep
  BY <1>3 DEF SettleStep, RecordResult, ReceiptRefused, NothingToSettle,
              RecordUsage, Commit, Release, Bind, DisputeGroup, DisputeRaised,
              NextCall, Decides, Writes, Refused, Failed
<1>4. CASE FinishStep
  BY <1>4 DEF FinishStep, FinishRefused, ChargeIteration, ApplyChangeSet,
              FinishIteration, RecordOutcome, CompleteGroup, AbortRelease,
              AbortCharge, AbortFinish, AbortAgain, AbortGroup, Decides, Closes,
              Failed, Writes, RecordNext, Finalize, OutcomeRefused, Holding, Bindings
<1>5. CASE AdminStep
  BY <1>5 DEF AdminStep, Resume, Decide
<1>6. CASE Crash \/ StoreFails
  BY <1>6 DEF Crash, StoreFails, Paying, Caught
<1>7. CASE UNCHANGED vars
  BY <1>7 DEF vars
<1> QED BY <1>1, <1>2, <1>3, <1>4, <1>5, <1>6, <1>7 DEF Next

\* The calls of a group are made one after another, each proven before the
\* next is reserved, and all before the iteration is touched.
LEMMA OrderStep ==
    ASSUME CallAssumptions, TypeOK, InPlace, ExecutedIsSent, SettlementInv, [Next]_vars,
           group' # "paused"
    PROVE  InOrder'
<1> USE DEF SettlementInv
<1>0. /\ group # "paused" /\ InOrder /\ IterationTells /\ ClosesInOrder /\ ClosedGroupIsClean
  BY PausedStays DEF UndisputedInv
<1>p. \A c \in Calls : Proven(c) => Proven(c)'
  BY ProvenStays
<1>n. NumCalls \in Nat /\ at \in Calls /\ Calls = 1..NumCalls
  BY DEF CallAssumptions, CallsAssumption, TypeOK, Calls
<1>1. ASSUME NEW c \in Calls, (calls[c].intent \/ calls[c].reservation # "none")',
             NEW d \in 1..(c - 1)
      PROVE  Proven(d)'
  <2>1. d \in Calls
    BY <1>n
  <2>2. \/ calls[c].intent \/ calls[c].reservation # "none"
        \/ c = at /\ pc \in {"call", "intent"}
    BY <1>0, <1>1, RowStep
  <2>3. Proven(d)
    BY <1>0, <2>2 DEF InOrder
  <2> QED BY <1>p, <2>1, <2>3
<1>2. ASSUME pc' # "idle", NEW d \in 1..(at' - 1)
      PROVE  Proven(d)'
  <2>1. CASE at' = at /\ pc # "idle"
    BY <1>0, <1>n, <1>p, <1>2, <2>1 DEF InOrder
  <2>2. CASE at' = 1
    BY <1>2, <2>2
  <2>3. CASE at' = at + 1 /\ at < NumCalls /\ Proven(at) /\ pc = "next"
    <3>1. d \in Calls /\ (d = at \/ d \in 1..(at - 1))
      BY <1>n, <1>2, <2>3
    <3> QED BY <1>0, <1>p, <2>3, <3>1 DEF InOrder
  <2> QED BY <1>0, <1>2, <2>1, <2>2, <2>3, AtStep
<1>3. ASSUME pc' = "finish"
      PROVE  at' = NumCalls /\ Settled'
  <2>1. at' = at /\ at = NumCalls /\ Settled
    BY <1>0, <1>3, <1>n, FinishPlaceStep DEF InOrder, SettlesInOrder, MoreCalls
  <2>2. Settled'
    BY <1>0, <1>3, <2>1, FinishSettledStep
  <2> QED BY <2>1, <2>2
<1>4. ASSUME pc' \in Closing \/ applied', NEW c \in Calls
      PROVE  Proven(c)'
  <2>1. CASE pc \in Closing \/ applied
    BY <1>0, <1>p, <2>1 DEF InOrder
  <2>2. CASE pc = "finish" /\ Completes
    <3>1. Proven(at) /\ at = NumCalls
      BY <1>0, <2>2 DEF InOrder, AsksOnce, Completes, Proven, Settled, Good
    <3>2. c = at \/ c \in 1..(at - 1)
      BY <1>n, <3>1
    <3> QED BY <1>0, <1>p, <2>2, <3>1, <3>2 DEF InOrder
  <2>3. applied' => applied \/ pc = "apply"
    BY <1>0, IterationMoveStep
  <2> QED BY <1>0, <1>4, <2>1, <2>2, <2>3, FinishPlaceStep DEF Closing
<1> QED BY <1>1, <1>2, <1>3, <1>4 DEF InOrder, Calls

\* The iteration tells what its calls came to, and every step of closing it
\* finds the ones before it done.
LEMMA IterationStep ==
    ASSUME CallAssumptions, TypeOK, InPlace, ExecutedIsSent, SettlementInv, [Next]_vars,
           group' # "paused"
    PROVE  IterationTells' /\ ClosesInOrder'
<1> USE DEF SettlementInv
<1>0. /\ group # "paused" /\ InOrder /\ IterationTells /\ ClosesInOrder /\ ClosedGroupIsClean
  BY PausedStays DEF UndisputedInv
<1>n. NumCalls \in Nat /\ at \in Calls /\ Calls = 1..NumCalls
  BY DEF CallAssumptions, CallsAssumption, TypeOK, Calls
<1>b. applied \in BOOLEAN /\ charged \in BOOLEAN /\ applied' \in BOOLEAN /\ charged' \in BOOLEAN
  BY CallTypeStep DEF TypeOK
<1>m. /\ applied' # applied => applied' = TRUE /\ pc = "apply" /\ iteration = "open"
      /\ charged' # charged => charged' = TRUE
      /\ iteration' # iteration =>
           \/ pc = "complete" /\ iteration = "open" /\ iteration' = "completed"
           \/ pc = "abortFinish" /\ iteration' = "aborted"
  BY <1>0, IterationMoveStep
<1>1. iteration' = "completed" => charged' /\ applied'
  BY <1>0, <1>b, <1>m DEF IterationTells, ClosesInOrder
<1>a. applied => applied'
  BY <1>b, <1>m
<1>2. iteration' = "aborted" => charged'
  BY <1>0, <1>b, <1>m DEF IterationTells, ClosesInOrder
<1>h. ASSUME NothingHeld, pc # "intent"
      PROVE  NothingHeld'
  <2> SUFFICES ASSUME NEW c \in Calls, calls'[c].intent
               PROVE  calls'[c].reservation \notin {"held", "committed"}
    BY DEF NothingHeld, Calls
  <2>1. calls[c].intent /\ calls[c].reservation \notin {"held", "committed"}
    BY <1>0, <1>h, RowStep DEF NothingHeld
  <2> QED BY <1>0, <2>1, RowStep
<1>3. ASSUME iteration' = "aborted"
      PROVE  NothingHeld'
  <2>1. NothingHeld /\ pc # "intent"
    BY <1>0, <1>m, <1>3 DEF IterationTells, ClosesInOrder
  <2> QED BY <1>h, <2>1
<1>4. ASSUME NEW c \in Calls, calls'[c].outcome # "none"
      PROVE  iteration' # "open" /\ (calls'[c].outcome = "completed" => applied')
  <2>1. iteration # "open" /\ (calls'[c].outcome = "completed" => applied)
    BY <1>0, <1>4, RowStep DEF IterationTells, ClosesInOrder
  <2> QED BY <1>0, <1>a, <1>m, <2>1 DEF ClosesInOrder
<1>6. /\ pc' \in {"apply", "complete"} /\ iteration' = "open" => charged'
      /\ pc' \in {"complete", "outcome", "outcomes"} => applied'
      /\ pc' \in {"outcome", "outcomes"} => iteration' # "open"
      /\ pc' = "intent" => iteration' = "open"
  <2>1. /\ pc' = "apply" => pc = "apply" \/ charged' = TRUE \/ iteration # "open"
        /\ pc' = "complete" => (pc = "complete" \/ applied' = TRUE) /\ pc \in {"apply", "complete"}
        /\ pc' \in {"outcome", "outcomes"} =>
             \/ pc \in {"outcome", "outcomes"}
             \/ pc = "complete" /\ iteration' # "open"
        /\ pc' = "intent" => (iteration = "open" /\ UNCHANGED iteration) \/ pc = "intent"
    BY <1>0, ClosingPlaceStep
  <2> QED BY <1>0, <1>b, <1>m, <2>1 DEF IterationTells, ClosesInOrder
<1>8. ASSUME pc' = "abortFinish"
      PROVE  iteration' = "open" /\ charged' /\ NothingHeld'
  <2>1. \/ pc = "abortFinish" /\ iteration' = iteration
        \/ /\ pc = "abort" /\ iteration = "open" /\ charged' /\ iteration' = iteration
           /\ NothingHeld
    BY <1>0, <1>8, AbortPlaceStep
  <2>2. NothingHeld /\ pc # "intent"
    BY <1>0, <2>1 DEF ClosesInOrder
  <2>3. iteration' = "open" /\ charged'
    BY <1>0, <1>b, <1>m, <2>1 DEF ClosesInOrder
  <2> QED BY <1>h, <2>2, <2>3
<1>9. pc' = "aborted" => iteration' # "open"
  <2>1. ASSUME pc' = "aborted" PROVE
             /\ pc \in {"aborted", "abortFinish"} \/ (pc = "abort" /\ iteration # "open")
             /\ pc = "abortFinish" => iteration' = "aborted"
    BY <1>0, <2>1, AbortPlaceStep
  <2> QED BY <1>0, <1>m, <2>1 DEF ClosesInOrder
<1> QED BY <1>1, <1>2, <1>3, <1>4, <1>6, <1>8, <1>9 DEF IterationTells, ClosesInOrder, Calls

\* The step that closes the group, or any after it, leaves it clean.
LEMMA ClosedStep ==
    ASSUME CallAssumptions, TypeOK, InPlace, ExecutedIsSent, SettlementInv, [Next]_vars,
           group' \in {"completed", "aborted"}
    PROVE  ClosedGroupIsClean'
<1> USE DEF SettlementInv
<1>0. /\ group # "paused" /\ InOrder /\ IterationTells /\ ClosesInOrder /\ ClosedGroupIsClean
  BY PausedStays DEF UndisputedInv
<1>b. applied \in BOOLEAN /\ charged \in BOOLEAN /\ applied' \in BOOLEAN /\ charged' \in BOOLEAN
      /\ iteration \in {"open", "completed", "aborted"}
  BY CallTypeStep DEF TypeOK
<1>c. \A c \in Calls : Proven(c) => calls[c].reservation = "closed"
  BY DEF Proven, BoundIsClosed
<1>1. CASE group' = group /\ pc = "idle"
  <2>1. UNCHANGED iteration /\ UNCHANGED applied /\ (charged => charged')
    BY <1>0, <1>b, <1>1, IterationMoveStep
  <2>2. ASSUME NEW c \in Calls
        PROVE  /\ calls'[c].intent = calls[c].intent
               /\ calls'[c].outcome = calls[c].outcome
               /\ calls'[c].intent => calls'[c].reservation \notin {"held", "committed"}
    BY <1>0, <1>1, <2>2, RowStep DEF ClosedGroupIsClean
  <2> QED BY <1>0, <1>1, <2>1, <2>2 DEF ClosedGroupIsClean, Calls
<1>2. CASE /\ pc = "outcomes" /\ group' = "completed"
           /\ UNCHANGED <<calls, iteration, charged, applied>>
           /\ \A c \in Calls : calls[c].outcome = "completed"
  <2>1. iteration # "open" /\ charged /\ applied
    BY <1>0, <1>b, <1>2 DEF IterationTells, ClosesInOrder
  <2>2. \A c \in Calls : calls[c].reservation = "closed" /\ calls[c].intent
    BY <1>0, <1>2, <1>c DEF InOrder, Closing, Proven
  <2> QED BY <1>2, <2>1, <2>2 DEF ClosedGroupIsClean, Calls
<1>3. CASE /\ pc = "aborted" /\ group' = "aborted"
           /\ UNCHANGED <<calls, iteration, charged, applied>>
           /\ \A c \in Calls : calls[c].intent => calls[c].outcome = "aborted"
  <2>1. iteration # "open" /\ charged
    BY <1>0, <1>b, <1>3 DEF IterationTells, ClosesInOrder
  <2>2. NothingHeld
    <3>1. CASE iteration = "completed"
      BY <1>0, <1>c, <3>1 DEF IterationTells, InOrder, NothingHeld
    <3> QED BY <1>0, <1>b, <2>1, <3>1 DEF IterationTells
  <2> QED BY <1>3, <2>1, <2>2 DEF ClosedGroupIsClean, NothingHeld, Calls
<1> QED BY <1>0, <1>1, <1>2, <1>3, CloseStep

\* The invariant is kept by every step.
LEMMA SettlementStep ==
    ASSUME CallAssumptions, TypeOK, InPlace, ExecutedIsSent, SettlementInv, [Next]_vars
    PROVE  SettlementInv'
<1>1. BoundIsClosed' /\ SettlesInOrder'
  BY BoundStep DEF SettlementInv
<1>2. WorksOnGroup' /\ AsksOnce'
  BY WorksStep DEF SettlementInv, UndisputedInv
<1>3. ASSUME group' # "paused"
      PROVE  InOrder' /\ IterationTells' /\ ClosesInOrder'
  BY <1>3, OrderStep, IterationStep
<1>4. ClosedGroupIsClean'
  BY ClosedStep DEF ClosedGroupIsClean
<1> QED BY <1>1, <1>2, <1>3, <1>4 DEF SettlementInv, UndisputedInv

\* An adjudication is completed on the group path alone, so that a completed
\* call is bound even in a disputed group.
DeliberationInv ==
    /\ pc \in Closing => path = "group"
    /\ \A c \in Calls : calls[c].outcome = "completed" => calls[c].bound

\* Only an open group completes a deliberation, and its calls are all proven.
LEMMA DeliberationStep ==
    ASSUME CallAssumptions, TypeOK, InPlace, WorksOnGroup, AsksOnce, UndisputedInv, NumCalls # 1,
           DeliberationInv, [Next]_vars
    PROVE  DeliberationInv'
<1> USE DEF runVars, procVars, Stays, Elsewhere, At, WorksOnGroup, AsksOnce,
            DeliberationInv, TypeOK, Call, Closing, Settling
<1>1. CASE GroupStep
  <2>1. CASE EnterGroup
    BY <2>1 DEF EnterGroup, Enter
  <2>2. CASE EnterExisting
    BY <2>2 DEF EnterExisting, Enter, Unfinished
  <2>3. CASE Existing
    BY <2>3 DEF Existing, Decides
  <2>4. CASE CallStored
    BY <2>4 DEF CallStored
  <2>5. CASE CallPending
    BY <2>5 DEF CallPending, Decides
  <2>6. CASE Reserve
    BY <2>6 DEF Reserve, Writes
  <2>7. CASE CallRefused
    BY <2>7 DEF CallRefused, Decides
  <2>8. CASE RecordIntent
    BY <2>8 DEF RecordIntent, Writes, Decides
  <2> QED BY <1>1, <2>1, <2>2, <2>3, <2>4, <2>5, <2>6, <2>7, <2>8 DEF GroupStep
<1>2. CASE DispatchStep
  BY <1>2 DEF DispatchStep, Dispatch, Recover, Resolve, Answered, SentUnknown,
              NotSent, AdapterFails, CrashSending, AttemptFailed, AttemptDispatched,
              AttemptUnknown, AckDispatched, AckUnknown, RecordAmbiguous, Pause,
              Decides, Writes, Attempt, Queried, Failed, Sends, Sending, Thrown
<1>3. CASE SettleStep
  <2>1. CASE RecordResult
    BY <2>1 DEF RecordResult
  <2>2. CASE ReceiptRefused
    BY <2>2 DEF ReceiptRefused, Decides
  <2>3. CASE NothingToSettle
    BY <2>3 DEF NothingToSettle, Decides
  <2>4. CASE RecordUsage
    <3>1. CASE iteration = "open"
      BY <2>4, <3>1 DEF RecordUsage, Writes
    <3>2. CASE iteration # "open"
      BY <2>4, <3>2 DEF RecordUsage, Refused, Decides, Failed
    <3> QED BY <3>1, <3>2
  <2>5. CASE Commit
    <3>1. CASE calls[at].result = "overrun" \/ calls[at].reservation = "released"
      BY <2>5, <3>1 DEF Commit, Refused, Decides, Failed
    <3>2. CASE ~(calls[at].result = "overrun" \/ calls[at].reservation = "released")
      BY <2>5, <3>2 DEF Commit, Writes
    <3> QED BY <3>1, <3>2
  <2>6. CASE Release
    BY <2>6 DEF Release, Writes
  <2>7. CASE Bind
    BY <2>7 DEF Bind, Writes
  <2>8. CASE DisputeGroup
    BY <2>8 DEF DisputeGroup
  <2>9. CASE DisputeRaised
    BY <2>9 DEF DisputeRaised, Decides
  <2>10. CASE NextCall
    BY <2>10 DEF NextCall, Decides
  <2> QED BY <1>3, <2>1, <2>2, <2>3, <2>4, <2>5, <2>6, <2>7, <2>8, <2>9, <2>10 DEF
             SettleStep
<1>4. CASE FinishStep
  <2>1. CASE FinishRefused
    BY <2>1 DEF FinishRefused, Decides
  <2>2. CASE ChargeIteration
    BY <2>2 DEF ChargeIteration, Closes, Completes
  <2>3. CASE ApplyChangeSet
    BY <2>3 DEF ApplyChangeSet, Closes, Decides, Failed
  <2>4. CASE FinishIteration
    BY <2>4 DEF FinishIteration, Closes
  <2>5. CASE RecordOutcome
    BY <2>5 DEF RecordOutcome, Writes, Decides, Failed, UndisputedInv, InOrder, Proven
  <2>6. CASE CompleteGroup
    BY <2>6 DEF CompleteGroup, RecordNext, Finalize, OutcomeRefused,
               Decides, UndisputedInv, InOrder, Proven
  <2>7. CASE AbortRelease
    BY <2>7 DEF AbortRelease, Holding, Bindings
  <2>8. CASE AbortCharge
    BY <2>8 DEF AbortCharge, Closes, Holding
  <2>9. CASE AbortFinish
    BY <2>9 DEF AbortFinish, Closes
  <2>10. CASE AbortAgain
    BY <2>10 DEF AbortAgain, Decides
  <2>11. CASE AbortGroup
    <3>1. ASSUME NEW cs, RecordNext("aborted", cs, "aborted") PROVE DeliberationInv'
      BY <3>1 DEF RecordNext
    <3>2. CASE Finalize("aborted", "aborted")
      BY <3>2 DEF Finalize
    <3>3. CASE Decides("aborted", "idle")
      BY <3>3 DEF Decides
    <3> QED BY <2>11, <3>1, <3>2, <3>3 DEF AbortGroup, OutcomeRefused
  <2> QED BY <1>4, <2>1, <2>2, <2>3, <2>4, <2>5, <2>6, <2>7, <2>8, <2>9, <2>10,
             <2>11 DEF FinishStep
<1>5. CASE AdminStep
  <2>1. CASE Resume
    BY <2>1 DEF Resume
  <2>2. ASSUME NEW k \in Calls, NEW d \in {"retry", "abort", "accept"}, Decide(k, d)
        PROVE  DeliberationInv'
    BY <2>2 DEF Decide
  <2> QED BY <1>5, <2>1, <2>2 DEF AdminStep
<1>6. CASE Crash \/ StoreFails
  BY <1>6 DEF Crash, StoreFails, Paying, Caught
<1>7. CASE UNCHANGED vars
  BY <1>7 DEF vars
<1> QED BY <1>1, <1>2, <1>3, <1>4, <1>5, <1>6, <1>7 DEF Next

\* An execution counts once, for the call at hand.
LEMMA ExecutesStep ==
    ASSUME TypeOK, Executes, NEW c \in Calls
    PROVE  \/ provider'[c].executed = provider[c].executed
           \/ c = at /\ provider'[c].executed = provider[c].executed + 1
  BY DEF TypeOK, Executes

\* Without keys, the attempt tells whether the provider executed the call: it
\* is only sent when it was never executed, or on a retry.
NoRepeatInv ==
    ~capable.idempotent =>
        /\ pc = "retry" => calls[at].decision = "retry"
        /\ pc # "resend"
        /\ pc = "send" => calls[at].stage = "dispatching"
        /\ \A c \in Calls : calls[c].decision # "retry" =>
             /\ provider[c].executed \in {0, 1}
             /\ calls[c].stage \in {"none", "failed"} => provider[c].executed = 0
        /\ pc \in {"send", "failed"} /\ calls[at].decision # "retry"
              => provider[at].executed = 0

\* A call is sent again on a retry only, when the provider has no keys.
LEMMA NoRepeatStep ==
    ASSUME CallAssumptions, TypeOK, InPlace, NoRepeatInv, HiddenErrors = FALSE,
           \A k \in Capabilities : k.query => k.idempotent, [Next]_vars
    PROVE  NoRepeatInv'
<1> USE DEF runVars, procVars, Stays, Elsewhere, At, NoRepeatInv, TypeOK, Call
<1>1. CASE GroupStep
  <2>1. CASE EnterGroup
    BY <2>1 DEF EnterGroup, Enter
  <2>2. CASE EnterExisting
    BY <2>2 DEF EnterExisting, Enter, Unfinished
  <2>3. CASE Existing
    BY <2>3 DEF Existing, Decides
  <2>4. CASE CallStored
    BY <2>4 DEF CallStored
  <2>5. CASE CallPending
    BY <2>5 DEF CallPending, Decides
  <2>6. CASE Reserve
    BY <2>6 DEF Reserve, Writes
  <2>7. CASE CallRefused
    BY <2>7 DEF CallRefused, Decides
  <2>8. CASE RecordIntent
    BY <2>8 DEF RecordIntent, Writes, Decides
  <2> QED BY <1>1, <2>1, <2>2, <2>3, <2>4, <2>5, <2>6, <2>7, <2>8 DEF GroupStep
<1>2. CASE DispatchStep
  <2>1. CASE Dispatch
    <3>1. CASE RetryAllowed /\ Writes("dispatch", "retry", Attempt("dispatching"))
      BY <3>1 DEF RetryAllowed, Writes, Attempt
    <3>2. CASE /\ ~RetryAllowed /\ ~Uncertain /\ ~Stalled
               /\ Writes("dispatch", "send", Attempt("dispatching"))
      <4>1. ~capable.idempotent => calls[at].stage \in {"none", "failed"}
        BY <3>2 DEF Uncertain, Stalled
      <4> QED BY <3>2, <4>1 DEF RetryAllowed, Writes, Attempt
    <3>3. CASE Decides("dispatch", "recover") \/ Decides("dispatch", "ambiguous")
      BY <3>3 DEF Decides
    <3> QED BY <2>1, <3>1, <3>2, <3>3 DEF Dispatch
  <2>2. CASE Recover
    BY <2>2 DEF Recover, Queried, Decides, Writes, Attempt, Failed
  <2>3. CASE Resolve
    BY <2>3 DEF Resolve, Queried, Decides, Failed
  <2>4. CASE Answered
    <3>1. ASSUME NEW here \in Sending, pc = here, pc' \in {"record", "answered"}, Executes
          PROVE  NoRepeatInv'
      BY <2>4, <3>1, ExecutesStep DEF Answered, Sends, Sending
    <3> QED BY <2>4, <3>1 DEF Answered, Sends
  <2>5. CASE SentUnknown
    <3>1. CASE Executes
      BY <2>5, <3>1, ExecutesStep DEF SentUnknown, Sends, Sending, Thrown
    <3>2. CASE UNCHANGED provider
      BY <2>5, <3>2 DEF SentUnknown, Sends, Sending, Thrown
    <3> QED BY <2>5, <3>1, <3>2 DEF SentUnknown
  <2>6. CASE NotSent
    BY <2>6 DEF NotSent, Sends
  <2>7. CASE AdapterFails
    BY <2>7 DEF AdapterFails, Sends, Sending, Thrown
  <2>8. CASE CrashSending
    BY <2>8, ExecutesStep DEF CrashSending, Sending
  <2>9. CASE AttemptFailed
    BY <2>9 DEF AttemptFailed, Writes, Attempt, Failed
  <2>10. CASE AttemptDispatched
    BY <2>10 DEF AttemptDispatched, Writes, Attempt
  <2>11. CASE AttemptUnknown
    <3>1. CASE Writes("unknown", "unknownAck", Attempt("unknown"))
      BY <3>1 DEF Writes, Attempt
    <3>2. CASE Writes("unsent", "unsentAck", Attempt("unknown"))
      BY <3>2 DEF Writes, Attempt
    <3> QED BY <2>11, <3>1, <3>2 DEF AttemptUnknown
  <2>12. CASE AckDispatched
    BY <2>12 DEF AckDispatched, Writes
  <2>13. CASE AckUnknown
    <3>1. CASE calls[at].ack = "dispatched"
      BY <2>13, <3>1 DEF AckUnknown, Decides, Failed
    <3>2. CASE calls[at].ack # "dispatched"
      <4>1. ASSUME NEW here, NEW next \in {"idle", "resolve"},
                   Writes(here, next, [calls[at] EXCEPT !.ack = "unknown"])
            PROVE  NoRepeatInv'
        BY <4>1 DEF Writes
      <4> QED BY <2>13, <3>2, <4>1 DEF AckUnknown
    <3> QED BY <3>1, <3>2
  <2>14. CASE RecordAmbiguous
    BY <2>14 DEF RecordAmbiguous, Writes
  <2>15. CASE Pause
    BY <2>15 DEF Pause
  <2> QED BY <1>2, <2>1, <2>2, <2>3, <2>4, <2>5, <2>6, <2>7, <2>8, <2>9, <2>10,
             <2>11, <2>12, <2>13, <2>14, <2>15 DEF DispatchStep
<1>3. CASE SettleStep
  <2>1. CASE RecordResult
    BY <2>1 DEF RecordResult
  <2>2. CASE ReceiptRefused
    BY <2>2 DEF ReceiptRefused, Decides
  <2>3. CASE NothingToSettle
    BY <2>3 DEF NothingToSettle, Decides
  <2>4. CASE RecordUsage
    <3>1. CASE iteration = "open"
      BY <2>4, <3>1 DEF RecordUsage, Writes
    <3>2. CASE iteration # "open"
      BY <2>4, <3>2 DEF RecordUsage, Refused, Decides, Failed
    <3> QED BY <3>1, <3>2
  <2>5. CASE Commit
    <3>1. CASE calls[at].result = "overrun" \/ calls[at].reservation = "released"
      BY <2>5, <3>1 DEF Commit, Refused, Decides, Failed
    <3>2. CASE ~(calls[at].result = "overrun" \/ calls[at].reservation = "released")
      BY <2>5, <3>2 DEF Commit, Writes
    <3> QED BY <3>1, <3>2
  <2>6. CASE Release
    BY <2>6 DEF Release, Writes
  <2>7. CASE Bind
    BY <2>7 DEF Bind, Writes
  <2>8. CASE DisputeGroup
    BY <2>8 DEF DisputeGroup
  <2>9. CASE DisputeRaised
    BY <2>9 DEF DisputeRaised, Decides
  <2>10. CASE NextCall
    BY <2>10 DEF NextCall, Decides
  <2> QED BY <1>3, <2>1, <2>2, <2>3, <2>4, <2>5, <2>6, <2>7, <2>8, <2>9, <2>10 DEF
             SettleStep
<1>4. CASE FinishStep
  <2>1. CASE FinishRefused
    BY <2>1 DEF FinishRefused, Decides
  <2>2. CASE ChargeIteration
    BY <2>2 DEF ChargeIteration, Closes
  <2>3. CASE ApplyChangeSet
    BY <2>3 DEF ApplyChangeSet, Closes, Decides, Failed
  <2>4. CASE FinishIteration
    BY <2>4 DEF FinishIteration, Closes
  <2>5. CASE RecordOutcome
    BY <2>5 DEF RecordOutcome, Writes, Decides, Failed
  <2>6. CASE CompleteGroup
    <3>1. ASSUME NEW cs, RecordNext("outcomes", cs, "completed")
          PROVE  NoRepeatInv'
      BY <3>1 DEF RecordNext
    <3>2. CASE Finalize("outcomes", "completed")
      BY <3>2 DEF Finalize
    <3>3. CASE Decides("outcomes", "idle")
      BY <3>3 DEF Decides
    <3> QED BY <2>6, <3>1, <3>2, <3>3 DEF CompleteGroup, OutcomeRefused
  <2>7. CASE AbortRelease
    BY <2>7 DEF AbortRelease, Holding, Bindings
  <2>8. CASE AbortCharge
    BY <2>8 DEF AbortCharge, Closes, Holding
  <2>9. CASE AbortFinish
    BY <2>9 DEF AbortFinish, Closes
  <2>10. CASE AbortAgain
    BY <2>10 DEF AbortAgain, Decides
  <2>11. CASE AbortGroup
    <3>1. ASSUME NEW cs, RecordNext("aborted", cs, "aborted") PROVE NoRepeatInv'
      BY <3>1 DEF RecordNext
    <3>2. CASE Finalize("aborted", "aborted")
      BY <3>2 DEF Finalize
    <3>3. CASE Decides("aborted", "idle")
      BY <3>3 DEF Decides
    <3> QED BY <2>11, <3>1, <3>2, <3>3 DEF AbortGroup, OutcomeRefused
  <2> QED BY <1>4, <2>1, <2>2, <2>3, <2>4, <2>5, <2>6, <2>7, <2>8, <2>9, <2>10,
             <2>11 DEF FinishStep
<1>5. CASE AdminStep
  <2>1. CASE Resume
    BY <2>1 DEF Resume
  <2>2. ASSUME NEW k \in Calls, NEW d \in {"retry", "abort", "accept"}, Decide(k, d)
        PROVE  NoRepeatInv'
    BY <2>2 DEF Decide
  <2> QED BY <1>5, <2>1, <2>2 DEF AdminStep
<1>6. CASE Crash \/ StoreFails
  BY <1>6 DEF Crash, StoreFails, Paying, Caught
<1>7. CASE UNCHANGED vars
  BY <1>7 DEF vars
<1> QED BY <1>1, <1>2, <1>3, <1>4, <1>5, <1>6, <1>7 DEF Next

(***************************************************************************)
(* The theorems                                                            *)
(***************************************************************************)

\* An undisputed call that completed an iteration is settled.
UndisputedCallIsSettled == group # "paused" => CompletedCallIsSettled

CallInv == TypeOK /\ InPlace /\ ExecutedIsSent /\ SettlementInv

LEMMA CallInvHolds ==
    ASSUME CallAssumptions
    PROVE  Spec => []CallInv
<1>1. Init => CallInv
  <2> SUFFICES ASSUME Init PROVE CallInv
    OBVIOUS
  <2>n. 1 \in Calls
    BY DEF Calls, CallAssumptions, CallsAssumption
  <2>1. TypeOK
    <3>1. NewCall \in Call
      BY DEF NewCall, Call
    <3>2. 0 \in 0..MaxSends /\ 0 \in 0..MaxCrashes
      BY DEF CallAssumptions, CallBoundsAssumption
    <3> QED BY <2>n, <3>1, <3>2 DEF Init, TypeOK
  <2>2. InPlace /\ ExecutedIsSent
    BY DEF Init, InPlace, Places, ExecutedIsSent
  <2>3. BoundIsClosed /\ SettlesInOrder /\ WorksOnGroup /\ AsksOnce
    BY DEF Init, NewCall, BoundIsClosed, SettlesInOrder, WorksOnGroup, AsksOnce, Asking,
           Settling, Closing
  <2>4. UndisputedInv
    BY DEF Init, NewCall, UndisputedInv, InOrder, IterationTells, ClosesInOrder,
           NothingHeld, ClosedGroupIsClean, Closing, Aborting
  <2> QED BY <2>1, <2>2, <2>3, <2>4 DEF CallInv, SettlementInv
<1>2. CallInv /\ [Next]_vars => CallInv'
  BY CallTypeStep, SettlementStep DEF CallInv
<1> QED BY <1>1, <1>2, PTL DEF Spec

\* Every variable has its type, whatever the adapter supports and wherever
\* the process crashes.
THEOREM CallTypeCorrect ==
    ASSUME CallAssumptions
    PROVE  Spec => []TypeOK
<1>1. CallInv => TypeOK
  BY DEF CallInv
<1> QED BY <1>1, CallInvHolds, PTL

\* A closed group leaves no recorded call open or reserved: for any number of
\* calls and any responses, bills beyond their reservations included, wherever
\* the process dies, a write fails or an intent cannot be built again.
THEOREM ClosedGroupsAreClean ==
    ASSUME CallAssumptions
    PROVE  Spec => []ClosedGroupIsClean
<1>1. CallInv => ClosedGroupIsClean
  BY DEF CallInv, SettlementInv, UndisputedInv, ClosedGroupIsClean
<1> QED BY <1>1, CallInvHolds, PTL

\* Unless its group is in dispute, a call that completed an iteration has its
\* usage recorded and bound and its reservation closed.
THEOREM UndisputedCallsAreSettled ==
    ASSUME CallAssumptions
    PROVE  Spec => []UndisputedCallIsSettled
<1>1. CallInv => UndisputedCallIsSettled
  <2> SUFFICES ASSUME CallInv, group # "paused",
                      NEW c \in Calls, calls[c].outcome = "completed"
               PROVE  calls[c].usage /\ calls[c].bound /\ calls[c].reservation = "closed"
    BY DEF CallInv, UndisputedCallIsSettled, CompletedCallIsSettled
  <2>1. InOrder /\ IterationTells /\ BoundIsClosed
    BY DEF CallInv, SettlementInv, UndisputedInv
  <2>2. applied
    BY <2>1 DEF IterationTells
  <2>3. Proven(c)
    BY <2>1, <2>2 DEF InOrder
  <2> QED BY <2>1, <2>3 DEF Proven, BoundIsClosed
<1> QED BY <1>1, CallInvHolds, PTL

\* A deliberation, whose group has several calls, completes none that is not
\* settled, disputed or not.
THEOREM CompletedCallsAreSettled ==
    ASSUME CallAssumptions, NumCalls # 1
    PROVE  Spec => []CompletedCallIsSettled
<1>1. Init => DeliberationInv
  BY DEF Init, NewCall, DeliberationInv, Closing
<1>2. CallInv /\ DeliberationInv /\ [Next]_vars => DeliberationInv'
  BY DeliberationStep DEF CallInv, SettlementInv
<1>3. CallInv /\ DeliberationInv => CompletedCallIsSettled
  BY DEF CallInv, SettlementInv, BoundIsClosed, DeliberationInv, CompletedCallIsSettled
<1> QED BY <1>1, <1>2, <1>3, CallInvHolds, PTL DEF Spec

\* When adapters tell a call that was executed from one that was not, and
\* every provider that can be queried also knows its keys, no crash makes a
\* provider execute a call twice unless an administrator asked for it.  The
\* run RunnerCallRepeat shows what one that can only be queried does.
THEOREM NothingIsRepeated ==
    ASSUME CallAssumptions, HiddenErrors = FALSE,
           \A k \in Capabilities : k.query => k.idempotent
    PROVE  Spec => []NoUnauthorisedRepeat
<1>1. Init => NoRepeatInv
  BY DEF Init, NewCall, NoRepeatInv
<1>2. CallInv /\ NoRepeatInv /\ [Next]_vars => NoRepeatInv'
  BY NoRepeatStep DEF CallInv
<1>3. CallInv /\ NoRepeatInv => NoUnauthorisedRepeat
  <2> SUFFICES ASSUME NoRepeatInv, ~capable.idempotent, NEW c \in Calls,
                      calls[c].decision # "retry", provider[c].executed > 1
               PROVE  FALSE
    BY DEF NoUnauthorisedRepeat
  <2>1. provider[c].executed \in {0, 1}
    BY DEF NoRepeatInv
  <2> QED BY <2>1
<1> QED BY <1>1, <1>2, <1>3, CallInvHolds, PTL DEF Spec

(***************************************************************************)
(* AgentPortability                                                        *)
(***************************************************************************)
MadeRow == [model : Models, input : 1..MaxVersion, binding : Nat]
BindingRow == [host : Hosts, backend : Backends]
ApprovalRow == [old : Nat, host : Hosts, backend : Backends,
                version : 1..MaxVersion, state : {"PENDING", "CONSUMED"}]
SnapshotRow == [handoff : Nat, phase : {"preview", "approval_consume"},
                version : 1..MaxVersion, binding : Nat]
PortablePacket == [handoff : Nat, binding : Nat, version : 1..MaxVersion]

PortableRows ==
    /\ fixture \in BOOLEAN
    /\ profile \in [Profiles -> Statuses \cup {"none"}]
    /\ installed \subseteq Hosts
    /\ run \in [status : {"RUNNING", "PAUSED"}, version : 1..MaxVersion]
    /\ made \in Seq(MadeRow) /\ bindings \in Seq(BindingRow) /\ handoffs \in Seq(ApprovalRow)
    /\ snapshots \subseteq SnapshotRow /\ packets \subseteq PortablePacket
    /\ acks \subseteq [handoff : Nat, host : Hosts]

\* The inventory lets no run change its backend that has made a call, so that
\* its first call is of the current binding or older than any.
FirstCallTells ==
    /\ made # <<>> => made[1].binding \in {0, Len(bindings)}
    /\ made # <<>> => made[1].input <= run.version

ResultsTell ==
    \A r \in results :
      /\ r.payload \in Payloads /\ r.binding \in DOMAIN bindings
      /\ r.input \in Nat /\ r.input <= run.version
      /\ \E i \in invocations : /\ i.id = r.invocation
                                /\ i.descriptor.binding = r.binding
                                /\ i.descriptor.input = r.input
      /\ ~fixture => /\ made # <<>> /\ r.invocation.call = 1
                     /\ made[1].binding \in {0, r.binding}

ProfilesTell == BindingsVerify /\ InstallationsVerify
ApprovalsTell == HandoffsVerify /\ SnapshotsVerify /\ PacketsVerify

PortabilityInv == PortableRows /\ FirstCallTells /\ ResultsTell /\ ProfilesTell /\ ApprovalsTell

LEMMA PortabilityInvInit ==
    ASSUME PortabilityAssumption, PortabilityInit
    PROVE  PortabilityInv
<1>1. PortableRows
  <2>1. 1 \in 1..MaxVersion
    BY DEF PortabilityAssumption
  <2> QED BY <2>1 DEF PortabilityInit, PortableRows, Statuses
<1> QED BY <1>1 DEF PortabilityInit, PortabilityInv, FirstCallTells, ResultsTell, ProfilesTell,
             ApprovalsTell, BindingsVerify, InstallationsVerify, HandoffsVerify, SnapshotsVerify,
             PacketsVerify

\* What every step of the profiles leaves: a profile there is stays one.
LEMMA ProfileSteps ==
    ASSUME PortabilityAssumption, PortabilityInv,
           UNCHANGED <<fixture, portableVars, handoffVars, resultVars>>,
           profile' \in [Profiles -> Statuses \cup {"none"}],
           \A p \in Profiles : profile[p] \in Statuses => profile'[p] \in Statuses,
           installed' \subseteq Hosts,
           \A h \in installed' \ installed : profile'[h] \in Statuses
    PROVE  PortabilityInv'
<1>1. UNCHANGED <<fixture, run, made, bindings, handoffs, snapshots, packets, acks,
                  invocations, results>>
  BY DEF portableVars, handoffVars, resultVars
<1>2. PortableRows'
  BY <1>1 DEF PortabilityInv, PortableRows, Profiles
<1>3. (FirstCallTells /\ ResultsTell /\ ApprovalsTell)'
  BY <1>1 DEF PortabilityInv, FirstCallTells, ResultsTell, ApprovalsTell, HandoffsVerify,
              SnapshotsVerify, PacketsVerify
<1>4. BindingsVerify'
  <2>1. ASSUME NEW k \in DOMAIN bindings
        PROVE  {profile'[bindings[k].host], profile'[bindings[k].backend]} \subseteq Statuses
    <3>1. bindings[k] \in BindingRow
      BY DEF PortabilityInv, PortableRows
    <3>2. bindings[k].host \in Profiles /\ bindings[k].backend \in Profiles
      BY <3>1 DEF BindingRow, Profiles
    <3> QED BY <3>2 DEF PortabilityInv, ProfilesTell, BindingsVerify
  <2> QED BY <1>1, <2>1 DEF BindingsVerify
<1>5. InstallationsVerify'
  BY <1>1 DEF PortabilityInv, ProfilesTell, InstallationsVerify, PortableRows, Profiles
<1> QED BY <1>2, <1>3, <1>4, <1>5 DEF PortabilityInv, ProfilesTell

\* The run goes on, pauses or resumes: its version does not fall, its first call stays.
LEMMA PortableRunSteps ==
    ASSUME PortabilityAssumption, PortabilityInv,
           UNCHANGED <<profileVars, handoffVars, resultVars>>,
           run' \in [status : {"RUNNING", "PAUSED"}, version : 1..MaxVersion],
           run.version <= run'.version,
           made' \in Seq(MadeRow), made # <<>> => made' # <<>> /\ made'[1] = made[1],
           made = <<>> /\ made' # <<>> =>
              made'[1].binding = Len(bindings) /\ made'[1].input <= run'.version
    PROVE  PortabilityInv'
<1>1. UNCHANGED <<fixture, profile, installed, bindings, handoffs, snapshots, packets, acks,
                  invocations, results>>
  BY DEF profileVars, handoffVars, resultVars
<1>2. run.version \in Int /\ run'.version \in Int
  BY DEF PortabilityInv, PortableRows
<1>3. PortableRows'
  BY <1>1 DEF PortabilityInv, PortableRows
<1>4. (ProfilesTell /\ HandoffsVerify /\ PacketsVerify)'
  BY <1>1 DEF PortabilityInv, ProfilesTell, BindingsVerify, InstallationsVerify, ApprovalsTell,
              HandoffsVerify, PacketsVerify
<1>5. SnapshotsVerify'
  <2>1. \A s \in snapshots : s.version \in Int
    BY DEF PortabilityInv, PortableRows, SnapshotRow
  <2> QED BY <1>1, <1>2, <2>1 DEF PortabilityInv, ApprovalsTell, SnapshotsVerify
<1>6. FirstCallTells'
  <2>1. made # <<>> => made[1] \in MadeRow /\ made[1].input \in Int
    <3>1. made \in Seq(MadeRow)
      BY DEF PortabilityInv, PortableRows
    <3>2. made # <<>> => made[1] \in MadeRow
      BY <3>1
    <3> QED BY <3>2 DEF MadeRow, PortabilityAssumption
  <2> QED BY <1>1, <1>2, <2>1 DEF PortabilityInv, FirstCallTells
<1>7. ResultsTell'
  <2>1. ASSUME NEW r \in results PROVE r.input <= run'.version
    <3>1. r.input \in Nat /\ r.input <= run.version
      BY DEF PortabilityInv, ResultsTell
    <3> QED BY <1>2, <3>1
  <2> QED BY <1>1, <2>1 DEF PortabilityInv, ResultsTell
<1> QED BY <1>3, <1>4, <1>5, <1>6, <1>7 DEF PortabilityInv, ApprovalsTell

\* A store's first binding: calls there are already keep theirs, which is none.
LEMMA BindStep ==
    ASSUME PortabilityAssumption, PortabilityInv, NEW h \in Hosts, NEW b \in Backends,
           BindBackend(h, b)
    PROVE  PortabilityInv'
<1> PICK row : row = [host |-> h, backend |-> b]
  OBVIOUS
<1>1. /\ bindings = <<>> /\ bindings' = <<row>> /\ row \in BindingRow
      /\ UNCHANGED <<fixture, profile, installed, run, made, handoffs, snapshots, packets, acks,
                     invocations, results>>
  BY DEF BindBackend, BindingRow, profileVars, portableVars, resultVars
<1>2. PortableRows'
  BY <1>1 DEF PortabilityInv, PortableRows
<1>3. FirstCallTells'
  <2>1. made # <<>> => made[1].binding = 0
    BY <1>1 DEF PortabilityInv, FirstCallTells
  <2> QED BY <1>1, <2>1 DEF PortabilityInv, FirstCallTells
<1>4. ResultsTell'
  <2>1. DOMAIN bindings = {}
    BY <1>1
  <2> QED BY <1>1, <2>1 DEF PortabilityInv, ResultsTell
<1>5. ProfilesTell'
  <2>1. profile[h] \in Statuses /\ profile[b] \in Statuses
    BY DEF BindBackend, Bindable, Statuses
  <2>2. \A k \in DOMAIN bindings' : bindings'[k] = row
    BY <1>1
  <2> QED BY <1>1, <2>1, <2>2 DEF PortabilityInv, ProfilesTell, BindingsVerify, InstallationsVerify
<1>6. ApprovalsTell'
  <2>1. DOMAIN bindings = {}
    BY <1>1
  <2>2. packets = {} /\ snapshots = {} /\ DOMAIN handoffs = {}
    BY <2>1 DEF PortabilityInv, ApprovalsTell, HandoffsVerify, SnapshotsVerify, PacketsVerify
  <2> QED BY <1>1, <2>2 DEF ApprovalsTell, HandoffsVerify, SnapshotsVerify, PacketsVerify
<1> QED BY <1>2, <1>3, <1>4, <1>5, <1>6 DEF PortabilityInv

\* A preview takes the run as it is; its snapshot is of the current binding.
LEMMA PreviewStep ==
    ASSUME PortabilityAssumption, PortabilityInv, NEW h \in Hosts, NEW b \in Backends,
           PreviewHandoff(h, b)
    PROVE  PortabilityInv'
<1> PICK row : row = [old |-> Len(bindings), host |-> h, backend |-> b,
                      version |-> run.version, state |-> "PENDING"]
  OBVIOUS
<1> PICK snapshot : snapshot = [handoff |-> Len(handoffs) + 1, phase |-> "preview",
                                version |-> run.version, binding |-> Len(bindings)]
  OBVIOUS
<1>1. /\ handoffs' = Append(handoffs, row) /\ snapshots' = snapshots \cup {snapshot}
      /\ UNCHANGED <<fixture, profile, installed, run, made, bindings, packets, acks,
                     invocations, results>>
  BY DEF PreviewHandoff, Snapshot, profileVars, portableVars, resultVars
<1>2. bindings \in Seq(BindingRow) /\ handoffs \in Seq(ApprovalRow) /\ bindings # <<>>
      /\ run.version \in 1..MaxVersion /\ run.version <= run.version
  BY DEF PreviewHandoff, CurrentBindable, PortabilityInv, PortableRows, PortabilityAssumption
<1>3. Len(bindings) \in Nat /\ Len(bindings) \in DOMAIN bindings /\ Len(handoffs) + 1 \in Nat
  BY <1>2
<1>4. row \in ApprovalRow /\ snapshot \in SnapshotRow
  BY <1>2, <1>3 DEF ApprovalRow, SnapshotRow
<1>5. /\ handoffs' \in Seq(ApprovalRow)
      /\ DOMAIN handoffs' = DOMAIN handoffs \cup {Len(handoffs) + 1}
      /\ handoffs'[Len(handoffs) + 1] = row
      /\ \A k \in DOMAIN handoffs : handoffs'[k] = handoffs[k]
  BY <1>1, <1>2, <1>4
<1>6. PortableRows'
  BY <1>1, <1>4, <1>5 DEF PortabilityInv, PortableRows
<1>7. (FirstCallTells /\ ResultsTell /\ ProfilesTell)'
  BY <1>1 DEF PortabilityInv, FirstCallTells, ResultsTell, ProfilesTell, BindingsVerify,
              InstallationsVerify
<1>8. HandoffsVerify'
  BY <1>1, <1>3, <1>5 DEF PortabilityInv, ApprovalsTell, HandoffsVerify
<1>9. SnapshotsVerify'
  <2>1. \A s \in snapshots' : /\ s.handoff \in DOMAIN handoffs' /\ s.binding \in DOMAIN bindings
                              /\ s.version <= run.version
    BY <1>1, <1>2, <1>3, <1>5 DEF PortabilityInv, ApprovalsTell, SnapshotsVerify
  <2>2. snapshot \in snapshots' /\ snapshot.handoff = Len(handoffs) + 1
        /\ snapshot.phase = "preview" /\ row.state # "CONSUMED"
    BY <1>1
  <2>3. ASSUME NEW k \in DOMAIN handoffs'
        PROVE  /\ \E s \in snapshots' : s.handoff = k /\ s.phase = "preview"
               /\ handoffs'[k].state = "CONSUMED" =>
                    \E s \in snapshots' : s.handoff = k /\ s.phase = "approval_consume"
    <3>1. CASE k \in DOMAIN handoffs
      BY <1>1, <1>5, <3>1 DEF PortabilityInv, ApprovalsTell, SnapshotsVerify
    <3>2. CASE k = Len(handoffs) + 1
      BY <1>5, <2>2, <3>2
    <3> QED BY <1>5, <2>3, <3>1, <3>2
  <2> QED BY <1>1, <2>1, <2>3 DEF SnapshotsVerify
<1>10. PacketsVerify'
  BY <1>1, <1>5 DEF PortabilityInv, ApprovalsTell, PacketsVerify
<1> QED BY <1>6, <1>7, <1>8, <1>9, <1>10 DEF PortabilityInv, ApprovalsTell

\* An approval moves a run that has made no call to the binding its packet is for.
LEMMA ApproveStep ==
    ASSUME PortabilityAssumption, PortabilityInv, ApproveHandoff
    PROVE  PortabilityInv'
<1> PICK last : last = Len(handoffs)
  OBVIOUS
<1> PICK row : row = handoffs[last]
  OBVIOUS
<1> PICK done : done = [row EXCEPT !.state = "CONSUMED"]
  OBVIOUS
<1> PICK to : to = [host |-> row.host, backend |-> row.backend]
  OBVIOUS
<1> PICK snapshot : snapshot = [handoff |-> last, phase |-> "approval_consume",
                                version |-> run.version, binding |-> Len(bindings)]
  OBVIOUS
<1> PICK packet : packet = [handoff |-> last, binding |-> Len(bindings) + 1,
                            version |-> run.version]
  OBVIOUS
<1>1. /\ handoffs' = [handoffs EXCEPT ![last] = done] /\ bindings' = Append(bindings, to)
      /\ snapshots' = snapshots \cup {snapshot} /\ packets' = packets \cup {packet}
      /\ UNCHANGED <<fixture, profile, installed, run, made, acks, invocations, results>>
      /\ made = <<>> /\ handoffs # <<>> /\ bindings # <<>>
  BY DEF ApproveHandoff, CurrentHandoff, Snapshot, NewPacket, Quiescent, CurrentBindable,
         profileVars, portableVars, resultVars
<1>2. bindings \in Seq(BindingRow) /\ handoffs \in Seq(ApprovalRow)
      /\ run.version \in 1..MaxVersion /\ run.version <= run.version
  BY DEF PortabilityInv, PortableRows, PortabilityAssumption
<1>3. /\ Len(bindings) \in Nat /\ Len(bindings) \in DOMAIN bindings
      /\ last \in Nat /\ last \in DOMAIN handoffs
  BY <1>1, <1>2
<1>4. /\ row \in ApprovalRow /\ done \in ApprovalRow /\ to \in BindingRow
      /\ done.host = to.host /\ done.backend = to.backend /\ done.old = row.old
      /\ done.host = row.host /\ done.backend = row.backend
      /\ snapshot \in SnapshotRow /\ packet \in PortablePacket
  <2>1. row \in ApprovalRow
    BY <1>2, <1>3
  <2>2. /\ done \in ApprovalRow /\ done.host = row.host /\ done.backend = row.backend
        /\ done.old = row.old
    BY <2>1 DEF ApprovalRow
  <2>3. to \in BindingRow /\ to.host = row.host /\ to.backend = row.backend
    BY <2>1 DEF ApprovalRow, BindingRow
  <2>4. snapshot \in SnapshotRow
    BY <1>2, <1>3 DEF SnapshotRow
  <2>5. packet \in PortablePacket
    BY <1>2, <1>3 DEF PortablePacket
  <2> QED BY <2>1, <2>2, <2>3, <2>4, <2>5
<1>5. /\ handoffs' \in Seq(ApprovalRow) /\ DOMAIN handoffs' = DOMAIN handoffs
      /\ handoffs'[last] = done
      /\ \A k \in DOMAIN handoffs : k # last => handoffs'[k] = handoffs[k]
  BY <1>1, <1>2, <1>3, <1>4
<1>6. /\ bindings' \in Seq(BindingRow)
      /\ DOMAIN bindings' = DOMAIN bindings \cup {Len(bindings) + 1}
      /\ bindings'[Len(bindings) + 1] = to
      /\ \A k \in DOMAIN bindings : bindings'[k] = bindings[k]
  BY <1>1, <1>2, <1>4
<1>7. PortableRows'
  BY <1>1, <1>4, <1>5, <1>6 DEF PortabilityInv, PortableRows
<1>8. FirstCallTells'
  BY <1>1 DEF FirstCallTells
<1>9. ResultsTell'
  BY <1>1, <1>6 DEF PortabilityInv, ResultsTell
<1>10. ProfilesTell'
  <2>1. profile[to.host] \in Statuses /\ profile[to.backend] \in Statuses
    <3>1. Bindable(row.host, row.backend)
      BY DEF ApproveHandoff, CurrentHandoff
    <3> QED BY <3>1, <1>4 DEF Bindable, Statuses
  <2> QED BY <1>1, <1>6, <2>1 DEF PortabilityInv, ProfilesTell, BindingsVerify, InstallationsVerify
<1>11. HandoffsVerify'
  <2>1. ASSUME NEW k \in DOMAIN handoffs PROVE handoffs'[k].old \in DOMAIN bindings'
    <3>1. handoffs[k].old \in DOMAIN bindings /\ handoffs'[k].old = handoffs[k].old
      BY <1>4, <1>5 DEF PortabilityInv, ApprovalsTell, HandoffsVerify
    <3> QED BY <1>6, <3>1
  <2> QED BY <1>5, <2>1 DEF HandoffsVerify
<1>12. SnapshotsVerify'
  <2>1. \A s \in snapshots' : /\ s.handoff \in DOMAIN handoffs' /\ s.binding \in DOMAIN bindings'
                              /\ s.version <= run.version
    BY <1>1, <1>2, <1>3, <1>5, <1>6 DEF PortabilityInv, ApprovalsTell, SnapshotsVerify
  <2>2. snapshot \in snapshots' /\ snapshot.handoff = last
        /\ snapshot.phase = "approval_consume"
    BY <1>1
  <2> QED BY <1>1, <1>5, <2>1, <2>2 DEF PortabilityInv, ApprovalsTell, SnapshotsVerify
<1>13. PacketsVerify'
  <2>1. ASSUME NEW p \in packets
        PROVE  /\ p.handoff \in DOMAIN handoffs' /\ p.binding \in DOMAIN bindings'
               /\ handoffs'[p.handoff].host = bindings'[p.binding].host
               /\ handoffs'[p.handoff].backend = bindings'[p.binding].backend
    <3>1. /\ p.handoff \in DOMAIN handoffs /\ p.binding \in DOMAIN bindings
          /\ handoffs[p.handoff].host = bindings[p.binding].host
          /\ handoffs[p.handoff].backend = bindings[p.binding].backend
      BY DEF PortabilityInv, ApprovalsTell, PacketsVerify
    <3>2. CASE p.handoff = last
      BY <1>4, <1>5, <1>6, <3>1, <3>2
    <3>3. CASE p.handoff # last
      BY <1>5, <1>6, <3>1, <3>3
    <3> QED BY <3>2, <3>3
  <2>2. /\ packet.handoff = last /\ packet.binding = Len(bindings) + 1
    OBVIOUS
  <2> QED BY <1>1, <1>3, <1>4, <1>5, <1>6, <2>1, <2>2 DEF PacketsVerify
<1> QED BY <1>7, <1>8, <1>9, <1>10, <1>11, <1>12, <1>13 DEF PortabilityInv, ApprovalsTell

\* A result is of the first call and the current binding.
LEMMA ResultStep ==
    ASSUME PortabilityAssumption, PortabilityInv, NEW payload \in Payloads, bindings # <<>>,
           NEW i, StoreResult(i, payload),
           i.descriptor.binding = Len(bindings),
           i.descriptor.input \in Nat, i.descriptor.input <= run.version,
           ~fixture => made # <<>> /\ i.id.call = 1
    PROVE  PortabilityInv'
<1> PICK result : result = [binding |-> Len(bindings), invocation |-> i.id,
                            iteration |-> IterationOf(i),
                            input |-> i.descriptor.input, payload |-> payload]
  OBVIOUS
<1>1. /\ results' = results \cup {result} /\ invocations' = invocations \cup {i}
      /\ UNCHANGED <<fixture, profile, installed, run, made, bindings, handoffs, snapshots,
                     packets, acks>>
  BY DEF StoreResult, profileVars, portableVars, handoffVars
<1>2. Len(bindings) \in DOMAIN bindings
  BY DEF PortabilityInv, PortableRows
<1>3. (PortableRows /\ FirstCallTells /\ ProfilesTell /\ ApprovalsTell)'
  BY <1>1 DEF PortabilityInv, PortableRows, FirstCallTells, ProfilesTell, ApprovalsTell,
              BindingsVerify, InstallationsVerify, HandoffsVerify, SnapshotsVerify, PacketsVerify
<1>4. ResultsTell'
  <2>1. ~fixture => /\ made # <<>> /\ result.invocation.call = 1
                    /\ made[1].binding \in {0, result.binding}
    BY DEF PortabilityInv, FirstCallTells
  <2> QED BY <1>1, <1>2, <2>1 DEF PortabilityInv, ResultsTell
<1> QED BY <1>3, <1>4 DEF PortabilityInv

LEMMA PortabilityInvStep ==
    ASSUME PortabilityAssumption, PortabilityInv, [PortabilityNext]_portabilityVars
    PROVE  PortabilityInv'
<1>1. /\ profile \in [Profiles -> Statuses \cup {"none"}] /\ installed \subseteq Hosts
      /\ run \in [status : {"RUNNING", "PAUSED"}, version : 1..MaxVersion]
      /\ run.version \in 1..MaxVersion /\ MaxVersion \in Nat
      /\ made \in Seq(MadeRow) /\ bindings \in Seq(BindingRow) /\ fixture \in BOOLEAN
  BY DEF PortabilityInv, PortableRows, PortabilityAssumption
<1>2. ASSUME NEW p \in Profiles, NEW s \in Statuses, RegisterProfile(p, s) \/ ChangeStatus(p, s)
      PROVE  PortabilityInv'
  <2>1. profile' = [profile EXCEPT ![p] = s] /\ installed' = installed
        /\ UNCHANGED <<fixture, portableVars, handoffVars, resultVars>>
    BY <1>2 DEF RegisterProfile, ChangeStatus
  <2>2. profile' \in [Profiles -> Statuses \cup {"none"}]
        /\ \A q \in Profiles : profile[q] \in Statuses => profile'[q] \in Statuses
    BY <1>1, <2>1
  <2> QED BY <1>1, <2>1, <2>2, ProfileSteps
<1>3. ASSUME NEW h \in Hosts, RegisterInstallation(h)
      PROVE  PortabilityInv'
  <2>1. profile' = profile /\ installed' = installed \cup {h} /\ profile[h] \in Statuses
        /\ UNCHANGED <<fixture, portableVars, handoffVars, resultVars>>
    BY <1>1, <1>3 DEF RegisterInstallation, Profiles
  <2> QED BY <1>1, <2>1, ProfileSteps
<1>4. ASSUME NEW m \in Models, Iterate(m)
      PROVE  PortabilityInv'
  <2> PICK row : row = [model |-> m, input |-> run.version, binding |-> Len(bindings)]
    OBVIOUS
  <2>1. made' = Append(made, row) /\ run' = [run EXCEPT !.version = @ + 1]
        /\ run.version < MaxVersion /\ UNCHANGED <<profileVars, handoffVars, resultVars>>
    BY <1>4 DEF Iterate
  <2>2. row \in MadeRow /\ row.binding = Len(bindings) /\ row.input = run.version
    BY <1>1 DEF MadeRow
  <2>3. made' \in Seq(MadeRow) /\ (made # <<>> => made' # <<>> /\ made'[1] = made[1])
        /\ (made = <<>> => made'[1] = row)
    <3>1. made \in Seq(MadeRow) /\ made' = Append(made, row)
      BY <1>1, <2>1
    <3> QED BY <2>2, <3>1
  <2>4. run.version + 1 \in 1..MaxVersion
    BY <1>1, <2>1
  <2>5. run' \in [status : {"RUNNING", "PAUSED"}, version : 1..MaxVersion]
        /\ run'.version = run.version + 1
    BY <1>1, <2>1, <2>4
  <2>6. run.version <= run'.version /\ row.input <= run'.version
    BY <1>1, <2>2, <2>5
  <2> QED BY <2>1, <2>2, <2>3, <2>5, <2>6, PortableRunSteps
<1>5. CASE PauseTheRun \/ ResumeTheRun
  <2>1. made' = made /\ UNCHANGED <<profileVars, handoffVars, resultVars>>
        /\ run' \in [status : {"RUNNING", "PAUSED"}, version : 1..MaxVersion]
        /\ run'.version = run.version
    BY <1>1, <1>5 DEF PauseTheRun, ResumeTheRun
  <2>2. run.version <= run'.version
    BY <1>1, <2>1
  <2> QED BY <1>1, <2>1, <2>2, PortableRunSteps
<1>6. CASE ApproveHandoff
  BY <1>6, ApproveStep
<1>7. ASSUME NEW h \in Hosts, NEW b \in Backends, BindBackend(h, b) \/ PreviewHandoff(h, b)
      PROVE  PortabilityInv'
  BY <1>7, BindStep, PreviewStep
<1>8. ASSUME NEW p \in packets, NEW h \in Hosts, Acknowledge(p, h)
      PROVE  PortabilityInv'
  <2>1. /\ acks' = acks \cup {[handoff |-> p.handoff, host |-> h]}
        /\ fixture' = fixture /\ profile' = profile /\ installed' = installed /\ run' = run
        /\ made' = made /\ bindings' = bindings /\ handoffs' = handoffs
        /\ snapshots' = snapshots /\ packets' = packets /\ invocations' = invocations
        /\ results' = results
    BY <1>8 DEF Acknowledge, profileVars, portableVars, resultVars
  <2>2. p.handoff \in Nat /\ acks \subseteq [handoff : Nat, host : Hosts]
    BY DEF PortabilityInv, PortableRows, PortablePacket
  <2>3. acks' \subseteq [handoff : Nat, host : Hosts]
    BY <2>1, <2>2
  <2>4. PortableRows'
    BY <2>1, <2>3 DEF PortabilityInv, PortableRows
  <2>5. FirstCallTells'
    BY <2>1 DEF PortabilityInv, FirstCallTells
  <2>6. ResultsTell'
    BY <2>1 DEF PortabilityInv, ResultsTell
  <2>7. ProfilesTell'
    BY <2>1 DEF PortabilityInv, ProfilesTell, BindingsVerify, InstallationsVerify
  <2>8. ApprovalsTell'
    BY <2>1 DEF PortabilityInv, ApprovalsTell, HandoffsVerify, SnapshotsVerify, PacketsVerify
  <2> QED BY <2>4, <2>5, <2>6, <2>7, <2>8 DEF PortabilityInv
<1>9. ASSUME NEW payload \in Payloads, RecordNormalizedResult(payload)
      PROVE  PortabilityInv'
  <2>1. bindings # <<>>
    BY <1>9 DEF RecordNormalizedResult
  <2>2. CASE ~fixture /\ made # <<>> /\ StoreResult(ServerInvocation, payload)
    <3> PICK i : i = ServerInvocation
      OBVIOUS
    <3>1. /\ i.descriptor.binding = Len(bindings) /\ i.descriptor.input = made[1].input
          /\ i.id.call = 1
      BY DEF ServerInvocation, ServerDescriptor, StableId
    <3>2. made[1] \in MadeRow
      BY <1>1, <2>2
    <3>3. made[1].input \in Nat /\ made[1].input <= run.version
      BY <1>1, <2>2, <3>2 DEF MadeRow, PortabilityInv, FirstCallTells
    <3> QED BY <2>1, <2>2, <3>1, <3>3, ResultStep
  <2>3. ASSUME fixture, NEW name \in Names, StoreResult(FixtureInvocation(name), payload)
        PROVE  PortabilityInv'
    <3> PICK i : i = FixtureInvocation(name)
      OBVIOUS
    <3>1. /\ i.descriptor.binding = Len(bindings) /\ i.descriptor.input = run.version
      BY DEF FixtureInvocation, FixtureDescriptor
    <3>2. run.version \in Nat /\ run.version <= run.version
      BY <1>1
    <3> QED BY <2>1, <2>3, <3>1, <3>2, ResultStep
  <2> QED BY <1>9, <2>2, <2>3 DEF RecordNormalizedResult
<1>10. CASE UNCHANGED portabilityVars
  BY <1>10 DEF portabilityVars, profileVars, portableVars, handoffVars, resultVars,
             PortabilityInv, PortableRows, FirstCallTells, ResultsTell, ProfilesTell,
             ApprovalsTell, BindingsVerify, InstallationsVerify, HandoffsVerify, SnapshotsVerify,
             PacketsVerify
<1> QED BY <1>2, <1>3, <1>4, <1>5, <1>6, <1>7, <1>8, <1>9, <1>10 DEF PortabilityNext

\* A result is attributed to no call that was made under another binding, although it is
\* always the run's first call that is looked up; and verify accepts what the service wrote of
\* profiles, handoffs, snapshots, packets, installations and results.  And types.
THEOREM ResultsAreOfTheirBackend ==
    ASSUME PortabilityAssumption
    PROVE  PortabilitySpec => []ResultIsOfItsBackend
<1>1. PortabilityInit => PortabilityInv
  BY PortabilityInvInit
<1>2. PortabilityInv /\ [PortabilityNext]_portabilityVars => PortabilityInv'
  BY PortabilityInvStep
<1>3. PortabilityInv => ResultIsOfItsBackend
  <2> SUFFICES ASSUME PortabilityInv PROVE ResultIsOfItsBackend
    OBVIOUS
  <2>1. PortabilityTypeOK
    BY DEF PortabilityInv, PortableRows, ResultsTell, PortabilityTypeOK, MadeRow, BindingRow,
           ApprovalRow, SnapshotRow, PortablePacket
  <2>2. ResultsVerify /\ CallIsOfItsBackend
    BY DEF PortabilityInv, ResultsTell, ResultsVerify, CallIsOfItsBackend
  <2> QED BY <2>1, <2>2 DEF PortabilityInv, ProfilesTell, ApprovalsTell, PortabilityVerifies,
             ResultIsOfItsBackend
<1> QED BY <1>1, <1>2, <1>3, PTL DEF PortabilitySpec

(***************************************************************************)
(* BudgetLedger: sums                                                      *)
(***************************************************************************)
\* A set of numbers has a least one, which stands in for an induction.
LEMMA LeastNumber ==
    ASSUME NEW S \in SUBSET Nat, S # {}
    PROVE  \E n \in S : \A m \in S : n <= m
<1>1. PICK n \in S : \A m \in S : ~(<<m, n>> \in OpToRel(<, Nat))
  BY NatLessThanWellFounded, WFMin
<1>2. \A m \in S : ~(m < n)
  BY <1>1 DEF OpToRel
<1> QED BY <1>2

\* The sums of the first numbers of a sequence, up to the n-th.
AddsUp(sums, amounts, n) ==
    /\ sums[0] = 0 /\ \A k \in 0..n : sums[k] \in Nat
    /\ \A k \in 1..n : sums[k] = sums[k - 1] + amounts[k]

\* Total is the last of these sums: the recursion has the solution it asks for,
\* shown by the least number up to which there is none.
LEMMA TotalAddsUp ==
    ASSUME NEW amounts \in Seq(Nat)
    PROVE  \E sums : AddsUp(sums, amounts, Len(amounts)) /\ Total(amounts) = sums[Len(amounts)]
<1> PICK last \in Nat : last = Len(amounts) /\ DOMAIN amounts = 1..last
  BY LenProperties
<1> DEFINE UpTo(f, k) == /\ f \in [0..last -> Nat] /\ f[0] = 0
                         /\ \A n \in 1..last : n <= k => f[n] = f[n - 1] + amounts[n]
           Missing == {k \in Nat : ~ \E f : UpTo(f, k)}
           Solves(f) == f = [n \in 0..Len(amounts) |->
                               IF n = 0 THEN 0 ELSE f[n - 1] + amounts[n]]
<1>1. \A n \in 1..last : amounts[n] \in Nat
  BY ElementOfSeq
<1>2. UpTo([n \in 0..last |-> 0], 0)
  OBVIOUS
<1>3. ASSUME NEW k \in Nat, NEW f, UpTo(f, k)
      PROVE  \E g : UpTo(g, k + 1)
  <2> DEFINE g == [n \in 0..last |-> IF n <= k THEN f[n]
                                     ELSE IF n = k + 1 THEN f[k] + amounts[n] ELSE 0]
  <2>1. g \in [0..last -> Nat] /\ g[0] = 0
    <3>1. ASSUME NEW n \in 0..last
          PROVE  (IF n <= k THEN f[n] ELSE IF n = k + 1 THEN f[k] + amounts[n] ELSE 0) \in Nat
      <4>1. CASE n <= k
        <5>1. f[n] \in Nat
          BY <1>3
        <5> QED BY <4>1, <5>1
      <4>2. CASE n = k + 1
        <5>1. k \in 0..last /\ n \in 1..last
          BY <4>2
        <5>2. f[k] \in Nat /\ amounts[n] \in Nat
          BY <1>1, <1>3, <5>1
        <5> QED BY <4>2, <5>2
      <4>3. CASE n > k + 1
        BY <4>3
      <4> QED BY <4>1, <4>2, <4>3
    <3> QED BY <1>3, <3>1
  <2>2. ASSUME NEW n \in 1..last, n <= k + 1
        PROVE  g[n] = g[n - 1] + amounts[n]
    <3>1. n \in 0..last /\ n - 1 \in 0..last /\ n - 1 <= k
      BY <2>2
    <3>2. g[n - 1] = f[n - 1]
      BY <3>1
    <3>3. CASE n <= k
      BY <1>3, <3>1, <3>2, <3>3
    <3>4. CASE n = k + 1
      BY <3>1, <3>2, <3>4
    <3> QED BY <2>2, <3>3, <3>4
  <2> HIDE DEF g
  <2> QED BY <2>1, <2>2
<1>4. Missing = {}
  <2> SUFFICES ASSUME Missing # {} PROVE FALSE
    OBVIOUS
  <2>1. PICK k \in Missing : \A j \in Missing : k <= j
    BY LeastNumber
  <2> HIDE DEF UpTo
  <2>2. k \in Nat /\ ~ \E f : UpTo(f, k)
    OBVIOUS
  <2>3. k - 1 \in Nat /\ k - 1 \notin Missing
    BY <1>2, <2>1, <2>2
  <2>4. \E g : UpTo(g, (k - 1) + 1)
    BY <1>3, <2>3
  <2> QED BY <2>2, <2>4
<1>5. PICK f : UpTo(f, last)
  BY <1>4
<1>6. Solves(f)
  <2>1. \A n \in 0..last : f[n] = IF n = 0 THEN 0 ELSE f[n - 1] + amounts[n]
    BY <1>5
  <2> QED BY <1>5, <2>1
<1> DEFINE total == CHOOSE g : Solves(g)
<1>7. Total(amounts) = total[Len(amounts)]
  BY DEF Total
<1>8. Solves(total)
  <2> HIDE DEF Solves
  <2> QED BY <1>6
<1> PICK g : g = total
  OBVIOUS
<1>9. \A n \in 0..last : g[n] = IF n = 0 THEN 0 ELSE g[n - 1] + amounts[n]
  BY <1>8
<1> DEFINE Differ == {n \in 0..last : g[n] # f[n]}
<1>10. Differ = {}
  <2> SUFFICES ASSUME Differ # {} PROVE FALSE
    OBVIOUS
  <2>1. Differ \in SUBSET Nat
    OBVIOUS
  <2>2. PICK n \in Differ : \A m \in Differ : n <= m
    BY <2>1, LeastNumber
  <2>3. n \in 1..last /\ n - 1 \in 0..last
    BY <1>5, <1>9, <2>2
  <2>4. g[n - 1] = f[n - 1]
    BY <2>1, <2>2, <2>3
  <2>5. n \in 0..last /\ n # 0 /\ n <= last
    BY <2>3
  <2>6. f[n] = f[n - 1] + amounts[n] /\ g[n] = g[n - 1] + amounts[n]
    <3>1. g[n] = IF n = 0 THEN 0 ELSE g[n - 1] + amounts[n]
      BY <1>9, <2>5
    <3>2. f[n] = f[n - 1] + amounts[n]
      BY <1>5, <2>3, <2>5
    <3> QED BY <2>5, <3>1, <3>2
  <2> QED BY <2>2, <2>4, <2>6
<1>11. Total(amounts) = f[last]
  BY <1>7, <1>10
<1>12. AddsUp(f, amounts, last)
  <2>1. \A n \in 1..last : n <= last
    OBVIOUS
  <2>2. f[0] = 0 /\ \A n \in 0..last : f[n] \in Nat
    BY <1>5
  <2>3. \A n \in 1..last : f[n] = f[n - 1] + amounts[n]
    BY <1>5, <2>1
  <2> QED BY <2>2, <2>3 DEF AddsUp
<1> QED BY <1>11, <1>12

\* Two sequences of numbers that differ at most in one place.
OneApart(a, b, last, odd) ==
    /\ last \in Nat /\ odd \in Nat \ {0}
    /\ \A n \in 1..last : a[n] \in Nat /\ b[n] \in Nat
    /\ \A n \in 1..last : n # odd => a[n] = b[n]

\* Two sequences that differ in one place have sums that differ by as much from there.
LEMMA SumsDiffer ==
    ASSUME NEW a, NEW b, NEW f, NEW g, NEW last, NEW odd, OneApart(a, b, last, odd),
           AddsUp(f, a, last), AddsUp(g, b, last)
    PROVE  \A n \in 0..last : g[n] = IF n < odd THEN f[n] ELSE f[n] + b[odd] - a[odd]
<1> USE DEF OneApart
<1> DEFINE Differ == {n \in 0..last :
                        g[n] # IF n < odd THEN f[n] ELSE f[n] + b[odd] - a[odd]}
<1>1. Differ = {}
  <2> SUFFICES ASSUME Differ # {} PROVE FALSE
    OBVIOUS
  <2>1. Differ \in SUBSET Nat
    OBVIOUS
  <2>2. PICK n \in Differ : \A m \in Differ : n <= m
    BY <2>1, LeastNumber
  <2>3. n \in 1..last /\ n - 1 \in 0..last
    BY <2>2 DEF AddsUp
  <2>4. n - 1 \notin Differ
    BY <2>1, <2>2, <2>3
  <2>5. f[n] = f[n - 1] + a[n] /\ g[n] = g[n - 1] + b[n]
    BY <2>3 DEF AddsUp
  <2>6. /\ f[n - 1] \in Nat /\ g[n - 1] \in Nat /\ f[n] \in Nat /\ g[n] \in Nat
        /\ a[n] \in Nat /\ b[n] \in Nat
    BY <2>3 DEF AddsUp
  <2>7. CASE n < odd
    BY <2>2, <2>3, <2>4, <2>5, <2>6, <2>7
  <2>8. CASE n = odd
    <3>1. g[n - 1] = f[n - 1]
      BY <2>3, <2>4, <2>8
    <3> QED BY <2>2, <2>5, <2>6, <2>8, <3>1
  <2>9. CASE n > odd
    <3>1. g[n - 1] = f[n - 1] + b[odd] - a[odd] /\ odd \in 1..last
      BY <2>3, <2>4, <2>9
    <3>2. a[odd] \in Nat /\ b[odd] \in Nat /\ a[n] = b[n]
      BY <2>3, <2>9, <3>1
    <3> QED BY <2>2, <2>5, <2>6, <2>9, <3>1, <3>2
  <2> QED BY <2>3, <2>7, <2>8, <2>9
<1> QED BY <1>1

\* Two sequences of numbers that begin alike.
SameUpTo(a, b, last) ==
    last \in Nat /\ \A n \in 1..last : a[n] \in Nat /\ b[n] \in Nat /\ a[n] = b[n]

\* Sums depend on nothing after them.
LEMMA SumsAgree ==
    ASSUME NEW a, NEW b, NEW f, NEW g, NEW last, SameUpTo(a, b, last),
           AddsUp(f, a, last), AddsUp(g, b, last)
    PROVE  g[last] = f[last]
<1> USE DEF SameUpTo
<1> PICK next \in Nat \ {0} : next = last + 1
  OBVIOUS
<1>1. OneApart(a, b, last, next)
  BY DEF OneApart
<1>2. \A n \in 0..last : g[n] = IF n < next THEN f[n] ELSE f[n] + b[next] - a[next]
  BY <1>1, SumsDiffer
<1>3. last \in 0..last /\ last < next
  OBVIOUS
<1> QED BY <1>2, <1>3

\* A number more at the end of a sequence is that much more in its sum.
LEMMA TotalAppends ==
    ASSUME NEW amounts \in Seq(Nat), NEW x \in Nat
    PROVE  /\ Total(amounts) \in Nat
           /\ Total(Append(amounts, x)) = Total(amounts) + x
<1> PICK longer \in Seq(Nat) : longer = Append(amounts, x)
  BY AppendProperties
<1> PICK last \in Nat : last = Len(amounts)
  BY LenProperties
<1>1. /\ Len(longer) = last + 1 /\ longer[last + 1] = x
      /\ \A n \in 1..last : longer[n] = amounts[n]
  BY AppendProperties
<1>2. PICK f : AddsUp(f, amounts, last) /\ Total(amounts) = f[last]
  BY TotalAddsUp
<1>3. PICK g : AddsUp(g, longer, last + 1) /\ Total(longer) = g[last + 1]
  BY <1>1, TotalAddsUp
<1>4. AddsUp(g, longer, last)
  BY <1>3 DEF AddsUp
<1>5. SameUpTo(amounts, longer, last)
  BY <1>1, ElementOfSeq DEF SameUpTo
<1>6. g[last] = f[last]
  BY <1>2, <1>4, <1>5, SumsAgree
<1>7. g[last + 1] = g[last + 1 - 1] + longer[last + 1]
  BY <1>3 DEF AddsUp
<1>8. g[last + 1] = g[last] + x /\ f[last] \in Nat
  BY <1>1, <1>2, <1>7 DEF AddsUp
<1> QED BY <1>2, <1>3, <1>6, <1>8

LEMMA TotalOfNothing ==
    Total(<<>>) = 0
<1>1. <<>> \in Seq(Nat) /\ Len(<<>>) = 0
  OBVIOUS
<1>2. PICK sums : AddsUp(sums, <<>>, 0) /\ Total(<<>>) = sums[0]
  BY <1>1, TotalAddsUp
<1> QED BY <1>2 DEF AddsUp

LEMMA TotalOfZeros ==
    ASSUME NEW amounts \in Seq(Nat), \A n \in 1..Len(amounts) : amounts[n] = 0
    PROVE  Total(amounts) = 0
<1> PICK last \in Nat : last = Len(amounts)
  BY LenProperties
<1>1. PICK f : AddsUp(f, amounts, last) /\ Total(amounts) = f[last]
  BY TotalAddsUp
<1> PICK zeros : zeros = [n \in 0..last |-> 0]
  OBVIOUS
<1>2. AddsUp(zeros, amounts, last) /\ zeros[last] = 0
  BY DEF AddsUp
<1>3. SameUpTo(amounts, amounts, last)
  BY ElementOfSeq DEF SameUpTo
<1>4. f[last] = zeros[last]
  BY <1>1, <1>2, <1>3, SumsAgree
<1> QED BY <1>1, <1>2, <1>4

(***************************************************************************)
(* What an entry adds to the ledger                                        *)
(***************************************************************************)
Entries == [operation : Operations, unit : Units, amount : Nat, iteration : 1..MaxIterations]

\* An entry is under the idempotency key of an operation in an iteration.
Has(entries, operation, unit, i) ==
    \E k \in DOMAIN entries :
      /\ entries[k].operation = operation /\ entries[k].unit = unit /\ entries[k].iteration = i

AmountOf(entries, operation, unit, i) == Sum(entries, {operation}, unit, {i})

\* What is left of a reservation.
Rest(entries, i) ==
    AmountOf(entries, "reserve", "tokens", i) - AmountOf(entries, "commit", "tokens", i)
      - AmountOf(entries, "release", "tokens", i)

Counts(e, operations, unit, iterations) ==
    e.operation \in operations /\ e.unit = unit /\ e.iteration \in iterations

LEMMA SumIsNat ==
    ASSUME NEW entries \in Seq(Entries), NEW operations, NEW unit, NEW iterations
    PROVE  Sum(entries, operations, unit, iterations) \in Nat
<1> PICK last \in Nat : last = Len(entries)
  BY LenProperties
<1> PICK parts :
      parts = [k \in 1..last |->
                 IF /\ entries[k].operation \in operations /\ entries[k].unit = unit
                    /\ entries[k].iteration \in iterations
                 THEN entries[k].amount ELSE 0]
  OBVIOUS
<1>1. \A k \in 1..last : entries[k] \in Entries
  BY ElementOfSeq
<1>2. \A k \in 1..last : parts[k] \in Nat
  BY <1>1 DEF Entries
<1>3. parts \in Seq(Nat)
  BY <1>2, IsASeq
<1> QED BY <1>3, TotalAppends DEF Sum

\* An entry counts once in the sums it is of, and in no other.
LEMMA SumAppends ==
    ASSUME NEW entries \in Seq(Entries), NEW e \in Entries,
           NEW operations, NEW unit, NEW iterations
    PROVE  /\ Sum(entries, operations, unit, iterations) \in Nat
           /\ Sum(Append(entries, e), operations, unit, iterations)
                = Sum(entries, operations, unit, iterations)
                    + (IF Counts(e, operations, unit, iterations) THEN e.amount ELSE 0)
<1> DEFINE Part(x) == IF x.operation \in operations /\ x.unit = unit /\ x.iteration \in iterations
                      THEN x.amount ELSE 0
           Parts(of) == [k \in 1..Len(of) |-> Part(of[k])]
<1> PICK last \in Nat : last = Len(entries)
  BY LenProperties
<1> PICK longer \in Seq(Entries) : longer = Append(entries, e)
  BY AppendProperties
<1>1. /\ Len(longer) = last + 1 /\ longer[last + 1] = e
      /\ \A n \in 1..last : longer[n] = entries[n]
  BY AppendProperties
<1>2. \A x \in Entries : Part(x) \in Nat
  BY DEF Entries
<1>3. \A n \in 1..last : entries[n] \in Entries
  BY ElementOfSeq
<1> HIDE DEF Part
<1> PICK parts : parts = Parts(entries)
  OBVIOUS
<1>4. parts \in Seq(Nat) /\ Len(parts) = last /\ \A n \in 1..last : parts[n] = Part(entries[n])
  <2>1. parts = [k \in 1..last |-> Part(entries[k])]
    OBVIOUS
  <2>2. \A k \in 1..last : Part(entries[k]) \in Nat
    BY <1>2, <1>3
  <2>3. parts \in Seq(Nat)
    BY <2>1, <2>2, IsASeq
  <2> QED BY <2>1, <2>3, LenProperties
<1> PICK more \in Seq(Nat) : more = Append(parts, Part(e))
  BY <1>2, <1>4, AppendProperties
<1>5. Len(more) = last + 1 /\ more[last + 1] = Part(e) /\ \A n \in 1..last : more[n] = parts[n]
  BY <1>2, <1>4, AppendProperties
<1>6. more = Parts(longer)
  <2>1. Parts(longer) = [k \in 1..(last + 1) |-> Part(longer[k])]
    BY <1>1
  <2>2. DOMAIN more = 1..(last + 1) /\ more = [k \in DOMAIN more |-> more[k]]
    BY <1>5, LenProperties
  <2>3. ASSUME NEW k \in 1..(last + 1) PROVE more[k] = Part(longer[k])
    <3>1. CASE k = last + 1
      BY <1>1, <1>5, <3>1
    <3>2. CASE k \in 1..last
      BY <1>1, <1>4, <1>5, <3>2
    <3> QED BY <3>1, <3>2
  <2> QED BY <2>1, <2>2, <2>3
<1>7. Total(parts) \in Nat /\ Total(more) = Total(parts) + Part(e)
  BY <1>2, <1>4, TotalAppends
<1>8. /\ Sum(entries, operations, unit, iterations) = Total(parts)
      /\ Sum(longer, operations, unit, iterations) = Total(Parts(longer))
  BY DEF Sum, Part
<1>9. Part(e) = IF Counts(e, operations, unit, iterations) THEN e.amount ELSE 0
  BY DEF Part, Counts
<1> QED BY <1>6, <1>7, <1>8, <1>9

\* An entry is found under its key afterwards, and nothing else is.
LEMMA HasAppends ==
    ASSUME NEW entries \in Seq(Entries), NEW e \in Entries, NEW operation, NEW unit, NEW i
    PROVE  Has(Append(entries, e), operation, unit, i)
             <=> \/ Has(entries, operation, unit, i)
                 \/ e.operation = operation /\ e.unit = unit /\ e.iteration = i
<1> PICK last \in Nat : last = Len(entries) /\ DOMAIN entries = 1..last
  BY LenProperties
<1> PICK longer \in Seq(Entries) : longer = Append(entries, e)
  BY AppendProperties
<1>1. /\ DOMAIN longer = 1..(last + 1) /\ longer[last + 1] = e
      /\ \A n \in 1..last : longer[n] = entries[n]
  BY AppendProperties, LenProperties
<1>2. last + 1 \in DOMAIN longer /\ \A n \in 1..last : n \in DOMAIN longer
  BY <1>1
<1>3. \A n \in DOMAIN longer : n = last + 1 \/ n \in 1..last
  BY <1>1
<1>4. Has(longer, operation, unit, i)
        => Has(entries, operation, unit, i)
             \/ (e.operation = operation /\ e.unit = unit /\ e.iteration = i)
  BY <1>1, <1>3 DEF Has
<1>5. Has(entries, operation, unit, i) => Has(longer, operation, unit, i)
  BY <1>1, <1>2 DEF Has
<1>6. e.operation = operation /\ e.unit = unit /\ e.iteration = i
        => Has(longer, operation, unit, i)
  BY <1>1, <1>2 DEF Has
<1> QED BY <1>4, <1>5, <1>6

\* The ledger before an entry is what the entry must fit.
LEMMA PrefixOfAppend ==
    ASSUME NEW entries \in Seq(Entries), NEW e \in Entries, Reconstructs(Append(entries, e))
    PROVE  Fits(entries, e)
<1> PICK last \in Nat : last = Len(entries) /\ DOMAIN entries = 1..last
  BY LenProperties
<1> PICK longer \in Seq(Entries) : longer = Append(entries, e)
  BY AppendProperties
<1>1. /\ Len(longer) = last + 1 /\ longer[last + 1] = e
      /\ \A n \in 1..last : longer[n] = entries[n]
  BY AppendProperties
<1>2. last + 1 \in 1..Len(longer) /\ last + 1 - 1 = last
  BY <1>1
<1>3. Fits(SubSeq(longer, 1, last), e)
  BY <1>1, <1>2 DEF Reconstructs
<1>4. SubSeq(longer, 1, last) = [n \in 1..last |-> longer[n]]
  BY <1>1
<1>5. SubSeq(longer, 1, last) = entries
  BY <1>1, <1>4
<1> QED BY <1>3, <1>5

LEMMA AmountAppends ==
    ASSUME NEW entries \in Seq(Entries), NEW e \in Entries, NEW operation, NEW unit, NEW i
    PROVE  /\ AmountOf(entries, operation, unit, i) \in Nat
           /\ AmountOf(Append(entries, e), operation, unit, i)
                = AmountOf(entries, operation, unit, i)
                    + (IF e.operation = operation /\ e.unit = unit /\ e.iteration = i
                       THEN e.amount ELSE 0)
<1>1. Counts(e, {operation}, unit, {i})
        <=> e.operation = operation /\ e.unit = unit /\ e.iteration = i
  BY DEF Counts
<1> QED BY <1>1, SumAppends DEF AmountOf

\* The balance, and what an entry changes in it.
Kept(entries) ==
    \A unit \in Units : Reserved(entries, unit) >= 0 /\ Used(entries, unit) <= Limits[unit]

LEMMA BalanceAppends ==
    ASSUME NEW entries \in Seq(Entries), NEW e \in Entries, NEW unit
    PROVE  /\ Used(entries, unit) \in Nat /\ Reserved(entries, unit) \in Int
           /\ Used(Append(entries, e), unit)
                = Used(entries, unit)
                    + (IF e.unit = unit /\ e.operation \in {"commit", "usage"}
                       THEN e.amount ELSE 0)
           /\ Reserved(Append(entries, e), unit)
                = Reserved(entries, unit)
                    + (IF e.unit = unit /\ e.operation = "reserve" THEN e.amount ELSE 0)
                    - (IF e.unit = unit /\ e.operation \in {"commit", "release"}
                       THEN e.amount ELSE 0)
<1> DEFINE Of(of, operations) == Sum(of, operations, unit, 1..MaxIterations)
           Adds(operations) == IF e.unit = unit /\ e.operation \in operations
                               THEN e.amount ELSE 0
<1>1. e.iteration \in 1..MaxIterations /\ e.amount \in Nat
  BY DEF Entries
<1>2. ASSUME NEW operations
      PROVE  /\ Of(entries, operations) \in Nat
             /\ Of(Append(entries, e), operations) = Of(entries, operations) + Adds(operations)
  <2>1. Counts(e, operations, unit, 1..MaxIterations)
          <=> e.unit = unit /\ e.operation \in operations
    BY <1>1 DEF Counts
  <2> QED BY <2>1, SumAppends
<1>3. \A operations : Adds(operations) \in Nat
  BY <1>1
<1> HIDE DEF Adds
<1>4. /\ Used(entries, unit) = Of(entries, {"commit", "usage"})
      /\ Used(Append(entries, e), unit) = Of(Append(entries, e), {"commit", "usage"})
      /\ Reserved(entries, unit)
           = Of(entries, {"reserve"}) - Of(entries, {"commit", "release"})
      /\ Reserved(Append(entries, e), unit)
           = Of(Append(entries, e), {"reserve"}) - Of(Append(entries, e), {"commit", "release"})
  BY DEF Used, Reserved
<1> HIDE DEF Of
<1>5. /\ Used(entries, unit) \in Nat
      /\ Used(Append(entries, e), unit) = Used(entries, unit) + Adds({"commit", "usage"})
  BY <1>2, <1>4
<1>6. /\ Reserved(entries, unit) \in Int
      /\ Reserved(Append(entries, e), unit)
           = Reserved(entries, unit) + Adds({"reserve"}) - Adds({"commit", "release"})
  BY <1>2, <1>3, <1>4
<1> QED BY <1>5, <1>6 DEF Adds

\* An entry that _budget_write takes, to a ledger it is not yet in.
Written(entries, other, e) ==
    /\ other = Append(entries, e)
    /\ ~Has(entries, e.operation, e.unit, e.iteration)
    /\ e.operation \in {"commit", "release"} => e.amount <= Rest(entries, e.iteration)
    /\ Fits(entries, e)

\* The arithmetic of an entry that fits.
LEMMA BalanceOfAnEntry ==
    ASSUME NEW used \in Nat, NEW kept \in Nat, NEW limit \in Nat, used <= limit,
           NEW operation \in Operations, NEW amount \in Nat,
           operation \in {"reserve", "usage"} => used + kept + amount <= limit,
           operation \in {"commit", "release"} => amount <= kept,
           operation = "commit" => used + amount <= limit
    PROVE  /\ kept + (IF operation = "reserve" THEN amount ELSE 0)
                - (IF operation \in {"commit", "release"} THEN amount ELSE 0) >= 0
           /\ used + (IF operation \in {"commit", "usage"} THEN amount ELSE 0) <= limit
  BY DEF Operations

\* Nothing goes below zero or over its limit by an entry that fits.
LEMMA BalanceIsKept ==
    ASSUME BudgetAssumption, NEW entries \in Seq(Entries), NEW e \in Entries, NEW other,
           Written(entries, other, e), Kept(entries)
    PROVE  Kept(other)
<1> SUFFICES ASSUME NEW unit \in Units
             PROVE  Reserved(other, unit) >= 0 /\ Used(other, unit) <= Limits[unit]
  BY DEF Kept
<1>1. e.operation \in Operations /\ e.amount \in Nat /\ e.unit \in Units
  BY DEF Entries
<1>2. other = Append(entries, e) /\ Fits(entries, e)
  BY DEF Written
<1> PICK used \in Nat, kept \in Nat, limit \in Nat :
      used = Used(entries, unit) /\ kept = Reserved(entries, unit) /\ Limits[unit] = limit
  BY BalanceAppends DEF Kept, Units, BudgetAssumption
<1>3. used <= limit
  BY DEF Kept
<1>4. /\ Used(other, unit) = used + (IF e.unit = unit /\ e.operation \in {"commit", "usage"}
                                    THEN e.amount ELSE 0)
      /\ Reserved(other, unit) = kept
            + (IF e.unit = unit /\ e.operation = "reserve" THEN e.amount ELSE 0)
            - (IF e.unit = unit /\ e.operation \in {"commit", "release"} THEN e.amount ELSE 0)
  BY <1>2, BalanceAppends
<1>5. CASE e.unit # unit
  <2>1. Used(other, unit) = used /\ Reserved(other, unit) = kept
    BY <1>4, <1>5
  <2> QED BY <1>3, <2>1
<1>6. CASE e.unit = unit
  <2>1. /\ e.operation \in {"reserve", "usage"} => used + kept + e.amount <= limit
        /\ e.operation \in {"commit", "release"} => e.amount <= kept
        /\ e.operation = "commit" => used + e.amount <= limit
    BY <1>2, <1>6 DEF Fits
  <2>2. /\ kept + (IF e.operation = "reserve" THEN e.amount ELSE 0)
              - (IF e.operation \in {"commit", "release"} THEN e.amount ELSE 0) >= 0
        /\ used + (IF e.operation \in {"commit", "usage"} THEN e.amount ELSE 0) <= limit
    <3> PICK operation \in Operations, amount \in Nat :
          operation = e.operation /\ amount = e.amount
      BY <1>1
    <3>1. /\ operation \in {"reserve", "usage"} => used + kept + amount <= limit
          /\ operation \in {"commit", "release"} => amount <= kept
          /\ operation = "commit" => used + amount <= limit
      BY <2>1
    <3>2. /\ kept + (IF operation = "reserve" THEN amount ELSE 0)
                - (IF operation \in {"commit", "release"} THEN amount ELSE 0) >= 0
          /\ used + (IF operation \in {"commit", "usage"} THEN amount ELSE 0) <= limit
      BY <1>3, <3>1, BalanceOfAnEntry
    <3> QED BY <3>2
  <2> QED BY <1>4, <1>6, <2>2
<1> QED BY <1>5, <1>6

\* What is posted is of an iteration that began, and what is not adds up to nothing.
Posts(entries, last) ==
    \A i \in 1..MaxIterations, operation \in Operations, unit \in Units :
      IF Has(entries, operation, unit, i) THEN i <= last
      ELSE AmountOf(entries, operation, unit, i) = 0

LEMMA PostsAppend ==
    ASSUME NEW entries \in Seq(Entries), NEW e \in Entries, NEW other,
           Written(entries, other, e), Posts(entries, e.iteration)
    PROVE  Posts(other, e.iteration)
<1> SUFFICES ASSUME NEW i \in 1..MaxIterations, NEW operation \in Operations,
                    NEW unit \in Units
             PROVE  IF Has(other, operation, unit, i) THEN i <= e.iteration
                    ELSE AmountOf(other, operation, unit, i) = 0
  BY DEF Posts
<1>1. other = Append(entries, e)
  BY DEF Written
<1>2. IF Has(entries, operation, unit, i) THEN i <= e.iteration
      ELSE AmountOf(entries, operation, unit, i) = 0
  BY DEF Posts
<1>3. e.iteration \in Nat
  BY DEF Entries
<1>4. CASE e.operation = operation /\ e.unit = unit /\ e.iteration = i
  BY <1>1, <1>3, <1>4, HasAppends
<1>5. CASE ~(e.operation = operation /\ e.unit = unit /\ e.iteration = i)
  <2>1. Has(other, operation, unit, i) <=> Has(entries, operation, unit, i)
    BY <1>1, <1>5, HasAppends
  <2>2. AmountOf(other, operation, unit, i) = AmountOf(entries, operation, unit, i)
    <3>1. /\ AmountOf(entries, operation, unit, i) \in Nat
          /\ AmountOf(other, operation, unit, i) = AmountOf(entries, operation, unit, i) + 0
      BY <1>1, <1>5, AmountAppends
    <3> QED BY <3>1
  <2> QED BY <1>2, <2>1, <2>2
<1> QED BY <1>4, <1>5

(***************************************************************************)
(* The story of an iteration                                               *)
(***************************************************************************)
\* How far an iteration is: nothing is posted out of its order, and a release leaves
\* nothing to commit.
Story(entries, i, isRecorded, isBound, amount) ==
    /\ Rest(entries, i) \in Nat
    /\ Has(entries, "release", "tokens", i) =>
         Rest(entries, i) = 0 /\ Has(entries, "reserve", "tokens", i)
    /\ Has(entries, "usage", "tokens", i) =>
         AmountOf(entries, "usage", "tokens", i) = amount /\ isRecorded
    /\ Has(entries, "usage", "iteration_count", i) =>
         AmountOf(entries, "usage", "iteration_count", i) = 1
    /\ isRecorded => Has(entries, "reserve", "tokens", i)
    /\ isBound => /\ Has(entries, "usage", "tokens", i) /\ Has(entries, "release", "tokens", i)
                  /\ amount > 0

\* What is left of an iteration that is over.
Closed(entries, i) ==
    Rest(entries, i) = 0 /\ Has(entries, "usage", "iteration_count", i)

\* The entries that the steps make.
WellMade(entries, e, isRecorded, amount) ==
    \/ e.unit = "tokens" /\ e.operation \in {"reserve", "commit"}
    \/ /\ e.unit = "tokens" /\ e.operation = "release"
       /\ e.amount = Rest(entries, e.iteration)
       /\ Has(entries, "reserve", "tokens", e.iteration)
    \/ /\ e.unit = "tokens" /\ e.operation = "usage"
       /\ e.amount = amount /\ isRecorded
    \/ e.unit = "iteration_count" /\ e.operation = "usage" /\ e.amount = 1

\* The other iterations are as they were.
LEMMA OthersAreKept ==
    ASSUME NEW entries \in Seq(Entries), NEW e \in Entries, NEW i, i # e.iteration,
           NEW isRecorded, NEW isBound, NEW amount
    PROVE  /\ Story(entries, i, isRecorded, isBound, amount)
                => Story(Append(entries, e), i, isRecorded, isBound, amount)
           /\ Closed(entries, i) => Closed(Append(entries, e), i)
<1> PICK other : other = Append(entries, e)
  OBVIOUS
<1>1. \A operation, unit : Has(other, operation, unit, i) <=> Has(entries, operation, unit, i)
  BY HasAppends
<1>2. ASSUME NEW operation, NEW unit
      PROVE  AmountOf(other, operation, unit, i) = AmountOf(entries, operation, unit, i)
  <2>1. /\ AmountOf(entries, operation, unit, i) \in Nat
        /\ AmountOf(other, operation, unit, i) = AmountOf(entries, operation, unit, i) + 0
    BY AmountAppends
  <2> QED BY <2>1
<1>3. Rest(other, i) = Rest(entries, i)
  BY <1>2 DEF Rest
<1> QED BY <1>1, <1>2, <1>3 DEF Story, Closed

\* What an entry changes in what is left of the reservation.
LEMMA RestAppends ==
    ASSUME NEW entries \in Seq(Entries), NEW e \in Entries, NEW i, i = e.iteration
    PROVE  /\ Rest(entries, i) \in Int
           /\ Rest(Append(entries, e), i) = Rest(entries, i)
                + (IF e.unit = "tokens" /\ e.operation = "reserve" THEN e.amount ELSE 0)
                - (IF e.unit = "tokens" /\ e.operation \in {"commit", "release"}
                   THEN e.amount ELSE 0)
<1> DEFINE Of(entriesOf, operation) == AmountOf(entriesOf, operation, "tokens", i)
           Adds(operation) == IF e.unit = "tokens" /\ e.operation = operation
                              THEN e.amount ELSE 0
<1>1. e.amount \in Nat
  BY DEF Entries
<1>2. ASSUME NEW operation
      PROVE  /\ Of(entries, operation) \in Nat
             /\ Of(Append(entries, e), operation) = Of(entries, operation) + Adds(operation)
  BY AmountAppends
<1>3. \A operation : Adds(operation) \in Nat
  BY <1>1
<1>4. \A of : Rest(of, i) = Of(of, "reserve") - Of(of, "commit") - Of(of, "release")
  BY DEF Rest
<1> HIDE DEF Of, Adds
<1>5. /\ Rest(entries, i) \in Int
      /\ Rest(Append(entries, e), i)
           = Rest(entries, i) + Adds("reserve") - (Adds("commit") + Adds("release"))
  BY <1>2, <1>3, <1>4
<1>6. /\ Adds("commit") + Adds("release")
           = IF e.unit = "tokens" /\ e.operation \in {"commit", "release"} THEN e.amount ELSE 0
      /\ Adds("reserve")
           = IF e.unit = "tokens" /\ e.operation = "reserve" THEN e.amount ELSE 0
  BY <1>1 DEF Adds
<1> QED BY <1>5, <1>6

\* Usage leaves the reservation alone, and a release leaves nothing of it.
Leaves(entries, other, e) ==
    /\ e.operation = "usage" => Rest(other, e.iteration) = Rest(entries, e.iteration)
    /\ e.operation = "release" => Rest(other, e.iteration) = 0

\* What an entry leaves of its reservation, and that the story goes on with it.
LEMMA StoryGoesOn ==
    ASSUME NEW entries \in Seq(Entries), NEW e \in Entries, NEW other, NEW i,
           NEW isRecorded, NEW isBound, NEW amount,
           i = e.iteration, Written(entries, other, e), Posts(entries, i),
           Story(entries, i, isRecorded, isBound, amount),
           WellMade(entries, e, isRecorded, amount)
    PROVE  Story(other, i, isRecorded, isBound, amount) /\ Leaves(entries, other, e)
<1> USE DEF Leaves
<1>1. /\ e.operation \in Operations /\ e.unit \in Units /\ e.amount \in Nat
      /\ i \in 1..MaxIterations
  BY DEF Entries
<1>2. /\ other = Append(entries, e) /\ ~Has(entries, e.operation, e.unit, i)
      /\ e.operation \in {"commit", "release"} => e.amount <= Rest(entries, i)
  BY DEF Written
<1>3. AmountOf(entries, e.operation, e.unit, i) = 0
  BY <1>1, <1>2 DEF Posts
<1>4. \A operation, unit :
        Has(other, operation, unit, i) <=>
          Has(entries, operation, unit, i) \/ (e.operation = operation /\ e.unit = unit)
  BY <1>2, HasAppends
<1>5. \A operation, unit :
        /\ AmountOf(entries, operation, unit, i) \in Nat
        /\ AmountOf(other, operation, unit, i)
             = AmountOf(entries, operation, unit, i)
                 + (IF e.operation = operation /\ e.unit = unit THEN e.amount ELSE 0)
  BY <1>2, AmountAppends
<1>6. /\ Rest(entries, i) \in Int
      /\ Rest(other, i) = Rest(entries, i)
           + (IF e.unit = "tokens" /\ e.operation = "reserve" THEN e.amount ELSE 0)
           - (IF e.unit = "tokens" /\ e.operation \in {"commit", "release"} THEN e.amount ELSE 0)
  BY <1>2, RestAppends
<1>7. CASE e.unit = "tokens" /\ e.operation = "reserve"
  <2>1. Rest(other, i) = Rest(entries, i) + e.amount
    BY <1>1, <1>6, <1>7
  <2>2. ~Has(entries, "release", "tokens", i) /\ ~Has(other, "release", "tokens", i)
    BY <1>2, <1>4, <1>7 DEF Story
  <2>3. /\ AmountOf(other, "usage", "tokens", i) = AmountOf(entries, "usage", "tokens", i)
        /\ AmountOf(other, "usage", "iteration_count", i)
             = AmountOf(entries, "usage", "iteration_count", i)
    BY <1>5, <1>7
  <2> QED BY <1>1, <1>4, <1>7, <2>1, <2>2, <2>3 DEF Story
<1>8. CASE e.unit = "tokens" /\ e.operation = "commit"
  <2>1. Rest(other, i) = Rest(entries, i) - e.amount
    BY <1>1, <1>6, <1>8
  <2>2. /\ AmountOf(other, "usage", "tokens", i) = AmountOf(entries, "usage", "tokens", i)
        /\ AmountOf(other, "usage", "iteration_count", i)
             = AmountOf(entries, "usage", "iteration_count", i)
    BY <1>5, <1>8
  <2> QED BY <1>1, <1>2, <1>4, <1>8, <2>1, <2>2 DEF Story
<1>9. CASE /\ e.unit = "tokens" /\ e.operation = "release" /\ e.amount = Rest(entries, i)
           /\ Has(entries, "reserve", "tokens", i)
  <2>1. Rest(other, i) = Rest(entries, i) - e.amount /\ Rest(other, i) = 0
    BY <1>1, <1>6, <1>9
  <2>2. /\ AmountOf(other, "usage", "tokens", i) = AmountOf(entries, "usage", "tokens", i)
        /\ AmountOf(other, "usage", "iteration_count", i)
             = AmountOf(entries, "usage", "iteration_count", i)
    BY <1>5, <1>9
  <2> QED BY <1>1, <1>4, <1>9, <2>1, <2>2 DEF Story
<1>10. CASE e.unit = "tokens" /\ e.operation = "usage" /\ e.amount = amount /\ isRecorded
  <2>1. Rest(other, i) = Rest(entries, i)
    BY <1>5, <1>10 DEF Rest
  <2>2. /\ AmountOf(other, "usage", "tokens", i) = amount
        /\ AmountOf(other, "usage", "iteration_count", i)
             = AmountOf(entries, "usage", "iteration_count", i)
    BY <1>1, <1>3, <1>5, <1>10
  <2> QED BY <1>1, <1>4, <1>10, <2>1, <2>2 DEF Story
<1>11. CASE e.unit = "iteration_count" /\ e.operation = "usage" /\ e.amount = 1
  <2>1. Rest(other, i) = Rest(entries, i)
    BY <1>5, <1>11 DEF Rest
  <2>2. /\ AmountOf(other, "usage", "tokens", i) = AmountOf(entries, "usage", "tokens", i)
        /\ AmountOf(other, "usage", "iteration_count", i) = 1
    BY <1>3, <1>5, <1>11
  <2> QED BY <1>1, <1>4, <1>11, <2>1, <2>2 DEF Story
<1> QED BY <1>7, <1>8, <1>9, <1>10, <1>11 DEF WellMade

(***************************************************************************)
(* What is bound                                                           *)
(***************************************************************************)
Billed(amounts, of) == Total([i \in 1..MaxIterations |-> IF i \in of THEN amounts[i] ELSE 0])

LEMMA BilledIsNat ==
    ASSUME BudgetAssumption, NEW amounts \in [1..MaxIterations -> Nat], NEW of
    PROVE  Billed(amounts, of) \in Nat
<1>1. \A i \in 1..MaxIterations : (IF i \in of THEN amounts[i] ELSE 0) \in Nat
  OBVIOUS
<1>2. [i \in 1..MaxIterations |-> IF i \in of THEN amounts[i] ELSE 0] \in Seq(Nat)
  BY <1>1, IsASeq DEF BudgetAssumption
<1> QED BY <1>2, TotalAppends DEF Billed

\* One iteration more that is bound adds its bill.
LEMMA BilledGrows ==
    ASSUME BudgetAssumption, NEW amounts \in [1..MaxIterations -> Nat], NEW of,
           NEW odd \in 1..MaxIterations
    PROVE  /\ Billed(amounts, of) \in Nat
           /\ odd \notin of => Billed(amounts, of \cup {odd}) = Billed(amounts, of) + amounts[odd]
<1> PICK last \in Nat : last = MaxIterations
  BY DEF BudgetAssumption
<1> DEFINE Of(set) == [i \in 1..last |-> IF i \in set THEN amounts[i] ELSE 0]
<1>1. ASSUME NEW set
      PROVE  Of(set) \in Seq(Nat) /\ Len(Of(set)) = last /\ Billed(amounts, set) = Total(Of(set))
  <2>1. \A i \in 1..last : (IF i \in set THEN amounts[i] ELSE 0) \in Nat
    OBVIOUS
  <2>2. Of(set) \in Seq(Nat)
    BY <2>1, IsASeq
  <2> QED BY <2>2, LenProperties DEF Billed
<1>2. Billed(amounts, of) \in Nat
  BY <1>1, TotalAppends
<1>3. ASSUME odd \notin of
      PROVE  Billed(amounts, of \cup {odd}) = Billed(amounts, of) + amounts[odd]
  <2> DEFINE a == Of(of)
             b == Of(of \cup {odd})
  <2>1. /\ odd \in 1..last /\ a[odd] = 0 /\ b[odd] = amounts[odd] /\ amounts[odd] \in Nat
        /\ \A n \in 1..last : a[n] \in Nat /\ b[n] \in Nat
        /\ \A n \in 1..last : n # odd => a[n] = b[n]
    BY <1>3
  <2>2. a \in Seq(Nat) /\ b \in Seq(Nat) /\ Len(a) = last /\ Len(b) = last
    BY <1>1
  <2>3. Billed(amounts, of) = Total(a) /\ Billed(amounts, of \cup {odd}) = Total(b)
    BY <1>1
  <2> HIDE DEF a, b
  <2>4. OneApart(a, b, last, odd)
    BY <2>1 DEF OneApart
  <2>5. PICK f, g : /\ AddsUp(f, a, last) /\ Total(a) = f[last]
                    /\ AddsUp(g, b, last) /\ Total(b) = g[last]
    BY <2>2, TotalAddsUp
  <2>6. \A n \in 0..last : g[n] = IF n < odd THEN f[n] ELSE f[n] + b[odd] - a[odd]
    BY <2>4, <2>5, SumsDiffer
  <2>7. last \in 0..last /\ ~(last < odd)
    BY <2>1
  <2>8. g[last] = f[last] + b[odd] - a[odd]
    BY <2>6, <2>7
  <2> QED BY <1>2, <2>1, <2>3, <2>5, <2>8
<1> QED BY <1>2, <1>3

\* The bills of what is not bound do not count.
LEMMA BilledIsOfTheBound ==
    ASSUME NEW amounts \in [1..MaxIterations -> Nat], NEW of,
           NEW odd \in 1..MaxIterations \ of, NEW amount
    PROVE  Billed([amounts EXCEPT ![odd] = amount], of) = Billed(amounts, of)
<1>1. \A i \in 1..MaxIterations :
        (IF i \in of THEN [amounts EXCEPT ![odd] = amount][i] ELSE 0)
          = (IF i \in of THEN amounts[i] ELSE 0)
  OBVIOUS
<1>2. [i \in 1..MaxIterations |-> IF i \in of THEN [amounts EXCEPT ![odd] = amount][i] ELSE 0]
        = [i \in 1..MaxIterations |-> IF i \in of THEN amounts[i] ELSE 0]
  BY <1>1
<1> QED BY <1>2 DEF Billed

(***************************************************************************)
(* The ledger and its iterations                                           *)
(***************************************************************************)
\* The ledger of some iterations, of which the last may be open: each has its story,
\* those that are over are closed, and what is bound is covered by what is used.  Before
\* the open one is bound, its usage is in what is used but not yet in what is billed.
Settles(entries, last, isOpen, of, amounts, settled) ==
    /\ Posts(entries, last) /\ Kept(entries)
    /\ \A i \in 1..last : Story(entries, i, i \in of, i \in settled, amounts[i])
    /\ \A i \in 1..last : i < last \/ ~isOpen => Closed(entries, i)
    /\ Billed(amounts, settled) <= Used(entries, "tokens")
    /\ isOpen /\ last \notin settled =>
         Billed(amounts, settled) + AmountOf(entries, "usage", "tokens", last)
           <= Used(entries, "tokens")

\* An entry of the open iteration.
LEMMA EntrySettles ==
    ASSUME BudgetAssumption, NEW entries \in Seq(Entries), NEW e \in Entries, NEW other,
           NEW last, NEW of, NEW amounts \in [1..MaxIterations -> Nat], NEW settled,
           last = e.iteration, Settles(entries, last, TRUE, of, amounts, settled),
           Written(entries, other, e),
           WellMade(entries, e, last \in of, amounts[last])
    PROVE  Settles(other, last, TRUE, of, amounts, settled) /\ Leaves(entries, other, e)
<1>1. other = Append(entries, e) /\ ~Has(entries, e.operation, e.unit, e.iteration)
  BY DEF Written
<1>2. last \in 1..MaxIterations /\ last \in 1..last /\ e.amount \in Nat
  <2>1. MaxIterations \in Nat
    BY DEF BudgetAssumption
  <2> QED BY <2>1 DEF Entries
<1>3. Posts(other, last) /\ Kept(other)
  BY BalanceIsKept, PostsAppend DEF Settles
<1>4. /\ Story(other, last, last \in of, last \in settled, amounts[last])
      /\ Leaves(entries, other, e)
  <2>1. /\ Posts(entries, last)
        /\ Story(entries, last, last \in of, last \in settled, amounts[last])
    BY <1>2 DEF Settles
  <2> QED BY <2>1, StoryGoesOn
<1>5. ASSUME NEW i \in 1..last
      PROVE  Story(other, i, i \in of, i \in settled, amounts[i])
  <2>1. Story(entries, i, i \in of, i \in settled, amounts[i])
    BY DEF Settles
  <2>2. CASE i # last
    BY <1>1, <2>1, <2>2, OthersAreKept
  <2>3. CASE i = last
    BY <1>4, <2>3
  <2> QED BY <2>2, <2>3
<1>6. ASSUME NEW i \in 1..last, i < last
      PROVE  Closed(other, i)
  <2>1. Closed(entries, i) /\ i # last
    BY <1>2, <1>6 DEF Settles
  <2> QED BY <1>1, <2>1, OthersAreKept
<1> PICK billed, used, more :
      /\ billed = Billed(amounts, settled) /\ used = Used(entries, "tokens")
      /\ more = Used(other, "tokens")
  OBVIOUS
<1>7. billed \in Nat /\ used \in Nat /\ billed <= used
  BY <1>2, BilledGrows, BalanceAppends DEF Settles
<1>8. more = used + (IF e.unit = "tokens" /\ e.operation \in {"commit", "usage"}
                     THEN e.amount ELSE 0)
  BY <1>1, BalanceAppends
<1>9. billed <= more
  BY <1>2, <1>7, <1>8
<1>10. ASSUME last \notin settled
      PROVE  billed + AmountOf(other, "usage", "tokens", last) <= more
  <2> PICK u : u = AmountOf(entries, "usage", "tokens", last)
    OBVIOUS
  <2>1. billed + u <= used
    BY <1>10 DEF Settles
  <2>2. u \in Nat
    BY AmountAppends
  <2> PICK v : v = AmountOf(other, "usage", "tokens", last)
    OBVIOUS
  <2>3. v = u + (IF e.operation = "usage" /\ e.unit = "tokens" THEN e.amount ELSE 0)
    BY <1>1, AmountAppends
  <2>4. billed + v <= more
    <3>1. CASE e.unit = "tokens" /\ e.operation = "usage"
      <4> PICK x \in Nat : x = e.amount
        BY <1>2
      <4>1. v = u + x /\ more = used + x
        BY <1>8, <2>3, <3>1
      <4>2. \A b, m, n \in Nat : b + m <= n => b + (m + x) <= n + x
        OBVIOUS
      <4>3. billed + (u + x) <= used + x
        BY <1>7, <2>1, <2>2, <4>2, Zenon
      <4> QED BY <4>1, <4>3, Zenon
    <3>2. CASE ~(e.unit = "tokens" /\ e.operation = "usage")
      <4>1. v = u
        BY <2>2, <2>3, <3>2
      <4>2. more >= used
        BY <1>2, <1>7, <1>8
      <4>3. more \in Nat
        BY <1>2, <1>7, <1>8
      <4> QED BY <1>7, <2>1, <2>2, <4>1, <4>2, <4>3
    <3> QED BY <3>1, <3>2
  <2> QED BY <2>4
<1> QED BY <1>2, <1>3, <1>4, <1>5, <1>6, <1>9, <1>10 DEF Settles

\* An iteration more, with nothing posted.
LEMMA BeginSettles ==
    ASSUME BudgetAssumption, NEW entries \in Seq(Entries), NEW last \in Nat,
           last + 1 \in 1..MaxIterations,
           NEW of \in SUBSET (1..last), NEW amounts \in [1..MaxIterations -> Nat],
           NEW settled \in SUBSET of, Settles(entries, last, FALSE, of, amounts, settled)
    PROVE  Settles(entries, last + 1, TRUE, of, amounts, settled)
<1> PICK next \in 1..MaxIterations : next = last + 1
  OBVIOUS
<1>1. next \notin of /\ next \notin settled /\ next \in Nat /\ last < next
  OBVIOUS
<1>2. ASSUME NEW operation \in Operations, NEW unit \in Units
      PROVE  ~Has(entries, operation, unit, next) /\ AmountOf(entries, operation, unit, next) = 0
  BY <1>1 DEF Settles, Posts
<1>3. Posts(entries, next) /\ Kept(entries)
  <2>1. \A i \in 1..MaxIterations : i <= last => i <= next
    BY <1>1
  <2> QED BY <2>1 DEF Settles, Posts
<1>4. /\ {"reserve", "commit", "release", "usage"} \subseteq Operations
      /\ {"tokens", "iteration_count"} \subseteq Units
  BY DEF Operations, Units, BudgetAssumption
<1>5. Story(entries, next, next \in of, next \in settled, amounts[next])
  <2>1. Rest(entries, next) = 0
    BY <1>2, <1>4 DEF Rest
  <2> QED BY <1>1, <1>2, <1>4, <2>1 DEF Story
<1>6. ASSUME NEW i \in 1..next
      PROVE  Story(entries, i, i \in of, i \in settled, amounts[i])
  <2>1. i \in 1..last \/ i = next
    BY <1>1
  <2> QED BY <1>1, <1>5, <2>1 DEF Settles
<1>7. ASSUME NEW i \in 1..next, i < next
      PROVE  Closed(entries, i)
  <2>1. i \in 1..last
    BY <1>7
  <2> QED BY <2>1 DEF Settles
<1>8. Billed(amounts, settled) + AmountOf(entries, "usage", "tokens", next)
        <= Used(entries, "tokens")
  <2>1. AmountOf(entries, "usage", "tokens", next) = 0
    BY <1>2, <1>4
  <2>2. Billed(amounts, settled) \in Nat /\ Billed(amounts, settled) <= Used(entries, "tokens")
    BY BilledGrows DEF Settles
  <2> QED BY <2>1, <2>2
<1> QED BY <1>3, <1>6, <1>7, <1>8 DEF Settles

\* The bill of an iteration whose call has none yet.
LEMMA SendSettles ==
    ASSUME BudgetAssumption, NEW entries, NEW last \in 1..MaxIterations, NEW isOpen,
           NEW of, last \notin of, NEW amounts \in [1..MaxIterations -> Nat],
           NEW settled \in SUBSET of, NEW amount \in Nat,
           Settles(entries, last, isOpen, of, amounts, settled),
           Has(entries, "reserve", "tokens", last)
    PROVE  Settles(entries, last, isOpen, of \cup {last}, [amounts EXCEPT ![last] = amount],
                   settled)
<1> PICK others : others = [amounts EXCEPT ![last] = amount]
  OBVIOUS
<1>1. Billed(others, settled) = Billed(amounts, settled)
  BY BilledIsOfTheBound
<1>2. ASSUME NEW i \in 1..last
      PROVE  Story(entries, i, i \in of \cup {last}, i \in settled, others[i])
  <2>1. Story(entries, i, i \in of, i \in settled, amounts[i])
    BY DEF Settles
  <2>2. CASE i = last
    BY <2>1, <2>2 DEF Story
  <2>3. CASE i # last
    <3>1. others[i] = amounts[i] /\ (i \in of \cup {last} <=> i \in of)
      BY <2>3
    <3> QED BY <2>1, <3>1 DEF Story
  <2> QED BY <2>2, <2>3
<1> QED BY <1>1, <1>2 DEF Settles

\* The iteration whose usage and release are posted is bound.
LEMMA BindSettles ==
    ASSUME BudgetAssumption, NEW entries, NEW last \in 1..MaxIterations,
           NEW of, NEW amounts \in [1..MaxIterations -> Nat], NEW settled,
           Settles(entries, last, TRUE, of, amounts, settled),
           Has(entries, "usage", "tokens", last), Has(entries, "release", "tokens", last),
           amounts[last] > 0
    PROVE  Settles(entries, last, TRUE, of, amounts, settled \cup {last})
<1>1. Billed(amounts, settled \cup {last}) <= Used(entries, "tokens")
  <2>1. CASE last \in settled
    <3>1. settled \cup {last} = settled
      BY <2>1
    <3> QED BY <3>1 DEF Settles
  <2>2. CASE last \notin settled
    <3>1. last \in 1..last
      OBVIOUS
    <3>2. AmountOf(entries, "usage", "tokens", last) = amounts[last]
      BY <3>1 DEF Settles, Story
    <3>3. Billed(amounts, settled \cup {last}) = Billed(amounts, settled) + amounts[last]
      BY <2>2, BilledGrows
    <3> QED BY <2>2, <3>2, <3>3 DEF Settles
  <2> QED BY <2>1, <2>2
<1>2. ASSUME NEW i \in 1..last
      PROVE  Story(entries, i, i \in of, i \in settled \cup {last}, amounts[i])
  BY DEF Settles, Story
<1> QED BY <1>1, <1>2 DEF Settles

(***************************************************************************)
(* The process                                                             *)
(***************************************************************************)
\* What is true of an open iteration at the place the process is at.
Place(entries, stage, i, isRecorded, amount, whose) ==
    /\ stage \in {"reserve", "send"} => ~isRecorded
    /\ stage = "send" => Has(entries, "reserve", "tokens", i)
    /\ stage \in {"usage", "commit", "release", "bind"} => isRecorded /\ amount > 0
    /\ stage = "commit" => whose = "runner"
    /\ stage = "commit" \/ (stage = "release" /\ whose = "runner") =>
         Has(entries, "usage", "tokens", i)
    /\ stage = "usage" /\ whose = "native" => Has(entries, "release", "tokens", i)
    /\ stage = "bind" => Has(entries, "usage", "tokens", i) /\ Has(entries, "release", "tokens", i)
    /\ stage \in {"charge", "finish"} => Rest(entries, i) = 0
    /\ stage = "finish" => Has(entries, "usage", "iteration_count", i)

\* The inductive invariant.
LedgerInvariant ==
    /\ LedgerTypeOK
    /\ step # "idle" => open
    /\ open => opened >= 1
    /\ Settles(ledger, opened, open, recorded, bill, bound)
    /\ open => Place(ledger, step, opened, opened \in recorded, bill[opened], settler)

\* Where Place asks for nothing.
LEMMA PlaceOfNothing ==
    ASSUME NEW entries, NEW stage \in {"idle", "abort"}, NEW i, NEW isRecorded, NEW amount,
           NEW whose
    PROVE  Place(entries, stage, i, isRecorded, amount, whose)
  BY DEF Place

\* Where the settlement of a recorded bill begins.
LEMMA PlaceToSettle ==
    ASSUME NEW entries, NEW i, NEW amount \in Nat, amount # 0, NEW whose \in {"runner", "native"}
    PROVE  Place(entries, IF whose = "runner" THEN "usage" ELSE "release", i, TRUE, amount, whose)
  BY DEF Place

\* What the types say of the numbers.
LEMMA LedgerTypes ==
    ASSUME BudgetAssumption, LedgerInvariant
    PROVE  /\ ledger \in Seq(Entries) /\ bill \in [1..MaxIterations -> Nat]
           /\ recorded \in SUBSET (1..opened) /\ bound \in SUBSET recorded
           /\ opened \in Nat /\ MaxIterations \in Nat
           /\ open => opened \in 1..MaxIterations /\ opened \in 1..opened /\ bill[opened] \in Nat
           /\ settler \in {"runner", "native"} /\ new \in BOOLEAN
<1>1. MaxIterations \in Nat /\ Bills \cup {0} \subseteq Nat
  BY DEF BudgetAssumption
<1>2. ledger \in Seq(Entries)
  BY DEF LedgerInvariant, LedgerTypeOK, Entries
<1>3. bill \in [1..MaxIterations -> Nat]
  BY <1>1 DEF LedgerInvariant, LedgerTypeOK
<1>4. opened \in Nat /\ (open => opened \in 1..MaxIterations /\ opened \in 1..opened)
  BY <1>1 DEF LedgerInvariant, LedgerTypeOK
<1> QED BY <1>1, <1>2, <1>3, <1>4 DEF LedgerInvariant, LedgerTypeOK

\* The two ways a write goes on.
Noted(e) == Posted(e.operation, e.unit) /\ ledger' = ledger
Taken(e) == ~Posted(e.operation, e.unit) /\ Takes(e) /\ ledger' = Append(ledger, e)

LEMMA EntryType ==
    ASSUME BudgetAssumption, LedgerInvariant, open,
           NEW operation \in Operations, NEW unit \in {"tokens", "iteration_count"},
           NEW amount \in Nat, NEW e, e = Entry(operation, unit, amount)
    PROVE  /\ e \in Entries
           /\ e.operation = operation /\ e.unit = unit /\ e.amount = amount
           /\ e.iteration = opened
  BY LedgerTypes DEF Entry, Entries, Units, BudgetAssumption

\* What a write leaves, whatever the entry.
LEMMA WriteSettles ==
    ASSUME BudgetAssumption, LedgerInvariant, open, UNCHANGED budgetVars,
           NEW e \in Entries, e.iteration = opened,
           WellMade(ledger, e, opened \in recorded, bill[opened]),
           Noted(e) \/ Taken(e)
    PROVE  /\ ledger' \in Seq(Entries)
           /\ Settles(ledger', opened, TRUE, recorded, bill, bound)
           /\ \A operation, unit : Has(ledger, operation, unit, opened)
                                  => Has(ledger', operation, unit, opened)
           /\ Has(ledger', e.operation, e.unit, opened)
           /\ e.operation = "usage" => Rest(ledger', opened) = Rest(ledger, opened)
           /\ e.operation = "release" /\ e.unit = "tokens" => Rest(ledger', opened) = 0
<1>1. /\ ledger \in Seq(Entries) /\ bill \in [1..MaxIterations -> Nat]
      /\ opened \in 1..MaxIterations /\ opened \in 1..opened
  BY LedgerTypes
<1>2. Settles(ledger, opened, TRUE, recorded, bill, bound)
  BY DEF LedgerInvariant
<1>3. Story(ledger, opened, opened \in recorded, opened \in bound, bill[opened])
  BY <1>1, <1>2 DEF Settles
<1>4. CASE Noted(e)
  <2>1. ledger' = ledger /\ Has(ledger, e.operation, e.unit, opened)
    BY <1>4 DEF Noted, Posted, Has
  <2>2. e.operation = "release" /\ e.unit = "tokens" => Rest(ledger, opened) = 0
    BY <1>3, <2>1 DEF Story
  <2> QED BY <1>1, <1>2, <2>1, <2>2
<1>5. CASE Taken(e)
  <2>1. ledger' = Append(ledger, e) /\ ~Has(ledger, e.operation, e.unit, opened) /\ Takes(e)
    BY <1>5 DEF Taken, Posted, Has
  <2>2. Fits(ledger, e)
    BY <1>1, <2>1, PrefixOfAppend DEF Takes
  <2>3. e.operation \in {"commit", "release"} => e.amount <= Rest(ledger, opened)
    BY <2>1 DEF Takes, Remaining, Amount, Rest, AmountOf
  <2>4. Written(ledger, ledger', e)
    BY <2>1, <2>2, <2>3 DEF Written
  <2>5. Settles(ledger', opened, TRUE, recorded, bill, bound)
    BY <1>1, <1>2, <2>4, EntrySettles
  <2>6. ledger' \in Seq(Entries)
    BY <1>1, <2>1, AppendProperties
  <2>7. \A operation, unit :
          Has(ledger', operation, unit, opened)
            <=> \/ Has(ledger, operation, unit, opened)
                \/ e.operation = operation /\ e.unit = unit /\ e.iteration = opened
    BY <1>1, <2>1, HasAppends
  <2>8. /\ e.operation = "usage" => Rest(ledger', opened) = Rest(ledger, opened)
        /\ e.operation = "release" => Rest(ledger', opened) = 0
    <3>1. Leaves(ledger, ledger', e)
      BY <1>1, <1>2, <2>4, EntrySettles
    <3> QED BY <3>1 DEF Leaves
  <2> QED BY <2>5, <2>6, <2>7, <2>8
<1> QED BY <1>4, <1>5

\* What a write leaves of the types and of the variables it does not change, at
\* the place it goes to.
LEMMA WriteGoesOn ==
    ASSUME BudgetAssumption, LedgerInvariant, open, UNCHANGED budgetVars,
           ledger' \in Seq(Entries),
           Settles(ledger', opened, TRUE, recorded, bill, bound),
           running' \in {"RUNNING", "PAUSED"},
           step' \in {"idle", "reserve", "send", "usage", "commit", "release", "bind", "abort",
                     "charge", "finish"},
           Place(ledger', step', opened, opened \in recorded, bill[opened], settler)
    PROVE  LedgerInvariant'
<1>1. LedgerTypeOK'
  BY DEF LedgerInvariant, LedgerTypeOK, budgetVars, Entries
<1>2. Settles(ledger, opened, open, recorded, bill, bound)'
  BY DEF budgetVars, LedgerInvariant, LedgerTypeOK
<1>3. Place(ledger, step, opened, opened \in recorded, bill[opened], settler)'
  BY DEF budgetVars
<1> QED BY <1>1, <1>2, <1>3 DEF LedgerInvariant, budgetVars

LEMMA BeginIsSafe ==
    ASSUME BudgetAssumption, LedgerInvariant, NEW whose \in {"runner", "native"}, Begin(whose)
    PROVE  LedgerInvariant'
<1> USE LedgerTypes
<1> PICK next : next = opened + 1
  OBVIOUS
<1>1. /\ ledger' = ledger /\ recorded' = recorded /\ bill' = bill /\ bound' = bound
      /\ failures' = failures /\ opened' = next /\ open' = TRUE /\ settler' = whose
      /\ new' = FALSE /\ step' = "reserve" /\ running' = running
      /\ ~open /\ opened < MaxIterations
  BY DEF Begin, Goes
<1>2. next \in 1..MaxIterations /\ 1..opened \subseteq 1..next /\ next \notin recorded
  BY <1>1
<1>3. Settles(ledger, next, TRUE, recorded, bill, bound)
  <2>1. Settles(ledger, opened, FALSE, recorded, bill, bound)
    BY <1>1 DEF LedgerInvariant, LedgerTypeOK
  <2>2. opened + 1 \in 1..MaxIterations
    BY <1>2
  <2> QED BY <2>1, <2>2, BeginSettles
<1>4. LedgerTypeOK'
  <2>1. next \in 0..MaxIterations /\ recorded \subseteq 1..next
    BY <1>2
  <2> QED BY <1>1, <2>1 DEF LedgerInvariant, LedgerTypeOK
<1>5. Place(ledger, "reserve", next, next \in recorded, bill[next], whose)
  BY <1>2 DEF Place
<1>6. Settles(ledger, opened, open, recorded, bill, bound)'
  BY <1>1, <1>3
<1>7. Place(ledger, step, opened, opened \in recorded, bill[opened], settler)'
  BY <1>1, <1>5
<1>8. opened' >= 1
  BY <1>1, <1>2
<1> QED BY <1>1, <1>4, <1>6, <1>7, <1>8 DEF LedgerInvariant

LEMMA TakeUpIsSafe ==
    ASSUME BudgetAssumption, LedgerInvariant, TakeUp
    PROVE  LedgerInvariant'
<1> USE LedgerTypes
<1>1. /\ ledger' = ledger /\ opened' = opened /\ open' = open /\ recorded' = recorded
      /\ bill' = bill /\ bound' = bound /\ settler' = settler /\ failures' = failures
      /\ new' = FALSE /\ running' = running /\ open
  BY DEF TakeUp, Goes
<1>2. \/ step' = "reserve" /\ opened \notin recorded
      \/ step' = "abort"
      \/ /\ opened \in recorded /\ bill[opened] # 0
         /\ step' = IF settler = "runner" THEN "usage" ELSE "release"
  BY DEF TakeUp, Goes, SettlesFirst
<1>3. Place(ledger, step', opened, opened \in recorded, bill[opened], settler)
  <2>1. CASE step' = "reserve" /\ opened \notin recorded
    BY <2>1 DEF Place
  <2>2. CASE step' = "abort"
    BY <2>2, PlaceOfNothing
  <2>3. CASE /\ opened \in recorded /\ bill[opened] # 0
             /\ step' = IF settler = "runner" THEN "usage" ELSE "release"
    BY <1>1, <2>3 DEF Place
  <2> QED BY <1>2, <2>1, <2>2, <2>3
<1>4. step' \in {"reserve", "abort", "usage", "release"}
  BY <1>2
<1>5. LedgerTypeOK'
  BY <1>1, <1>4 DEF LedgerInvariant, LedgerTypeOK
<1>6. Settles(ledger, opened, open, recorded, bill, bound)'
  BY <1>1 DEF LedgerInvariant
<1>7. Place(ledger, step, opened, opened \in recorded, bill[opened], settler)'
  BY <1>1, <1>3
<1> QED BY <1>1, <1>5, <1>6, <1>7 DEF LedgerInvariant

\* A step that writes nothing and goes where nothing is asked for.
LEMMA NothingWritten ==
    ASSUME BudgetAssumption, LedgerInvariant, UNCHANGED budgetVars, ledger' = ledger,
           open, running' \in {"RUNNING", "PAUSED"}, step' \in {"idle", "abort"}
    PROVE  LedgerInvariant'
<1>1. ledger' \in Seq(Entries) /\ Settles(ledger', opened, TRUE, recorded, bill, bound)
  BY LedgerTypes DEF LedgerInvariant
<1>2. Place(ledger', step', opened, opened \in recorded, bill[opened], settler)
  BY PlaceOfNothing
<1>3. step' \in {"idle", "reserve", "send", "usage", "commit", "release", "bind", "abort",
               "charge", "finish"}
  OBVIOUS
<1> QED BY <1>1, <1>2, <1>3, WriteGoesOn

LEMMA ReserveIsSafe ==
    ASSUME BudgetAssumption, LedgerInvariant, ReserveCall
    PROVE  LedgerInvariant'
<1> USE LedgerTypes
<1> PICK e : e = Entry("reserve", "tokens", CallBudget)
  OBVIOUS
<1>1. /\ open /\ step = "reserve" /\ UNCHANGED budgetVars /\ running' = running
      /\ running \in {"RUNNING", "PAUSED"}
  BY DEF ReserveCall, Write, Goes, LedgerInvariant, LedgerTypeOK
<1>2. /\ e \in Entries /\ e.operation = "reserve" /\ e.unit = "tokens" /\ e.iteration = opened
  BY <1>1, EntryType DEF Operations, BudgetAssumption
<1>3. opened \notin recorded
  BY <1>1 DEF LedgerInvariant, Place
<1>4. \/ (Noted(e) \/ Taken(e)) /\ step' = "send"
      \/ ledger' = ledger /\ step' \in {"idle", "abort"}
  BY <1>2 DEF ReserveCall, Write, Goes, Noted, Taken
<1>5. CASE (Noted(e) \/ Taken(e)) /\ step' = "send"
  <2>1. WellMade(ledger, e, opened \in recorded, bill[opened])
    BY <1>2 DEF WellMade
  <2>2. /\ ledger' \in Seq(Entries) /\ Settles(ledger', opened, TRUE, recorded, bill, bound)
        /\ Has(ledger', "reserve", "tokens", opened)
    BY <1>1, <1>2, <1>5, <2>1, WriteSettles
  <2>3. Place(ledger', "send", opened, opened \in recorded, bill[opened], settler)
    BY <1>3, <2>2 DEF Place
  <2> QED BY <1>1, <1>5, <2>2, <2>3, WriteGoesOn
<1>6. CASE ledger' = ledger /\ step' \in {"idle", "abort"}
  BY <1>1, <1>6, NothingWritten
<1> QED BY <1>4, <1>5, <1>6

LEMMA SendIsSafe ==
    ASSUME BudgetAssumption, LedgerInvariant, NEW amount \in Bills, Send(amount)
    PROVE  LedgerInvariant'
<1> USE LedgerTypes
<1>1. /\ ledger' = ledger /\ opened' = opened /\ open' = open /\ bound' = bound
      /\ settler' = settler /\ failures' = failures /\ new' = TRUE /\ running' = running
      /\ recorded' = recorded \cup {opened} /\ bill' = [bill EXCEPT ![opened] = amount]
      /\ step = "send"
      /\ step' = IF amount = 0 THEN "abort" ELSE IF settler = "runner" THEN "usage" ELSE "release"
  BY DEF Send, Goes, SettlesFirst
<1>2. /\ open /\ opened \notin recorded /\ Has(ledger, "reserve", "tokens", opened)
      /\ opened \in 1..MaxIterations /\ amount \in Nat
  BY <1>1 DEF LedgerInvariant, Place, BudgetAssumption
<1>3. Settles(ledger, opened, open, recorded \cup {opened}, [bill EXCEPT ![opened] = amount],
              bound)
  <2>1. Settles(ledger, opened, open, recorded, bill, bound)
    BY DEF LedgerInvariant
  <2> QED BY <1>2, <2>1, SendSettles
<1>4. LedgerTypeOK'
  <2>1. recorded' \subseteq 1..opened /\ bound \subseteq recorded'
    BY <1>1, <1>2
  <2>2. bill' \in [1..MaxIterations -> Bills \cup {0}]
    BY <1>1, <1>2 DEF LedgerInvariant, LedgerTypeOK
  <2>3. step' \in {"abort", "usage", "release"}
    BY <1>1
  <2> QED BY <1>1, <2>1, <2>2, <2>3 DEF LedgerInvariant, LedgerTypeOK
<1>5. Settles(ledger, opened, open, recorded, bill, bound)'
  BY <1>1, <1>3
<1>6. Place(ledger, step, opened, opened \in recorded, bill[opened], settler)'
  <2>1. bill'[opened] = amount /\ opened \in recorded'
    BY <1>1, <1>2
  <2>2. Place(ledger, step', opened, opened \in recorded', bill'[opened], settler)
    <3>1. CASE amount = 0
      BY <1>1, <3>1, PlaceOfNothing
    <3>2. CASE amount # 0
      BY <1>1, <1>2, <2>1, <3>2 DEF Place
    <3> QED BY <3>1, <3>2
  <2> QED BY <1>1, <2>2
<1> QED BY <1>1, <1>2, <1>4, <1>5, <1>6 DEF LedgerInvariant

\* Where a bill goes that cannot be settled.
LEMMA DisputedGoes ==
    ASSUME LedgerTypeOK, Disputed
    PROVE  step' \in {"idle", "abort"} /\ running' \in {"RUNNING", "PAUSED"}
  BY DEF Disputed, Goes, LedgerTypeOK

LEMMA UsageIsSafe ==
    ASSUME BudgetAssumption, LedgerInvariant, PostUsage
    PROVE  LedgerInvariant'
<1> USE LedgerTypes
<1>0. LedgerTypeOK /\ running \in {"RUNNING", "PAUSED"}
  BY DEF LedgerInvariant, LedgerTypeOK
<1>1. open /\ step = "usage" /\ UNCHANGED budgetVars
  BY DEF PostUsage, LedgerInvariant
<1> PICK e : e = Entry("usage", "tokens", bill[opened])
  OBVIOUS
<1>2. /\ e \in Entries /\ e.operation = "usage" /\ e.unit = "tokens" /\ e.amount = bill[opened]
      /\ e.iteration = opened
  BY <1>1, EntryType DEF Operations
<1>3. /\ opened \in recorded /\ bill[opened] > 0
      /\ settler = "native" => Has(ledger, "release", "tokens", opened)
  BY <1>1 DEF LedgerInvariant, Place
<1>4. \/ /\ Noted(e) \/ Taken(e)
         /\ step' = IF settler = "runner" THEN "commit" ELSE "bind"
         /\ running' = running
      \/ ledger' = ledger /\ Disputed
  BY <1>2 DEF PostUsage, Write, Goes, Noted, Taken
<1>5. CASE /\ Noted(e) \/ Taken(e)
           /\ step' = IF settler = "runner" THEN "commit" ELSE "bind"
           /\ running' = running
  <2>1. WellMade(ledger, e, opened \in recorded, bill[opened])
    BY <1>2, <1>3 DEF WellMade
  <2>2. /\ ledger' \in Seq(Entries) /\ Settles(ledger', opened, TRUE, recorded, bill, bound)
        /\ Has(ledger', "usage", "tokens", opened)
        /\ settler = "native" => Has(ledger', "release", "tokens", opened)
    BY <1>1, <1>2, <1>3, <1>5, <2>1, WriteSettles
  <2>3. Place(ledger', step', opened, opened \in recorded, bill[opened], settler)
    BY <1>3, <1>5, <2>2 DEF Place
  <2>4. step' \in {"commit", "bind"}
    BY <1>5
  <2> QED BY <1>0, <1>1, <1>5, <2>2, <2>3, <2>4, WriteGoesOn
<1>6. CASE ledger' = ledger /\ Disputed
  BY <1>0, <1>1, <1>6, DisputedGoes, NothingWritten
<1> QED BY <1>4, <1>5, <1>6

LEMMA CommitIsSafe ==
    ASSUME BudgetAssumption, LedgerInvariant, CommitUsage
    PROVE  LedgerInvariant'
<1> USE LedgerTypes
<1>0. LedgerTypeOK /\ running \in {"RUNNING", "PAUSED"}
  BY DEF LedgerInvariant, LedgerTypeOK
<1>1. open /\ step = "commit" /\ UNCHANGED budgetVars
  BY DEF CommitUsage, LedgerInvariant
<1> PICK e : e = Entry("commit", "tokens", bill[opened])
  OBVIOUS
<1>2. e \in Entries /\ e.operation = "commit" /\ e.unit = "tokens" /\ e.iteration = opened
  BY <1>1, EntryType DEF Operations
<1>3. /\ opened \in recorded /\ bill[opened] > 0
      /\ Has(ledger, "usage", "tokens", opened)
  BY <1>1 DEF LedgerInvariant, Place
<1>4. \/ (Noted(e) \/ Taken(e)) /\ step' = "release" /\ running' = running
      \/ ledger' = ledger /\ Disputed
  BY <1>2 DEF CommitUsage, Write, Goes, Noted, Taken
<1>5. CASE (Noted(e) \/ Taken(e)) /\ step' = "release" /\ running' = running
  <2>1. WellMade(ledger, e, opened \in recorded, bill[opened])
    BY <1>2 DEF WellMade
  <2>2. /\ ledger' \in Seq(Entries) /\ Settles(ledger', opened, TRUE, recorded, bill, bound)
        /\ Has(ledger', "usage", "tokens", opened)
    BY <1>1, <1>2, <1>3, <1>5, <2>1, WriteSettles
  <2>3. Place(ledger', "release", opened, opened \in recorded, bill[opened], settler)
    BY <1>3, <2>2 DEF Place
  <2> QED BY <1>0, <1>1, <1>5, <2>2, <2>3, WriteGoesOn
<1>6. CASE ledger' = ledger /\ Disputed
  BY <1>0, <1>1, <1>6, DisputedGoes, NothingWritten
<1> QED BY <1>4, <1>5, <1>6

\* The entry that releases what is left of a reservation.
LEMMA ReleaseEntry ==
    ASSUME BudgetAssumption, LedgerInvariant, open, Has(ledger, "reserve", "tokens", opened),
           NEW e, e = Entry("release", "tokens", Remaining(opened))
    PROVE  /\ e \in Entries /\ e.operation = "release" /\ e.unit = "tokens"
           /\ e.iteration = opened
           /\ WellMade(ledger, e, opened \in recorded, bill[opened])
<1>1. Remaining(opened) = Rest(ledger, opened)
  BY DEF Remaining, Amount, Rest, AmountOf
<1>2. Rest(ledger, opened) \in Nat
  BY LedgerTypes DEF LedgerInvariant, Settles, Story
<1>3. "release" \in Operations
  BY DEF Operations
<1>4. /\ e \in Entries /\ e.operation = "release" /\ e.unit = "tokens"
      /\ e.amount = Rest(ledger, opened) /\ e.iteration = opened
  BY <1>1, <1>2, <1>3, EntryType
<1> QED BY <1>4 DEF WellMade

LEMMA ReleaseIsSafe ==
    ASSUME BudgetAssumption, LedgerInvariant, ReleaseRest
    PROVE  LedgerInvariant'
<1> USE LedgerTypes
<1>0. LedgerTypeOK /\ running \in {"RUNNING", "PAUSED"}
  BY DEF LedgerInvariant, LedgerTypeOK
<1>1. open /\ step = "release" /\ UNCHANGED budgetVars
  BY DEF ReleaseRest, LedgerInvariant
<1> PICK e : e = Entry("release", "tokens", Remaining(opened))
  OBVIOUS
<1>2. /\ opened \in recorded /\ bill[opened] > 0
      /\ settler = "runner" => Has(ledger, "usage", "tokens", opened)
  BY <1>1 DEF LedgerInvariant, Place
<1>3. Has(ledger, "reserve", "tokens", opened)
  BY <1>1, <1>2 DEF LedgerInvariant, Settles, Story
<1>4. /\ e \in Entries /\ e.operation = "release" /\ e.unit = "tokens" /\ e.iteration = opened
      /\ WellMade(ledger, e, opened \in recorded, bill[opened])
  BY <1>1, <1>3, ReleaseEntry
<1>5. \/ /\ Noted(e) \/ Taken(e)
         /\ step' = IF settler = "runner" THEN "bind" ELSE "usage"
         /\ running' = running
      \/ ledger' = ledger /\ Disputed
  BY <1>4 DEF ReleaseRest, Write, Goes, Noted, Taken
<1>6. CASE /\ Noted(e) \/ Taken(e)
           /\ step' = IF settler = "runner" THEN "bind" ELSE "usage"
           /\ running' = running
  <2>1. /\ ledger' \in Seq(Entries) /\ Settles(ledger', opened, TRUE, recorded, bill, bound)
        /\ Has(ledger', "release", "tokens", opened)
        /\ settler = "runner" => Has(ledger', "usage", "tokens", opened)
    BY <1>1, <1>2, <1>4, <1>6, WriteSettles
  <2>2. Place(ledger', step', opened, opened \in recorded, bill[opened], settler)
    BY <1>2, <1>6, <2>1 DEF Place
  <2>3. step' \in {"bind", "usage"}
    BY <1>6
  <2> QED BY <1>0, <1>1, <1>6, <2>1, <2>2, <2>3, WriteGoesOn
<1>7. CASE ledger' = ledger /\ Disputed
  BY <1>0, <1>1, <1>7, DisputedGoes, NothingWritten
<1> QED BY <1>5, <1>6, <1>7

LEMMA BindIsSafe ==
    ASSUME BudgetAssumption, LedgerInvariant, BindUsage
    PROVE  LedgerInvariant'
<1> USE LedgerTypes
<1>1. /\ ledger' = ledger /\ opened' = opened /\ open' = open /\ recorded' = recorded
      /\ bill' = bill /\ settler' = settler /\ failures' = failures /\ new' = new
      /\ running' = running /\ bound' = bound \cup {opened} /\ step' = "charge"
      /\ step = "bind"
  BY DEF BindUsage, Goes
<1>2. /\ open /\ opened \in recorded /\ bill[opened] > 0 /\ opened \in 1..opened
      /\ Has(ledger, "usage", "tokens", opened) /\ Has(ledger, "release", "tokens", opened)
  BY <1>1 DEF LedgerInvariant, Place
<1>3. Settles(ledger, opened, TRUE, recorded, bill, bound)
  BY <1>2 DEF LedgerInvariant
<1>4. Settles(ledger, opened, TRUE, recorded, bill, bound \cup {opened})
  BY <1>2, <1>3, BindSettles
<1>5. LedgerTypeOK'
  <2>1. bound' \subseteq recorded
    BY <1>1, <1>2
  <2> QED BY <1>1, <2>1 DEF LedgerInvariant, LedgerTypeOK
<1>6. Rest(ledger, opened) = 0
  BY <1>2, <1>3 DEF Settles, Story
<1>7. Place(ledger, "charge", opened, opened \in recorded, bill[opened], settler)
  BY <1>6 DEF Place
<1>8. Settles(ledger, opened, open, recorded, bill, bound)'
  BY <1>1, <1>2, <1>4 DEF LedgerInvariant, LedgerTypeOK
<1>9. Place(ledger, step, opened, opened \in recorded, bill[opened], settler)'
  BY <1>1, <1>7
<1> QED BY <1>1, <1>5, <1>8, <1>9 DEF LedgerInvariant

LEMMA AbortIsSafe ==
    ASSUME BudgetAssumption, LedgerInvariant, Abort
    PROVE  LedgerInvariant'
<1> USE LedgerTypes
<1>0. running \in {"RUNNING", "PAUSED"} /\ Settles(ledger, opened, TRUE, recorded, bill, bound)
  BY DEF LedgerInvariant, LedgerTypeOK, Abort
<1>1. open /\ step = "abort" /\ UNCHANGED budgetVars
  BY DEF Abort, LedgerInvariant
<1> PICK e : e = Entry("release", "tokens", Remaining(opened))
  OBVIOUS
<1>2. CASE Posted("reserve", "tokens")
  <2>1. Has(ledger, "reserve", "tokens", opened)
    BY <1>2 DEF Posted, Has
  <2>2. /\ e \in Entries /\ e.operation = "release" /\ e.unit = "tokens"
        /\ e.iteration = opened
        /\ WellMade(ledger, e, opened \in recorded, bill[opened])
    BY <1>1, <2>1, ReleaseEntry
  <2>3. /\ running' = running
        /\ \/ (Noted(e) \/ Taken(e)) /\ step' = "charge"
           \/ ledger' = ledger /\ step' = "idle"
    BY <1>2, <2>2 DEF Abort, Write, Goes, Noted, Taken
  <2>4. CASE (Noted(e) \/ Taken(e)) /\ step' = "charge"
    <3>1. /\ ledger' \in Seq(Entries) /\ Settles(ledger', opened, TRUE, recorded, bill, bound)
          /\ Rest(ledger', opened) = 0
      BY <1>1, <2>2, <2>4, WriteSettles
    <3>2. Place(ledger', "charge", opened, opened \in recorded, bill[opened], settler)
      BY <3>1 DEF Place
    <3> QED BY <1>0, <1>1, <2>3, <2>4, <3>1, <3>2, WriteGoesOn
  <2>5. CASE ledger' = ledger /\ step' = "idle"
    BY <1>0, <1>1, <2>3, <2>5, NothingWritten
  <2> QED BY <2>3, <2>4, <2>5
<1>3. CASE ~Posted("reserve", "tokens")
  <2>1. ledger' = ledger /\ step' = "charge" /\ running' = running
    BY <1>3 DEF Abort, Goes
  <2>2. ~Has(ledger, "reserve", "tokens", opened)
    BY <1>3 DEF Posted, Has
  <2>3. AmountOf(ledger, "reserve", "tokens", opened) = 0
    <3>1. "reserve" \in Operations /\ "tokens" \in Units
      BY DEF Operations, Units, BudgetAssumption
    <3> QED BY <1>0, <1>1, <2>2, <3>1 DEF Settles, Posts
  <2>4. /\ AmountOf(ledger, "commit", "tokens", opened) \in Nat
        /\ AmountOf(ledger, "release", "tokens", opened) \in Nat
    <3>1. Entry("release", "tokens", 0) \in Entries
      BY <1>1, EntryType DEF Operations
    <3> QED BY <3>1, AmountAppends
  <2>5. Rest(ledger, opened) \in Nat
    BY <1>0, <1>1 DEF Settles, Story
  <2>6. Rest(ledger, opened) = 0
    BY <2>3, <2>4, <2>5 DEF Rest
  <2>7. Place(ledger', "charge", opened, opened \in recorded, bill[opened], settler)
    BY <2>1, <2>6 DEF Place
  <2> QED BY <1>0, <1>1, <2>1, <2>7, WriteGoesOn
<1> QED BY <1>2, <1>3

LEMMA ChargeIsSafe ==
    ASSUME BudgetAssumption, LedgerInvariant, Charge
    PROVE  LedgerInvariant'
<1> USE LedgerTypes
<1>0. running \in {"RUNNING", "PAUSED"}
  BY DEF LedgerInvariant, LedgerTypeOK
<1>1. open /\ step = "charge" /\ UNCHANGED budgetVars /\ Rest(ledger, opened) = 0
  BY DEF Charge, LedgerInvariant, Place
<1> PICK e : e = Entry("usage", "iteration_count", 1)
  OBVIOUS
<1>2. /\ e \in Entries /\ e.operation = "usage" /\ e.unit = "iteration_count" /\ e.amount = 1
      /\ e.iteration = opened
  BY <1>1, EntryType DEF Operations
<1>3. /\ running' = running
      /\ \/ (Noted(e) \/ Taken(e)) /\ step' = "finish"
         \/ ledger' = ledger /\ step' = "idle"
  BY <1>2 DEF Charge, Write, Goes, Noted, Taken
<1>4. CASE (Noted(e) \/ Taken(e)) /\ step' = "finish"
  <2>1. WellMade(ledger, e, opened \in recorded, bill[opened])
    BY <1>2 DEF WellMade
  <2>2. /\ ledger' \in Seq(Entries) /\ Settles(ledger', opened, TRUE, recorded, bill, bound)
        /\ Has(ledger', "usage", "iteration_count", opened) /\ Rest(ledger', opened) = 0
    BY <1>1, <1>2, <1>4, <2>1, WriteSettles
  <2>3. Place(ledger', "finish", opened, opened \in recorded, bill[opened], settler)
    BY <2>2 DEF Place
  <2> QED BY <1>0, <1>1, <1>3, <1>4, <2>2, <2>3, WriteGoesOn
<1>5. CASE ledger' = ledger /\ step' = "idle"
  BY <1>0, <1>1, <1>3, <1>5, NothingWritten
<1> QED BY <1>3, <1>4, <1>5

LEMMA FinishIsSafe ==
    ASSUME BudgetAssumption, LedgerInvariant, Finish
    PROVE  LedgerInvariant'
<1>1. /\ ledger' = ledger /\ opened' = opened /\ open' = FALSE /\ recorded' = recorded
      /\ bill' = bill /\ bound' = bound /\ settler' = settler /\ failures' = failures
      /\ new' = new /\ running' = running /\ step' = "idle" /\ step = "finish"
  BY DEF Finish, Goes
<1>2. open /\ Closed(ledger, opened)
  BY <1>1 DEF LedgerInvariant, Place, Closed
<1>3. opened \in Nat /\ Settles(ledger, opened, TRUE, recorded, bill, bound)
  BY <1>2, LedgerTypes DEF LedgerInvariant
<1>4. Settles(ledger, opened, FALSE, recorded, bill, bound)
  <2>1. \A i \in 1..opened : i < opened \/ i = opened
    BY <1>3
  <2> QED BY <1>2, <1>3, <2>1 DEF Settles
<1>5. LedgerTypeOK'
  BY <1>1 DEF LedgerInvariant, LedgerTypeOK
<1>6. Settles(ledger, opened, open, recorded, bill, bound)'
  BY <1>1, <1>4
<1> QED BY <1>1, <1>5, <1>6 DEF LedgerInvariant

LEMMA DyingIsSafe ==
    ASSUME BudgetAssumption, LedgerInvariant, ProcessDies
    PROVE  LedgerInvariant'
<1>1. /\ ledger' = ledger /\ opened' = opened /\ open' = open /\ recorded' = recorded
      /\ bill' = bill /\ bound' = bound /\ settler' = settler /\ new' = new
      /\ running' = running /\ step' = "idle" /\ open
      /\ failures < MaxFailures /\ failures' = failures + 1
  BY DEF ProcessDies, Goes, LedgerInvariant
<1>2. failures' \in 0..MaxFailures
  BY <1>1 DEF LedgerInvariant, LedgerTypeOK, BudgetAssumption
<1>3. LedgerTypeOK'
  BY <1>1, <1>2 DEF LedgerInvariant, LedgerTypeOK
<1>4. Settles(ledger, opened, open, recorded, bill, bound)'
  BY <1>1 DEF LedgerInvariant
<1>5. Place(ledger, step, opened, opened \in recorded, bill[opened], settler)'
  BY <1>1, PlaceOfNothing
<1> QED BY <1>1, <1>3, <1>4, <1>5 DEF LedgerInvariant

LEMMA LedgerBegins ==
    ASSUME BudgetAssumption, LedgerInit
    PROVE  LedgerInvariant
<1>1. /\ ledger = <<>> /\ opened = 0 /\ open = FALSE /\ recorded = {} /\ bound = {}
      /\ bill = [i \in 1..MaxIterations |-> 0] /\ step = "idle"
      /\ MaxIterations \in Nat /\ MaxFailures \in Nat
  BY DEF LedgerInit, BudgetAssumption
<1>2. ledger \in Seq(Entries) /\ Len(ledger) = 0 /\ DOMAIN ledger = {}
  BY <1>1
<1>3. LedgerTypeOK
  <2>1. /\ opened \in 0..MaxIterations /\ recorded \subseteq 1..opened /\ bound \subseteq recorded
        /\ failures \in 0..MaxFailures /\ bill \in [1..MaxIterations -> Bills \cup {0}]
    BY <1>1 DEF LedgerInit
  <2>2. ledger \in Seq([operation : Operations, unit : Units, amount : Nat,
                       iteration : 1..MaxIterations])
    BY <1>2 DEF Entries
  <2> QED BY <1>1, <2>1, <2>2 DEF LedgerInit, LedgerTypeOK
<1>4. ASSUME NEW operations, NEW unit, NEW iterations
      PROVE  Sum(ledger, operations, unit, iterations) = 0
  <2>1. [k \in 1..Len(ledger) |->
           IF /\ ledger[k].operation \in operations /\ ledger[k].unit = unit
              /\ ledger[k].iteration \in iterations
           THEN ledger[k].amount ELSE 0] = <<>>
    BY <1>2
  <2> QED BY <2>1, TotalOfNothing DEF Sum
<1>5. Posts(ledger, 0)
  <2>1. \A operation, unit, i : ~Has(ledger, operation, unit, i)
    BY <1>2 DEF Has
  <2> QED BY <1>4, <2>1 DEF Posts, AmountOf
<1>6. Kept(ledger)
  BY <1>4 DEF Kept, Used, Reserved, Units, BudgetAssumption
<1>7. Billed(bill, bound) = 0
  <2> PICK none : none = [i \in 1..MaxIterations |-> IF i \in bound THEN bill[i] ELSE 0]
    OBVIOUS
  <2>1. none \in Seq(Nat) /\ \A i \in 1..MaxIterations : none[i] = 0
    BY <1>1, IsASeq
  <2>2. Total(none) = 0
    BY <1>1, <2>1, TotalOfZeros
  <2> QED BY <2>2 DEF Billed
<1>8. Used(ledger, "tokens") = 0
  BY <1>4 DEF Used
<1>9. Settles(ledger, opened, open, recorded, bill, bound)
  BY <1>1, <1>5, <1>6, <1>7, <1>8 DEF Settles
<1> QED BY <1>1, <1>3, <1>9 DEF LedgerInvariant

LEMMA LedgerStep ==
    ASSUME BudgetAssumption, LedgerInvariant, [LedgerNext]_ledgerVars
    PROVE  LedgerInvariant'
<1>1. ASSUME NEW whose \in {"runner", "native"}, Begin(whose) PROVE LedgerInvariant'
  BY <1>1, BeginIsSafe
<1>2. CASE TakeUp
  BY <1>2, TakeUpIsSafe
<1>3. CASE ReserveCall
  BY <1>3, ReserveIsSafe
<1>4. ASSUME NEW amount \in Bills, Send(amount) PROVE LedgerInvariant'
  BY <1>4, SendIsSafe
<1>5. CASE PostUsage
  BY <1>5, UsageIsSafe
<1>6. CASE CommitUsage
  BY <1>6, CommitIsSafe
<1>7. CASE ReleaseRest
  BY <1>7, ReleaseIsSafe
<1>8. CASE BindUsage
  BY <1>8, BindIsSafe
<1>9. CASE Abort
  BY <1>9, AbortIsSafe
<1>10. CASE Charge
  BY <1>10, ChargeIsSafe
<1>11. CASE Finish
  BY <1>11, FinishIsSafe
<1>12. CASE ProcessDies
  BY <1>12, DyingIsSafe
<1>13. CASE UNCHANGED ledgerVars
  <2>1. /\ ledger' = ledger /\ opened' = opened /\ open' = open /\ recorded' = recorded
        /\ bill' = bill /\ bound' = bound /\ settler' = settler /\ new' = new
        /\ running' = running /\ step' = step /\ failures' = failures
    BY <1>13 DEF ledgerVars, budgetVars
  <2>2. LedgerTypeOK'
    BY <2>1 DEF LedgerInvariant, LedgerTypeOK
  <2> QED BY <2>1, <2>2 DEF LedgerInvariant
<1> QED BY <1>1, <1>2, <1>3, <1>4, <1>5, <1>6, <1>7, <1>8, <1>9, <1>10, <1>11, <1>12, <1>13
        DEF LedgerNext

\* The invariant says more than the property.
LEMMA InvariantSettles ==
    ASSUME BudgetAssumption, LedgerInvariant
    PROVE  BillsAreSettledOnce
<1> USE LedgerTypes
<1>1. LedgerTypeOK /\ Settles(ledger, opened, open, recorded, bill, bound)
  BY DEF LedgerInvariant
<1>2. ASSUME NEW i \in 1..opened, i < opened \/ ~open
      PROVE  /\ Remaining(i) = 0
             /\ Amount("usage", "iteration_count", i) = 1
             /\ Amount("usage", "tokens", i) \in {0, bill[i]}
             /\ i \in bound => Amount("usage", "tokens", i) = bill[i] /\ bill[i] > 0
  <2>1. Closed(ledger, i) /\ Story(ledger, i, i \in recorded, i \in bound, bill[i])
    BY <1>1, <1>2 DEF Settles
  <2>2. /\ Remaining(i) = Rest(ledger, i)
        /\ \A operation, unit :
             Amount(operation, unit, i) = AmountOf(ledger, operation, unit, i)
    BY DEF Remaining, Amount, Rest, AmountOf
  <2>3. Has(ledger, "usage", "tokens", i) \/ AmountOf(ledger, "usage", "tokens", i) = 0
    <3>1. i \in 1..MaxIterations /\ "usage" \in Operations /\ "tokens" \in Units
      BY <1>1 DEF LedgerTypeOK, Operations, Units, BudgetAssumption
    <3> QED BY <1>1, <3>1 DEF Settles, Posts
  <2> QED BY <2>1, <2>2, <2>3 DEF Story, Closed
<1>3. SettledOnce
  BY <1>2 DEF SettledOnce
<1>4. BilledWithinLimit
  <2> PICK limit, used, billed :
        limit = Limits["tokens"] /\ used = Used(ledger, "tokens") /\ billed = Billed(bill, bound)
    OBVIOUS
  <2>1. limit \in Nat /\ used <= limit /\ billed <= used
    BY <1>1 DEF Settles, Kept, Units, BudgetAssumption
  <2>2. used \in Nat
    BY SumIsNat DEF Used
  <2>3. billed \in Nat
    BY BilledIsNat
  <2>4. billed <= limit
    BY <2>1, <2>2, <2>3
  <2> QED BY <2>4 DEF BilledWithinLimit, Billed
<1> QED BY <1>1, <1>3, <1>4 DEF BillsAreSettledOnce

\* For any Charter, bills and reservation: in an iteration that is over nothing is
\* reserved and its charge and its bill are counted once, and what is bound was billed
\* within the limit, however often the process dies.
THEOREM BillsSettleOnce ==
    ASSUME BudgetAssumption
    PROVE  LedgerSpec => []BillsAreSettledOnce
<1>1. LedgerInit => LedgerInvariant
  BY LedgerBegins
<1>2. LedgerInvariant /\ [LedgerNext]_ledgerVars => LedgerInvariant'
  BY LedgerStep
<1>3. LedgerInvariant => BillsAreSettledOnce
  BY InvariantSettles
<1> QED BY <1>1, <1>2, <1>3, PTL DEF LedgerSpec
=============================================================================
