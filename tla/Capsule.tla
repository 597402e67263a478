------------------------------- MODULE Capsule -------------------------------
(***************************************************************************)
(* The live execution capsule (convergence.py): one approval of a person   *)
(* for everything that is left to do with a prepared call.  Claiming the   *)
(* capsule consumes it; its owner then makes the lookup, shows and gives   *)
(* the approvals that NativeExecution asks of people, executes the live    *)
(* path, and closes the capsule with what came of it.  The owner may crash *)
(* anywhere, the write that closes the capsule may fail, and an            *)
(* administrator may close the capsule of an owner who seems to have       *)
(* crashed.                                                                *)
(***************************************************************************)
EXTENDS NativeExecution

CONSTANT CapsuleTtl

ASSUME CapsuleTtlAssumption == CapsuleTtl \in Nat \ {0}

VARIABLES
    capsule,        \* max_live_execution_capsule_previews and _current; and whether the
                    \* write of what came of it failed, which no table says
    owner           \* the process in execute: its next step and the outcome it has

capsuleVars == <<capsule, owner>>

Outcomes == [succeeded |-> "SUCCEEDED", failed |-> "KNOWN_PROVIDER_FAILURE",
             known_pre_send_failure |-> "KNOWN_PRE_SEND_FAILURE",
             unknown_after_send |-> "UNKNOWN_AFTER_SEND"]
Terminals == {Outcomes[v] : v \in Verdicts}
Stages == {"none", "lookup", "looking", "show", "approve", "window", "authorise", "native",
           "closing", "handling"}

CapsuleTypeOK ==
    /\ TypeOK
    /\ capsule \in [state : {"none", "AWAITING_EXECUTION", "EXECUTING"} \cup Terminals,
                    expires : Nat, lost : BOOLEAN]
    /\ owner \in [stage : Stages, verdict : {"none"} \cup Verdicts]

NoOwner == [stage |-> "none", verdict |-> "none"]

NoCapsule == capsule = [state |-> "none", expires |-> 0, lost |-> FALSE] /\ owner = NoOwner

CapsuleInit == Init /\ NoCapsule

\* _binding_context: what the capsule binds is there, unchanged and waiting.
\* The snapshot is asked for what it binds and not for its state.
Context == handoff.state = Waiting /\ Bound(handoff.of) /\ Idle(Begun)

\* create_preview: one capsule of a run, before anything was done.
CreateCapsule ==
    /\ capsule.state = "none"
    /\ Context
    /\ attempt = "none" /\ human2.expires = 0 /\ record = "none" /\ jit["live"].state = "none"
    /\ capsule' = [state |-> "AWAITING_EXECUTION", expires |-> now + CapsuleTtl, lost |-> FALSE]
    /\ UNCHANGED <<vars, owner>>

\* _claim_capsule.
ClaimCapsule ==
    /\ capsule.state = "AWAITING_EXECUTION"
    /\ Alive(capsule.expires)
    /\ Context
    /\ capsule' = [capsule EXCEPT !.state = "EXECUTING"]
    /\ owner' = [NoOwner EXCEPT !.stage = "lookup"]
    /\ UNCHANGED vars

(***************************************************************************)
(* The owner                                                               *)
(***************************************************************************)
OwnerDoes(stage, next) ==
    /\ owner.stage = stage
    /\ owner' = [owner EXCEPT !.stage = next]
    /\ UNCHANGED capsule

Ends(verdict) ==
    /\ owner' = [stage |-> "closing", verdict |-> verdict]
    /\ UNCHANGED capsule

Lookup == OwnerDoes("lookup", "looking") /\ BeginAttempt(Touched) /\ UNCHANGED nativeVars

\* A lookup that did not pass, or whose record was given up, ends it.
LookedUp(result) ==
    /\ owner.stage = "looking"
    /\ ResolverReturns(result)
    /\ IF Looked' THEN OwnerDoes("looking", "show") ELSE Ends(PreSend)
    /\ UNCHANGED nativeVars

Approvals ==
    \/ OwnerDoes("show", "approve") /\ ShowApproval
    \/ OwnerDoes("approve", "window") /\ ApproveLive
    \/ OwnerDoes("window", "authorise") /\ OpenWindow
    \/ OwnerDoes("authorise", "native") /\ AuthoriseWindow

\* Mutant: the outcome is what the answer of the provider said.
OutcomeOf(verdict) == IF record = "none" THEN verdict ELSE record

\* What the executor returns when it is done.
Outcome(verdict) == verdict

\* A step of the executor; when it returned, its verdict is the owner's.
ExecutesLive(e) ==
    /\ e = Live /\ owner.stage = "native"
    /\ \/ Check \/ Consume \/ Lease \/ Authorise \/ ArmFails
       \/ Grant(e) \/ Prepare(e) \/ Start(e) \/ Arm(e)
       \/ \E answer \in Answers \cup {Unknown} : Send(e, answer)
       \/ Record(e) \/ StoreResult(e) \/ CloseRunner(e)
       \/ Fault(e) \/ Abort(e) \/ Doubt(e) \/ Conclude(e) \/ Clean(e)
    /\ IF exec'[e].pc = "idle" THEN Ends(Outcome(exec[e].verdict)) ELSE UNCHANGED capsuleVars

\* The handler of execute takes every exception for one from before the send,
\* but for those whose code says otherwise.
Handles == owner' = [stage |-> "handling", verdict |-> PreSend]

\* What the executor does after it consumed the authorization it handles itself.
Raises ==
    /\ \/ owner.stage \in {"lookup", "looking", "show", "approve", "window", "authorise"}
       \/ owner.stage = "native" /\ At(Live, {"idle", "checked"})
    /\ Handles
    /\ exec' = [exec EXCEPT ![Live] = Resting]
    /\ resolver' = IF owner.stage = "looking" THEN "idle" ELSE resolver
    /\ UNCHANGED <<capsule, runVars, reviewVars, attempt, handoff, humanVars, jit, callVars, sent>>

\* _terminalize, which is refused once somebody else closed the capsule.
Terminalized(verdict) ==
    capsule' = [capsule EXCEPT !.state = IF @ = "EXECUTING" THEN Outcomes[verdict] ELSE @]

Close ==
    /\ owner.stage \in {"closing", "handling"}
    /\ Terminalized(owner.verdict)
    /\ owner' = NoOwner
    /\ UNCHANGED vars

\* The write of the outcome fails: a locked database, an I/O error.  It is one
\* more exception of execute, which goes on to close the capsule as never sent.
\* A write of the handler that fails leaves the capsule as a crash does.
CloseFails ==
    /\ owner.stage = "closing"
    /\ Handles
    /\ capsule' = [capsule EXCEPT !.lost = owner.verdict # PreSend]
    /\ UNCHANGED vars

OwnerCrashes ==
    /\ owner.stage # "none"
    /\ owner' = NoOwner
    /\ exec' = [exec EXCEPT ![Live] = Resting]
    /\ resolver' = "idle"
    /\ UNCHANGED <<capsule, runVars, reviewVars, attempt, handoff, humanVars, jit, callVars, sent>>

\* recover: it cannot tell an owner who crashed from one who is at work.
Recover ==
    /\ capsule.state = "EXECUTING"
    /\ Terminalized(Unknown)
    /\ UNCHANGED <<vars, owner>>

------------------------------------------------------------------------------
\* What others do with the call meanwhile.
Meanwhile ==
    /\ \/ Tick \/ Change \/ Pause \/ Resume \/ Invalidate(1) \/ RecoverUnknown
       \/ CloseWaiting(Begun)
    /\ UNCHANGED <<nativeVars, capsuleVars>>

CapsuleNext ==
    \/ CreateCapsule \/ ClaimCapsule \/ Lookup \/ Approvals \/ ExecutesLive(Live) \/ Raises
    \/ Close \/ CloseFails \/ OwnerCrashes \/ Recover \/ Meanwhile
    \/ \E result \in {"passed", "failed", "unknown"} : LookedUp(result)

CapsuleSpec == CapsuleInit /\ [][CapsuleNext]_<<vars, capsuleVars>>

(***************************************************************************)
(* Properties                                                              *)
(***************************************************************************)
\* A capsule closed with success has the provider's record and a runner that
\* is settled, one closed with the provider's failure has the record of it,
\* and one closed as never sent has no request on the wire, whatever failed,
\* crashed or was recovered when.  The exception is the outcome that could not
\* be written: its capsule may be closed as never sent after the request left.
CapsuleTells ==
    /\ capsule.state = "SUCCEEDED" =>
         record = "succeeded" /\ runner.iteration = "completed" /\ jit["live"].closed
    /\ capsule.state = "KNOWN_PROVIDER_FAILURE" => record = "failed"
    /\ capsule.state = "KNOWN_PRE_SEND_FAILURE" /\ ~capsule.lost =>
         sent[Live] = 0 /\ record = "none"

\* One request leaves for a call, a live one is never forgotten, and every
\* variable has its type.
SendsAreKnown == CapsuleTypeOK /\ NeverTwice /\ LiveSendIsKept

\* What a worker's preparation decided stands: the verdict of the lookup, and
\* that a handoff which waits for people holds up nobody.
PreparationStands == [][ClaimGivenUp' /\ VerdictStep]_vars
==============================================================================
