----------------------------- MODULE RunnerCall -----------------------------
(***************************************************************************)
(* One group of model calls, from the reservation of its budget to the     *)
(* outcome of its iteration, executed by run_next calls that may crash at  *)
(* any point and are made again.                                           *)
(*                                                                         *)
(* Every write is one control_transaction and so one step, and so is the   *)
(* call of the adapter, which is made outside of any transaction.  One     *)
(* process works at a time (RunnerInvocation) and holds the lease; one     *)
(* that has lost it is refused every write, which is a crash here, as is   *)
(* an error that run_next lets out; one that it catches is StoreFails.     *)
(* What precedes the group, plan and iteration, is RunControl's.  Rows     *)
(* that only tell the story (events, most recovery decisions, links) are   *)
(* left out, and so are epistemic conflicts, which count across            *)
(* iterations.                                                             *)
(***************************************************************************)
EXTENDS Naturals, FiniteSets

CONSTANTS
    NumCalls,       \* calls of the group: 1, or the five of an adjudication
    Responses,      \* what the provider can answer
    Capabilities,   \* what the adapter may support
    HiddenErrors,   \* whether an adapter error can hide an executed call
    MaxSends,       \* bound on adapter dispatches
    MaxCrashes      \* bound on crashes and failing writes

\* What the constants are assumed to be, where the module is instantiated.
CallsAssumption == NumCalls \in Nat \ {0}
ResponsesAssumption ==
    Responses \subseteq {"accepted", "rejected", "failed", "unbilled", "invalid", "overrun"}
CapabilitiesAssumption == Capabilities \subseteq [query : BOOLEAN, idempotent : BOOLEAN]
CallBoundsAssumption == {MaxSends, MaxCrashes} \subseteq Nat /\ HiddenErrors \in BOOLEAN

VARIABLES
    status,         \* max_runs.status
    group,          \* max_runner_call_group_current.status
    iteration,      \* max_iteration_outcomes.status of the group's iteration
    charged,        \* the iteration's service charge is in the ledger
    applied,        \* its change set is in the canonical graph
    calls,          \* what the store holds of each call
    provider,       \* what the provider did: executions, and its latest answer
    capable,        \* the adapter's capabilities
    pc, at, path,   \* the process: its place, its call, how it got there
    fresh,          \* whether it settles a result it has just recorded
    response,       \* the response it holds in memory
    sends, crashes

runVars == <<status, group, iteration, charged, applied>>
procVars == <<at, path, fresh, response>>
vars == <<runVars, calls, provider, capable, pc, procVars, sends, crashes>>

Calls == 1..NumCalls

\* Succeeded with a proposal that passes; "overrun" reports more usage than
\* was reserved, "invalid" a receipt the authority refuses, "unbilled" is a
\* failure without a receipt.
Good == {"accepted", "overrun"}

Call == [reservation : {"none", "held", "committed", "closed", "released"},
         intent : BOOLEAN,
         stage : {"none", "dispatching", "dispatched", "unknown", "failed"},
         ack : {"none", "dispatched", "unknown"},
         result : Responses \cup {"none"},
         usage : BOOLEAN,
         bound : BOOLEAN,
         outcome : {"none", "completed", "aborted"},
         ambiguous : BOOLEAN,
         decision : {"none", "retry", "abort", "accept"}]

TypeOK ==
    /\ status \in {"RUNNING", "PAUSED"}
    /\ group \in {"open", "completed", "aborted", "paused"}
    /\ iteration \in {"open", "completed", "aborted"}
    /\ charged \in BOOLEAN /\ applied \in BOOLEAN
    /\ calls \in [Calls -> Call]
    /\ provider \in [Calls -> [executed : 0..MaxSends, answer : Responses \cup {"none"}]]
    /\ capable \in Capabilities
    /\ at \in Calls
    /\ path \in {"group", "existing"}
    /\ fresh \in BOOLEAN
    /\ response \in Responses \cup {"none"}
    /\ sends \in 0..MaxSends /\ crashes \in 0..MaxCrashes

NewCall == [reservation |-> "none", intent |-> FALSE, stage |-> "none", ack |-> "none",
            result |-> "none", usage |-> FALSE, bound |-> FALSE, outcome |-> "none",
            ambiguous |-> FALSE, decision |-> "none"]

Init ==
    /\ status = "RUNNING" /\ group = "open" /\ iteration = "open"
    /\ charged = FALSE /\ applied = FALSE
    /\ calls = [c \in Calls |-> NewCall]
    /\ provider = [c \in Calls |-> [executed |-> 0, answer |-> "none"]]
    /\ capable \in Capabilities
    /\ pc = "idle" /\ at = 1 /\ path = "group" /\ fresh = FALSE /\ response = "none"
    /\ sends = 0 /\ crashes = 0

(***************************************************************************)
(* Steps of the process.  At leaves from one place for another; Stays says *)
(* that the process keeps what it holds.                                   *)
(***************************************************************************)
Stays == UNCHANGED procVars
At(here, next) == pc = here /\ pc' = next
Elsewhere == UNCHANGED <<provider, capable, sends, crashes>>

\* A step that only decides.
Decides(here, next) ==
    /\ At(here, next)
    /\ Stays
    /\ Elsewhere
    /\ UNCHANGED <<runVars, calls>>

\* A step that writes to the row of the current call.
Writes(here, next, row) ==
    /\ At(here, next)
    /\ calls' = [calls EXCEPT ![at] = row]
    /\ Stays
    /\ Elsewhere
    /\ UNCHANGED runVars

\* A MaxControlError: the group path aborts, _continue_existing lets it out
\* of run_next.
Failed == IF path = "group" THEN "abort" ELSE "idle"

(***************************************************************************)
(* run_next picks the work up where the store says it is                   *)
(***************************************************************************)
Enter(next, c, how) ==
    /\ status = "RUNNING"
    /\ At("idle", next)
    /\ at' = c
    /\ path' = how
    /\ UNCHANGED <<fresh, response, runVars, calls>>
    /\ Elsewhere

\* current_group: only a group that is still open.
EnterGroup == group = "open" /\ Enter("call", 1, "group")

\* latest_unfinished: the latest intent without an outcome.
Unfinished == {c \in Calls : calls[c].intent /\ calls[c].outcome = "none"}

EnterExisting ==
    /\ group # "open"
    /\ \E c \in Unfinished :
         /\ \A d \in Unfinished : d <= c
         /\ Enter("existing", c, "existing")

\* _continue_existing: an abort decision first, then a stored result.
Existing ==
    \/ calls[at].decision = "abort" /\ Decides("existing", "abort")
    \/ /\ calls[at].decision # "abort"
       /\ calls[at].result # "none"
       /\ Decides("existing", "finish")
    \/ /\ calls[at].decision # "abort"
       /\ calls[at].result = "none"
       /\ Decides("existing", "dispatch")

(***************************************************************************)
(* _execute_group, call by call                                            *)
(***************************************************************************)
\* A stored result is settled again, one that is missing is asked for.
CallStored ==
    /\ calls[at].result # "none"
    /\ At("call", "settle")
    /\ fresh' = FALSE
    /\ UNCHANGED <<at, path, response, runVars, calls>>
    /\ Elsewhere

CallPending ==
    /\ calls[at].intent /\ calls[at].result = "none"
    /\ Decides("call", "dispatch")

\* _ensure_reservation repeats the reservation it finds.
Reserve ==
    /\ ~calls[at].intent
    /\ iteration = "open"
    /\ Writes("call", "intent",
              [calls[at] EXCEPT !.reservation = IF @ = "none" THEN "held" ELSE @])

\* Before anything else the intent is built, or a recorded one built again and
\* compared, from what the gateway says and what is in the graph now: the
\* gateway may refuse or have changed, and so may the graph, by the group's
\* own change set.  A new intent may also be refused its reservation.
CallRefused == Decides("call", "abort")

\* record_intent refuses a payload that is not for the store.
RecordIntent ==
    \/ Writes("intent", "dispatch", [calls[at] EXCEPT !.intent = TRUE])
    \/ Decides("intent", "abort")

(***************************************************************************)
(* _dispatch_or_recover                                                    *)
(***************************************************************************)

\* The dispatch may have happened: by the latest attempt, and in
\* _continue_existing, whose row has the column, by the acknowledgement too.
Uncertain ==
    \/ calls[at].stage \in {"unknown", "dispatched"}
    \/ path = "existing" /\ calls[at].ack # "none"

Attempt(stage) == [calls[at] EXCEPT !.stage = stage]

RetryAllowed == calls[at].decision = "retry"

\* Mutant: what a dispatch that did not return means is not asked.
StalledNever == FALSE

\* A dispatch was under way when the process went, and nothing can tell how
\* it ended.
Stalled == calls[at].stage = "dispatching" /\ ~capable.idempotent /\ ~capable.query

Dispatch ==
    \/ RetryAllowed /\ Writes("dispatch", "retry", Attempt("dispatching"))
    \/ ~RetryAllowed /\ Uncertain /\ Decides("dispatch", "recover")
    \/ ~RetryAllowed /\ ~Uncertain /\ Stalled /\ Decides("dispatch", "ambiguous")
    \/ /\ ~RetryAllowed /\ ~Uncertain /\ ~Stalled
       /\ Writes("dispatch", "send", Attempt("dispatching"))

\* query finds the provider's answer.
Queried(here, next) ==
    /\ capable.query
    /\ provider[at].answer # "none"
    /\ At(here, next)
    /\ response' = provider[at].answer
    /\ UNCHANGED <<at, path, fresh, runVars, calls>>
    /\ Elsewhere

\* A query may fail, or find nothing whatever the provider did.
Recover ==
    \/ Queried("recover", "record")
    \/ capable.query /\ Decides("recover", Failed)
    \/ capable.idempotent /\ Writes("recover", "resend", Attempt("dispatching"))
    \/ ~capable.idempotent /\ Decides("recover", "ambiguous")

\* The provider executes the call, or under its idempotency key repeats what
\* it answered before.
Executes ==
    IF capable.idempotent /\ provider[at].executed > 0
    THEN provider' = provider
    ELSE \E r \in Responses :
           provider' = [provider EXCEPT ![at] = [executed |-> @.executed + 1, answer |-> r]]

Sending == {"send", "resend", "retry"}

\* The adapter is called; the process goes on at next.
Sends(here, next) ==
    /\ sends < MaxSends
    /\ sends' = sends + 1
    /\ At(here, next)
    /\ UNCHANGED <<at, path, fresh, runVars, calls, capable, crashes>>

\* A response; the idempotent resend takes it as it is, the others record
\* the dispatch.
Answered ==
    \E here \in Sending :
      /\ Sends(here, IF here = "resend" THEN "record" ELSE "answered")
      /\ Executes
      /\ response' = provider'[at].answer

\* Where an exception leaves the process: the first dispatch and a retry
\* record a failed attempt, the idempotent resend lets it out of run_next.
Thrown(here) == IF here = "resend" THEN "idle" ELSE "failed"

\* DispatchUnknown, which only the first dispatch tells from other
\* exceptions: the call was sent, or was provably not.
SentUnknown ==
    \E here \in Sending :
      /\ Sends(here, IF here = "send" THEN "unknown" ELSE Thrown(here))
      /\ Executes \/ UNCHANGED provider
      /\ UNCHANGED response

NotSent ==
    /\ Sends("send", "unsent")
    /\ UNCHANGED <<provider, response>>

\* Any other exception.
AdapterFails ==
    \E here \in Sending :
      /\ Sends(here, Thrown(here))
      /\ \/ UNCHANGED provider
         \/ HiddenErrors /\ Executes
      /\ UNCHANGED response

\* The process goes while the adapter is at work.
CrashSending ==
    \E here \in Sending :
      /\ sends < MaxSends /\ crashes < MaxCrashes
      /\ sends' = sends + 1 /\ crashes' = crashes + 1
      /\ At(here, "idle")
      /\ Executes
      /\ UNCHANGED <<procVars, runVars, calls, capable>>

AttemptFailed == Writes("failed", Failed, Attempt("failed"))
AttemptDispatched == Writes("answered", "ack", Attempt("dispatched"))
AttemptUnknown ==
    \/ Writes("unknown", "unknownAck", Attempt("unknown"))
    \/ Writes("unsent", "unsentAck", Attempt("unknown"))

\* record_dispatch_ack with preserve_existing: the first one stays.
AckDispatched ==
    Writes("ack", "record", [calls[at] EXCEPT !.ack = IF @ = "none" THEN "dispatched" ELSE @])

\* Without it, a different one is an error.
AckUnknown ==
    \E here \in {"unknownAck", "unsentAck"} :
      IF calls[at].ack = "dispatched"
      THEN Decides(here, Failed)
      ELSE Writes(here, IF here = "unsentAck" THEN "idle" ELSE "resolve",
                  [calls[at] EXCEPT !.ack = "unknown"])

\* What an unknown dispatch comes to: the provider's answer, a later run_next
\* with the same idempotency key, or a pause.
Resolve ==
    \/ Queried("resolve", "answered")
    \/ capable.query /\ Decides("resolve", Failed)
    \/ capable.idempotent /\ Decides("resolve", "idle")
    \/ ~capable.idempotent /\ Decides("resolve", "ambiguous")

\* AMBIGUOUS_PAUSE is what an administrator's decision is about.
RecordAmbiguous == Writes("ambiguous", "pause", [calls[at] EXCEPT !.ambiguous = TRUE])

Pause ==
    /\ At("pause", "idle")
    /\ status' = "PAUSED"
    /\ UNCHANGED <<group, iteration, charged, applied, calls>>
    /\ Stays
    /\ Elsewhere

(***************************************************************************)
(* _record_response and _settle_call_usage                                 *)
(***************************************************************************)
RecordResult ==
    /\ response # "invalid"
    /\ At("record", "settle")
    /\ calls' = [calls EXCEPT ![at].result = response]
    /\ fresh' = TRUE
    /\ UNCHANGED <<at, path, response, runVars>>
    /\ Elsewhere

ReceiptRefused == response = "invalid" /\ Decides("record", "dispute")

\* An error of settlement is a usage dispute for a result just recorded.
Refused(here) == Decides(here, IF fresh THEN "dispute" ELSE Failed)

Settled == calls[at].result = "unbilled" \/ calls[at].bound

NothingToSettle == Settled /\ Decides("settle", "next")

RecordUsage ==
    /\ ~Settled
    /\ IF iteration = "open"
       THEN Writes("settle", "commit", [calls[at] EXCEPT !.usage = TRUE])
       ELSE Refused("settle")

\* commit_budget repeats a commit it finds, and refuses one beyond what is
\* left of the reservation.
Commit ==
    IF calls[at].result = "overrun" \/ calls[at].reservation = "released"
    THEN Refused("commit")
    ELSE Writes("commit", "release",
                [calls[at] EXCEPT !.reservation = IF @ = "held" THEN "committed" ELSE @])

Release == Writes("release", "bind", [calls[at] EXCEPT !.reservation = "closed"])

\* Mutant: the binding is taken for granted.
BindForgotten == Decides("bind", "next")

\* record_usage_binding.
Bind == Writes("bind", "next", [calls[at] EXCEPT !.bound = TRUE])

\* A usage dispute closes the group as paused and then pauses the run;
\* _continue_existing lets it out of run_next.
DisputeGroup ==
    /\ path = "group"
    /\ At("dispute", "pause")
    /\ group' = "paused"
    /\ UNCHANGED <<status, iteration, charged, applied, calls>>
    /\ Stays
    /\ Elsewhere

DisputeRaised == path = "existing" /\ Decides("dispute", "idle")

MoreCalls == at < NumCalls

\* The public artifact of a deliberation call has to be there; after the last
\* call the group is finished.
NextCall ==
    LET usable == NumCalls = 1 \/ calls[at].result \in Good IN
    \/ /\ path = "group" /\ usable
       /\ MoreCalls
       /\ At("next", "call")
       /\ at' = at + 1
       /\ UNCHANGED <<path, fresh, response, runVars, calls>>
       /\ Elsewhere
    \/ path = "group" /\ usable /\ ~MoreCalls /\ Decides("next", "finish")
    \/ path = "group" /\ ~usable /\ Decides("next", "abort")
    \/ path = "existing" /\ Decides("next", "finish")

(***************************************************************************)
(* _finish_success                                                         *)
(***************************************************************************)

\* A step that writes to the iteration.
Closes(here, next, to, charge, apply) ==
    /\ At(here, next)
    /\ iteration' = to
    /\ charged' = charge
    /\ applied' = apply
    /\ UNCHANGED <<status, group, calls>>
    /\ Stays
    /\ Elsewhere

\* An adjudication cannot be completed without its other results.
Completes == calls[at].result \in Good /\ (path = "group" \/ NumCalls = 1)

FinishRefused == ~Completes /\ Decides("finish", "abort")

ChargeIteration ==
    /\ Completes
    /\ Closes("finish", "apply", iteration, charged \/ iteration = "open", applied)

\* The change set of an earlier try is found again; a new one needs the
\* iteration open, and the graph may refuse it.
ApplyChangeSet ==
    \/ (applied \/ iteration = "open") /\ Closes("apply", "complete", iteration, charged, TRUE)
    \/ ~applied /\ Decides("apply", Failed)

FinishIteration ==
    Closes("complete", "outcome", IF iteration = "open" THEN "completed" ELSE iteration,
           charged, applied)

\* The terminal call's outcome; _continue_existing ends with it.  An outcome
\* that says otherwise is an error, and so is a run that does not verify then.
RecordOutcome ==
    \/ calls[at].outcome = "aborted" /\ Decides("outcome", Failed)
    \/ /\ calls[at].outcome # "aborted"
       /\ \E next \in {IF path = "group" THEN "outcomes" ELSE "idle", Failed} :
            Writes("outcome", next, [calls[at] EXCEPT !.outcome = "completed"])

Finalize(here, to) ==
    /\ At(here, "idle")
    /\ group' = to
    /\ UNCHANGED <<status, iteration, charged, applied, calls>>
    /\ Stays
    /\ Elsewhere

\* The rows of cs get the outcome they do not have, in order.
RecordNext(here, cs, to) ==
    \E c \in cs :
      /\ calls[c].outcome = "none"
      /\ \A d \in cs : d < c => calls[d].outcome = to
      /\ At(here, here)
      /\ calls' = [calls EXCEPT ![c].outcome = to]
      /\ UNCHANGED runVars
      /\ Stays
      /\ Elsewhere

\* Every row of cs has the outcome.
Recorded(cs, to) == \A c \in cs : calls[c].outcome = to

\* A row that has another outcome, or the same for another reason, is an error
\* that run_next lets out.
OutcomeRefused(here, cs) ==
    /\ \E c \in cs : calls[c].outcome # "none"
    /\ Decides(here, "idle")

\* The other calls' outcomes, and the group is completed.
CompleteGroup ==
    \/ RecordNext("outcomes", Calls, "completed")
    \/ Recorded(Calls, "completed") /\ Finalize("outcomes", "completed")
    \/ OutcomeRefused("outcomes", Calls \ {at})

(***************************************************************************)
(* _finish_aborted                                                         *)
(***************************************************************************)

\* The calls it closes: those of the open group, or the one at hand.
Bindings == IF group = "open" THEN {c \in Calls : calls[c].intent} ELSE {at}

\* Mutant: a call that was settled is all whose reservation is released.
HoldingCommitted == {c \in Bindings : calls[c].reservation = "committed"}

Holding == {c \in Bindings : calls[c].reservation \in {"held", "committed"}}

AbortRelease ==
    /\ iteration = "open"
    /\ \E c \in Holding :
         /\ \A d \in Holding : c <= d
         /\ At("abort", "abort")
         /\ calls' = [calls EXCEPT ![c].reservation =
                        IF @ = "committed" THEN "closed" ELSE "released"]
    /\ UNCHANGED runVars
    /\ Stays
    /\ Elsewhere

AbortCharge ==
    /\ iteration = "open"
    /\ Holding = {}
    /\ Closes("abort", "abortFinish", iteration, TRUE, applied)

AbortFinish == Closes("abortFinish", "aborted", "aborted", charged, applied)

\* An earlier try closed the iteration, as completed it may be.
AbortAgain == iteration # "open" /\ Decides("abort", "aborted")

AbortGroup ==
    \/ RecordNext("aborted", Bindings, "aborted")
    \/ Recorded(Bindings, "aborted") /\ path = "group" /\ Finalize("aborted", "aborted")
    \/ Recorded(Bindings, "aborted") /\ path = "existing" /\ Decides("aborted", "idle")
    \/ OutcomeRefused("aborted", Bindings)

(***************************************************************************)
(* Crashes and the administrator                                           *)
(***************************************************************************)
Paying == {"settle", "commit", "release", "bind"}
Caught == {"call", "intent", "dispatch", "recover", "failed", "answered", "ack", "unknown",
           "unsent", "unknownAck", "unsentAck", "resolve", "ambiguous", "pause", "record",
           "finish", "apply", "complete", "outcome"}

Crash ==
    /\ pc # "idle"
    /\ crashes < MaxCrashes
    /\ crashes' = crashes + 1
    /\ pc' = "idle"
    /\ UNCHANGED <<runVars, calls, provider, capable, procVars, sends>>

\* A write fails in the store, and the error is caught where a MaxControlError
\* is: by the settlement of a fresh result, and by the group while it is open.
StoreFails ==
    /\ path = "group" /\ group = "open"
    /\ crashes < MaxCrashes
    /\ crashes' = crashes + 1
    /\ \/ pc \in Paying /\ pc' = IF fresh THEN "dispute" ELSE "abort"
       \/ pc \in Caught /\ pc' = "abort"
    /\ UNCHANGED <<runVars, calls, provider, capable, procVars, sends>>

\* resume, and the lease handed to the runner again.
Resume ==
    /\ status = "PAUSED"
    /\ status' = "RUNNING"
    /\ UNCHANGED <<group, iteration, charged, applied, calls, pc>>
    /\ Stays
    /\ Elsewhere

\* consume_admin_decision: once per call, of a paused run, about a recorded
\* ambiguity.
Decide(c, d) ==
    /\ status = "PAUSED"
    /\ calls[c].ambiguous
    /\ calls[c].decision = "none"
    /\ d = "accept" => calls[c].result # "none"
    /\ calls' = [calls EXCEPT ![c].decision = d]
    /\ UNCHANGED <<runVars, pc>>
    /\ Stays
    /\ Elsewhere

(***************************************************************************)
(* The specification                                                       *)
(***************************************************************************)
GroupStep ==
    \/ EnterGroup \/ EnterExisting \/ Existing
    \/ CallStored \/ CallPending \/ Reserve \/ CallRefused \/ RecordIntent

DispatchStep ==
    \/ Dispatch \/ Recover \/ Resolve
    \/ Answered \/ SentUnknown \/ NotSent \/ AdapterFails \/ CrashSending
    \/ AttemptFailed \/ AttemptDispatched \/ AttemptUnknown \/ AckDispatched \/ AckUnknown
    \/ RecordAmbiguous \/ Pause

SettleStep ==
    \/ RecordResult \/ ReceiptRefused \/ NothingToSettle \/ RecordUsage
    \/ Commit \/ Release \/ Bind \/ DisputeGroup \/ DisputeRaised \/ NextCall

FinishStep ==
    \/ FinishRefused \/ ChargeIteration \/ ApplyChangeSet \/ FinishIteration
    \/ RecordOutcome \/ CompleteGroup
    \/ AbortRelease \/ AbortCharge \/ AbortFinish \/ AbortAgain \/ AbortGroup

AdminStep ==
    \/ Resume
    \/ \E c \in Calls, d \in {"retry", "abort", "accept"} : Decide(c, d)

Next ==
    GroupStep \/ DispatchStep \/ SettleStep \/ FinishStep \/ AdminStep \/ Crash \/ StoreFails

Spec == Init /\ [][Next]_vars

(***************************************************************************)
(* Properties                                                              *)
(***************************************************************************)

\* A provider that does not know idempotency keys executes a call again only
\* on an administrator's explicit retry, wherever the process crashed.
NoUnauthorisedRepeat ==
    \A c \in Calls :
        ~capable.idempotent /\ provider[c].executed > 1 => calls[c].decision = "retry"

\* A call that completed an iteration has its usage recorded, bound to its
\* result, and its reservation closed.
CompletedCallIsSettled ==
    /\ TypeOK
    /\ \A c \in Calls :
        calls[c].outcome = "completed" =>
            calls[c].usage /\ calls[c].bound /\ calls[c].reservation = "closed"

\* A closed group leaves no recorded call behind, whatever crashes and errors
\* came between the steps that closed it: its iteration is closed and charged,
\* every call recorded has the group's outcome and nothing reserved, and a
\* completed group has made all its calls and has its change set in the graph.
ClosedGroupIsClean ==
    group \in {"completed", "aborted"} =>
        /\ iteration # "open"
        /\ charged
        /\ \A c \in Calls :
             calls[c].intent =>
                 calls[c].outcome = group /\ calls[c].reservation \notin {"held", "committed"}
        /\ group = "completed" => applied /\ \A c \in Calls : calls[c].intent

\* A call whose change set reached the graph is not aborted when it is replayed:
\* the comment at runner.py:1130 says that recovery after the change set does not
\* abort an otherwise safe replay.
AbortAppliesNothing == group = "aborted" => iteration = "aborted" /\ ~applied

\* Every billable result is bound to one usage receipt by the time its call
\* has an outcome.
BillableIsBound ==
    \A c \in Calls :
        calls[c].outcome # "none" /\ calls[c].result \notin {"none", "unbilled"}
            => calls[c].bound

\* A call the administrator aborted does not pause the run again.
AbortDecisionIsFinal ==
    [][(status = "RUNNING" /\ status' = "PAUSED") => calls[at].decision # "abort"]_vars

=============================================================================
