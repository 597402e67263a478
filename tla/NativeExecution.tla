--------------------------- MODULE NativeExecution ---------------------------
(***************************************************************************)
(* The execution of a prepared call, along two paths that share one        *)
(* dispatch slot, one runner result and one handoff.  The hermetic path    *)
(* (preparation_execution.py) turns an approval of the preview into a JIT  *)
(* authority, which any process may execute.  The live path                *)
(* (native_live.py) turns an approval of the waiting handoff into a window *)
(* that may be renewed while nothing was done, an authorisation of the     *)
(* window, and one execution, which consumes both.  An executor moves one  *)
(* transaction at a time and may crash between two; any step of it may be  *)
(* refused or fail.                                                        *)
(***************************************************************************)
EXTENDS Preparation

CONSTANTS
    Hermetic,       \* the processes that execute the hermetic authority
    Live,           \* the process that executes the live one
    ApprovalTtl, WindowTtl,
    MaxWindows      \* bound on the renewals

ASSUME ExecutorsAssumption == Live \notin Hermetic
ASSUME WindowsAssumption == {ApprovalTtl, WindowTtl, MaxWindows} \subseteq Nat \ {0}

VARIABLES
    human1,         \* max_live_canary_native_approvals, one
    human2,         \* max_live_canary_native_approvals_v2, one
    window,         \* ..._native_execution_preview_current and its authorization
    jit,            \* the authority of a path, its last event but "closed"
    slot,           \* the dispatch attempt and its permit
    record,         \* max_provider_call_records
    runner,         \* the result, reservation and iteration of the call
    exec,           \* by process
    sent            \* by process: requests on the wire

humanVars == <<human1, human2, window>>
callVars == <<slot, record, runner>>
nativeVars == <<humanVars, jit, callVars, exec, sent>>
vars == <<prepVars, nativeVars>>

Executors == Hermetic \cup {Live}
Path(e) == IF e = Live THEN "live" ELSE "hermetic"

PreSend == "known_pre_send_failure"
Unknown == "unknown_after_send"
Answers == {"succeeded", "failed"}
Verdicts == Answers \cup {PreSend, Unknown}
Places == {"idle", "checked", "consumed", "begun", "granted", "slotted", "authorised",
           "started", "armed", "answered", "recorded", "stored", "aborting", "doubting",
           "concluding", "cleaning"}

TypeOK ==
    /\ PrepTypeOK
    /\ human1 \in [of : {0} \cup Contents, expires : Nat, revoked : BOOLEAN, used : BOOLEAN]
    /\ human2 \in [given : BOOLEAN, expires : Nat, used : BOOLEAN]
    /\ window \in [gen : 0..MaxWindows, expires : Nat, authorised : BOOLEAN]
    /\ jit \in [{"hermetic", "live"} -> [state : {"none", "ready", "send_started"} \cup Verdicts,
                                         closed : BOOLEAN, token : 0..MaxToken]]
    /\ slot \in [state : {"none", "prepared", "send_started", "unknown", "succeeded",
                          "failed", "cancelled"},
                 by : Executors, granted : BOOLEAN]
    /\ record \in {"none"} \cup Answers
    /\ runner \in [result : {"none", "not_sent"} \cup Answers,
                   reservation : {"held", "released", "spent"},
                   iteration : {"open", "completed", "aborted"}]
    /\ exec \in [Executors -> [pc : Places, verdict : {"none"} \cup Verdicts, token : 0..MaxToken]]
    /\ sent \in [Executors -> 0..2]

Resting == [pc |-> "idle", verdict |-> "none", token |-> 0]

\* The worker has just handed the prepared call over.
HandedOver ==
    /\ now = 1 /\ running = TRUE /\ content = 1
    /\ lease = [token |-> 1, expires |-> 0]
    /\ claims = [t \in 1..MaxToken |-> 0]
    /\ snapshot = [c \in Contents |-> IF c = 1 THEN "active" ELSE "none"]
    /\ preview = {1}
    /\ request = [c \in Contents |-> IF c = 1 THEN 1 + RequestTtl ELSE 0]
    /\ attempt = "none" /\ resolver = "idle"
    /\ receipt = [c \in Contents |-> "none"]
    /\ handoff = [state |-> Waiting, of |-> 1, token |-> 1]

NothingExecuted ==
    /\ human1 = [of |-> 0, expires |-> 0, revoked |-> FALSE, used |-> FALSE]
    /\ human2 = [given |-> FALSE, expires |-> 0, used |-> FALSE]
    /\ window = [gen |-> 0, expires |-> 0, authorised |-> FALSE]
    /\ jit = [p \in {"hermetic", "live"} |-> [state |-> "none", closed |-> FALSE, token |-> 0]]
    /\ slot = [state |-> "none", by |-> Live, granted |-> FALSE]
    /\ record = "none"
    /\ runner = [result |-> "none", reservation |-> "held", iteration |-> "open"]
    /\ exec = [e \in Executors |-> Resting]
    /\ sent = [e \in Executors |-> 0]

Init == HandedOver /\ NothingExecuted

\* What a handoff and a lookup take for a call that was touched: approvals
\* and a live authority are not among it.
Begun == slot.state # "none" \/ jit["hermetic"].state # "none" \/ runner.result # "none"
Touched == slot.state # "none" \/ jit["hermetic"].state # "none" \/ human1.of # 0

(***************************************************************************)
(* Approvals of people                                                     *)
(***************************************************************************)
\* create_approval, of a preview whose lookup passed; one per preview.
Approve(c) ==
    /\ Usable(c) /\ c \in preview
    /\ receipt[c] = "passed"
    /\ human1.of = 0
    /\ human1' = [human1 EXCEPT !.of = c, !.expires = now + ApprovalTtl]
    /\ UNCHANGED <<prepVars, human2, window, jit, callVars, exec, sent>>

Revoke ==
    /\ human1.of # 0 /\ ~human1.used /\ ~human1.revoked
    /\ human1' = [human1 EXCEPT !.revoked = TRUE]
    /\ UNCHANGED <<prepVars, human2, window, jit, callVars, exec, sent>>

\* _load_chain of a handoff that waits; the snapshot is asked for its state and
\* not for what it binds.
Chain ==
    /\ handoff.state = Waiting /\ snapshot[handoff.of] = "active"
    /\ Looked /\ receipt[handoff.of] = "none"
    /\ slot.state = "none" /\ record = "none"
    /\ human1.of = 0 /\ jit["hermetic"].state = "none"
    /\ ~Alive(lease.expires)

\* create_approval_preview: the approval's life begins when it is shown.
ShowApproval ==
    /\ human2.expires = 0
    /\ Chain
    /\ human2' = [human2 EXCEPT !.expires = now + ApprovalTtl]
    /\ UNCHANGED <<prepVars, human1, window, jit, callVars, exec, sent>>

\* authorize: the same chain once more.
ApproveLive ==
    /\ Alive(human2.expires) /\ ~human2.given
    /\ Chain
    /\ human2' = [human2 EXCEPT !.given = TRUE]
    /\ UNCHANGED <<prepVars, human1, window, jit, callVars, exec, sent>>

Approved == human2.given /\ Alive(human2.expires) /\ ~human2.used

\* _renewal_block_reason: nothing was done with the window that expired.
Untouched ==
    /\ jit["live"].state = "none"
    /\ lease.expires = 0
    /\ \A t \in DOMAIN claims : claims[t] = 0
    /\ ~slot.granted /\ slot.state = "none" /\ record = "none"

\* create_execution_preview: a window that is open is shown again.
OpenWindow ==
    /\ Approved /\ Looked
    /\ window.gen < MaxWindows
    /\ window.gen > 0 => ~Alive(window.expires) /\ Untouched
    /\ window' = [gen |-> window.gen + 1, authorised |-> FALSE,
                  expires |-> IF human2.expires < now + WindowTtl
                              THEN human2.expires ELSE now + WindowTtl]
    /\ UNCHANGED <<prepVars, human1, human2, jit, callVars, exec, sent>>

AuthoriseWindow ==
    /\ Approved
    /\ Alive(window.expires) /\ ~window.authorised
    /\ window' = [window EXCEPT !.authorised = TRUE]
    /\ UNCHANGED <<prepVars, human1, human2, jit, callVars, exec, sent>>

\* _create_jit: the approval is used up, and the handoff is executed under a
\* fresh lease and claim.
CreateJit ==
    /\ human1.of # 0 /\ Alive(human1.expires) /\ ~human1.revoked /\ ~human1.used
    /\ Bound(human1.of) /\ receipt[human1.of] = "passed"
    /\ jit["hermetic"].state = "none"
    /\ ~Alive(claims[lease.token])
    /\ Acquired
    /\ handoff.of = human1.of
    /\ Executing(lease.token + 1)
    /\ human1' = [human1 EXCEPT !.used = TRUE]
    /\ jit' = [jit EXCEPT !["hermetic"] = [state |-> "ready", closed |-> FALSE,
                                           token |-> lease.token + 1]]
    /\ UNCHANGED <<now, running, content, reviewVars, dnsVars, human2, window, callVars,
                   exec, sent>>

(***************************************************************************)
(* The steps of an executor                                                *)
(***************************************************************************)
At(e, places) == exec[e].pc \in places
Goes(e, pc) == exec' = [exec EXCEPT ![e].pc = pc]
Decides(e, pc, verdict) == exec' = [exec EXCEPT ![e].pc = pc, ![e].verdict = verdict]
MayWrite(e) == Fenced(exec[e].token)

\* preparation_execution.execute: only an authority that nobody used is
\* executed, and a refusal is handled like a failure before the request.
Begin(e) ==
    /\ e \in Hermetic /\ At(e, {"idle"})
    /\ jit["hermetic"].state # "none"
    /\ exec' = [exec EXCEPT ![e] =
           [pc |-> IF jit["hermetic"].state = "ready" /\ ~jit["hermetic"].closed /\ Bound(human1.of)
                   THEN "begun" ELSE "aborting",
            verdict |-> "none", token |-> jit["hermetic"].token]]
    /\ UNCHANGED <<prepVars, humanVars, jit, callVars, sent>>

Ready == Approved /\ Alive(window.expires) /\ window.authorised /\ Looked

\* preflight_execution and the context of the preparation.
Check ==
    /\ At(Live, {"idle"})
    /\ Ready /\ Bound(handoff.of)
    /\ Goes(Live, "checked")
    /\ UNCHANGED <<prepVars, humanVars, jit, callVars, sent>>

\* consume_execution checks all but the binding once more.
Consume ==
    /\ At(Live, {"checked"})
    /\ Ready
    /\ human2' = [human2 EXCEPT !.used = TRUE]
    /\ Goes(Live, "consumed")
    /\ UNCHANGED <<prepVars, human1, window, jit, callVars, sent>>

\* acquire_lease and claim_invocation.
Lease ==
    /\ At(Live, {"consumed"})
    /\ Acquired
    /\ exec' = [exec EXCEPT ![Live].pc = "begun", ![Live].token = lease.token + 1]
    /\ UNCHANGED <<now, running, content, reviewVars, dnsVars, handoff, humanVars, jit,
                   callVars, sent>>

\* The source permit, the grant with its consumption, the network authorisation.
Grant(e) ==
    /\ At(e, {"begun"})
    /\ slot' = [slot EXCEPT !.granted = TRUE]
    /\ Goes(e, "granted")
    /\ UNCHANGED <<prepVars, humanVars, jit, record, runner, sent>>

\* Mutant: a dispatch that is there already is prepared again.
PrepareAgain(e) ==
    /\ At(e, {"granted"})
    /\ running /\ MayWrite(e)
    /\ slot' = [slot EXCEPT !.state = "prepared", !.by = e]
    /\ Goes(e, "slotted")
    /\ UNCHANGED <<prepVars, humanVars, jit, record, runner, sent>>

\* prepare_live_dispatch: one attempt of a call.
Prepare(e) ==
    /\ At(e, {"granted"})
    /\ running /\ MayWrite(e)
    /\ slot.state = "none"
    /\ slot' = [slot EXCEPT !.state = "prepared", !.by = e]
    /\ Goes(e, "slotted")
    /\ UNCHANGED <<prepVars, humanVars, jit, record, runner, sent>>

\* create_jit_authority of the live path, when everything else is there.
Authorise ==
    /\ At(Live, {"slotted"})
    /\ jit' = [jit EXCEPT !["live"] = [state |-> "ready", closed |-> FALSE,
                                       token |-> exec[Live].token]]
    /\ Goes(Live, "authorised")
    /\ UNCHANGED <<prepVars, humanVars, callVars, sent>>

\* start_live_dispatch.
Start(e) ==
    /\ At(e, IF e = Live THEN {"authorised"} ELSE {"slotted"})
    /\ MayWrite(e)
    /\ slot.state = "prepared" /\ slot.by = e
    /\ slot' = [slot EXCEPT !.state = "send_started"]
    /\ Goes(e, "started")
    /\ UNCHANGED <<prepVars, humanVars, jit, record, runner, sent>>

\* The last event before the request.  The live path remembers the request
\* before it writes the event, which may fail.
Arm(e) ==
    LET p == Path(e) IN
    /\ At(e, {"started"})
    /\ jit[p].state \in {"ready", "send_started"} /\ ~jit[p].closed
    /\ jit' = [jit EXCEPT ![p].state = "send_started"]
    /\ Goes(e, "armed")
    /\ UNCHANGED <<prepVars, humanVars, callVars, sent>>

Send(e, answer) ==
    /\ At(e, {"armed"})
    /\ sent' = [sent EXCEPT ![e] = @ + 1]
    /\ IF answer = Unknown THEN Decides(e, "doubting", Unknown) ELSE Decides(e, "answered", answer)
    /\ UNCHANGED <<prepVars, humanVars, jit, callVars>>

\* Mutant: the hermetic path concludes without the runner.
RecordOnly(e) ==
    /\ At(e, {"answered"})
    /\ MayWrite(e) /\ record = "none"
    /\ slot.by = e /\ slot.state \in {"prepared", "send_started", "unknown"}
    /\ record' = exec[e].verdict
    /\ slot' = [slot EXCEPT !.state = exec[e].verdict]
    /\ Goes(e, IF e \in Hermetic THEN "concluding" ELSE "recorded")
    /\ UNCHANGED <<prepVars, humanVars, jit, runner, sent>>

\* record_provider_call with what it does to the attempt; a call has one record.
Record(e) ==
    /\ At(e, {"answered"})
    /\ MayWrite(e) /\ record = "none"
    /\ slot.by = e /\ slot.state \in {"prepared", "send_started", "unknown"}
    /\ record' = exec[e].verdict
    /\ slot' = [slot EXCEPT !.state = exec[e].verdict]
    /\ Goes(e, IF e \in Hermetic /\ exec[e].verdict = "failed" THEN "concluding" ELSE "recorded")
    /\ UNCHANGED <<prepVars, humanVars, jit, runner, sent>>

\* record_result, and the release of the reservation it precedes.
StoreResult(e) ==
    /\ At(e, {"recorded"})
    /\ MayWrite(e) /\ runner.result = "none"
    /\ runner' = [runner EXCEPT !.result = exec[e].verdict, !.reservation = "released"]
    /\ Goes(e, "stored")
    /\ UNCHANGED <<prepVars, humanVars, jit, slot, record, sent>>

Finished(verdict) == IF verdict = "succeeded" THEN "completed" ELSE "aborted"

\* The usage, the iteration's outcome and the group's.
CloseRunner(e) ==
    /\ At(e, {"stored"})
    /\ running /\ MayWrite(e) /\ runner.iteration = "open"
    /\ runner' = [runner EXCEPT !.iteration = Finished(exec[e].verdict),
                                !.reservation = IF exec[e].verdict = "succeeded" THEN "spent" ELSE @]
    /\ Goes(e, "concluding")
    /\ UNCHANGED <<prepVars, humanVars, jit, slot, record, sent>>

(***************************************************************************)
(* What fails                                                              *)
(***************************************************************************)
\* Any refusal or failure of a step before the request, or after it.
Fault(e) ==
    /\ \/ /\ At(e, {"begun", "consumed", "granted", "slotted", "authorised", "started"})
          /\ Goes(e, "aborting")
       \/ At(e, {"armed", "answered", "recorded", "stored"}) /\ Goes(e, "doubting")
    /\ UNCHANGED <<prepVars, humanVars, jit, callVars, sent>>

\* The event of the request is refused, and the request is remembered.
ArmFails ==
    /\ At(Live, {"started"})
    /\ Goes(Live, "doubting")
    /\ UNCHANGED <<prepVars, humanVars, jit, callVars, sent>>

\* abort_pre_send: it looks at the result and at no attempt.
Aborted ==
    runner' = IF runner.result # "succeeded"
              THEN [result |-> IF runner.result = "none" THEN "not_sent" ELSE runner.result,
                    reservation |-> "released", iteration |-> "aborted"]
              ELSE runner

\* _close_pre_send_permissions and abort_pre_send, each of which may be refused.
Abort(e) ==
    /\ At(e, {"aborting"})
    /\ slot' = [slot EXCEPT !.state = IF slot.by = e /\ @ \in {"prepared", "send_started"} /\ MayWrite(e)
                                      THEN "cancelled" ELSE @]
    /\ IF running /\ MayWrite(e) /\ runner.iteration = "open" THEN Aborted ELSE UNCHANGED runner
    /\ Decides(e, "concluding", PreSend)
    /\ UNCHANGED <<prepVars, humanVars, jit, record, sent>>

\* The call is in doubt, if the attempt is not over.
Doubt(e) ==
    /\ At(e, {"doubting"})
    /\ IF slot.by = e /\ slot.state \in {"prepared", "send_started"} /\ MayWrite(e)
         THEN slot' = [slot EXCEPT !.state = "unknown"] ELSE UNCHANGED slot
    /\ Decides(e, "concluding", Unknown)
    /\ UNCHANGED <<prepVars, humanVars, jit, record, runner, sent>>

(***************************************************************************)
(* The end                                                                 *)
(***************************************************************************)
\* Which verdict may follow the events so far.
MayFollow(p, verdict) ==
    /\ ~jit[p].closed
    /\ \/ jit[p].state = "ready" /\ verdict = PreSend
       \/ jit[p].state = "send_started" /\ (p = "hermetic" \/ verdict # PreSend)

\* The terminal event and "closed"; an authority that is not there or that
\* refuses ends the execution.
Conclude(e) ==
    LET p == Path(e) IN
    /\ At(e, {"concluding"})
    /\ IF MayFollow(p, exec[e].verdict)
         THEN /\ jit' = [jit EXCEPT ![p].state = exec[e].verdict, ![p].closed = TRUE]
              /\ Goes(e, "cleaning")
         ELSE /\ UNCHANGED jit
              /\ IF p = "live" /\ jit[p].state = "none" THEN Goes(e, "cleaning")
                                                      ELSE exec' = [exec EXCEPT ![e] = Resting]
    /\ UNCHANGED <<prepVars, humanVars, callVars, sent>>

\* The claim, the lease, and the handoff of an authority.
Clean(e) ==
    /\ At(e, {"cleaning"})
    /\ Released(exec[e].token)
    /\ IF jit[Path(e)].closed
         THEN Concluded(CASE exec[e].verdict = "succeeded" -> "SUCCEEDED"
                          [] exec[e].verdict = Unknown -> "UNKNOWN"
                          [] OTHER -> "FAILED")
         ELSE UNCHANGED handoff
    /\ exec' = [exec EXCEPT ![e] = Resting]
    /\ UNCHANGED <<now, running, content, reviewVars, dnsVars, humanVars, jit, callVars, sent>>

\* Nothing comes back for it but another execution.
Crash(e) ==
    /\ ~At(e, {"idle"})
    /\ exec' = [exec EXCEPT ![e] = Resting]
    /\ UNCHANGED <<prepVars, humanVars, jit, callVars, sent>>

------------------------------------------------------------------------------
\* What the preparation still does for a call that was handed over.
Prepares ==
    /\ \/ Tick \/ Change \/ Pause \/ Resume \/ Invalidate(1) \/ IssueJit(1)
       \/ RecordReceipt(1, "passed")
       \/ BeginAttempt(Touched) \/ ResolverLost \/ RecoverUnknown
       \/ \E result \in {"passed", "failed", "unknown"} : ResolverReturns(result)
       \/ CloseWaiting(Begun)
    /\ UNCHANGED nativeVars

Executes(e) ==
    \/ Begin(e) \/ Grant(e) \/ Prepare(e) \/ Start(e) \/ Arm(e)
    \/ \E answer \in Answers \cup {Unknown} : Send(e, answer)
    \/ Record(e) \/ StoreResult(e) \/ CloseRunner(e)
    \/ Fault(e) \/ Abort(e) \/ Doubt(e) \/ Conclude(e) \/ Clean(e) \/ Crash(e)

Next ==
    \/ Prepares
    \/ Approve(1)
    \/ Revoke \/ ShowApproval \/ ApproveLive \/ OpenWindow \/ AuthoriseWindow \/ CreateJit
    \/ Check \/ Consume \/ Lease \/ Authorise \/ ArmFails
    \/ \E e \in Executors : Executes(e)

Spec == Init /\ [][Next]_vars

(***************************************************************************)
(* Properties                                                              *)
(***************************************************************************)
\* One call, one request: along either path, by whichever process, after
\* whatever crash.
NeverTwice ==
    \A e \in Executors : sent[e] <= 1 /\ \A f \in Executors \ {e} : sent[e] + sent[f] <= 1

\* The runner of a call that only the live path touched never has a request on
\* the wire as "not_sent", whatever failed when.
LiveSendIsKept ==
    sent[Live] > 0 /\ jit["hermetic"].state = "none" => runner.result # "not_sent"

\* An authority that closes with the provider's success leaves the result, the
\* budget, and the iteration of the call settled for good.
CommittedIsSettled ==
    \A p \in DOMAIN jit :
        jit[p].state = "succeeded" =>
            record = "succeeded" /\ runner = [result |-> "succeeded", reservation |-> "spent",
                                              iteration |-> "completed"]

\* "After a successful or authoritative provider result, the service closes the
\* runner result, ... JIT authority, handoff, lease, and invocation claim"
\* (docs/max-research-mr-convergence-dev19.md): the live path, once it gave its
\* claim back.
HandoffFollows ==
    /\ jit["live"].closed /\ jit["live"].state \in Answers
    /\ claims[jit["live"].token] = 0
    => handoff.state # Waiting

\* "Atomically close runner state when durable evidence proves no send."
SentIsNeverPreSend == (\E e \in Executors : sent[e] > 0) => runner.result # "not_sent"
==============================================================================
