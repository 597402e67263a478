------------------------------ MODULE MCRunner ------------------------------
(***************************************************************************)
(* RunnerCall, RunnerInvocation, AgentPortability and BudgetLedger side by *)
(* side: they see one run at different scales, and what the others do to   *)
(* it is in each, so that a behaviour is of one part alone.  The variables *)
(* of the others stay as they begin.                                       *)
(***************************************************************************)
EXTENDS RunnerCall, RunnerInvocation, AgentPortability, BudgetLedger, TLC

CONSTANTS p1, p2, p3, s1, s2

VARIABLE part

\* A limit that some bills reach, and iterations to spare.
MCLimits == ("tokens" :> 7) @@ ("iteration_count" :> 3)

\* Two backends of one model on one host, and calls of another model.
MCModelOf == [b \in Backends |-> "m1"]

\* Two processes of one runner session and one of another.
MCProcs == {p1, p2, p3}
MCSessions == {s1, s2}
MCSessionOf == [p \in MCProcs |-> IF p = p3 THEN s2 ELSE s1]

\* Providers that leave the runner one way to recover: none at all, a key, or a
\* key and a query.
MCCapabilities == {[query |-> FALSE, idempotent |-> FALSE],
                   [query |-> FALSE, idempotent |-> TRUE],
                   [query |-> TRUE, idempotent |-> TRUE]}

ASSUME PartsAssumption ==
    /\ ProcsAssumption /\ TimesAssumption /\ InvocationBoundsAssumption
    /\ PortabilityAssumption
    /\ CallsAssumption /\ ResponsesAssumption /\ CapabilitiesAssumption /\ CallBoundsAssumption
    /\ BudgetAssumption

runnerVars == <<part, vars, invocationVars, portabilityVars, ledgerVars>>

RunnerInit ==
    /\ part \in {"call", "invocation", "portability", "ledger"}
    /\ Init /\ (part # "call" => ~capable.query /\ ~capable.idempotent)
    /\ InvocationInit /\ (part # "invocation" => lease.owner = s1)
    /\ PortabilityInit /\ (part # "portability" => ~fixture)
    /\ LedgerInit

InvocationAlone == UNCHANGED <<part, vars, portabilityVars, ledgerVars>>

RunnerNext ==
    \/ part = "call" /\ Next /\ UNCHANGED <<part, invocationVars, portabilityVars, ledgerVars>>
    \/ part = "invocation" /\ InvocationNext /\ InvocationAlone
    \/ part = "portability" /\ PortabilityNext
         /\ UNCHANGED <<part, vars, invocationVars, ledgerVars>>
    \/ part = "ledger" /\ LedgerNext /\ UNCHANGED <<part, vars, invocationVars, portabilityVars>>

\* The fairness of RunnerInvocation, of a step that leaves the others alone.
RunnerFairness ==
    /\ WF_runnerVars(part = "invocation" /\ Tick /\ InvocationAlone)
    /\ \A p \in MCProcs :
         /\ WF_runnerVars(part = "invocation" /\ RenewLease(p) /\ InvocationAlone)
         /\ WF_runnerVars(part = "invocation" /\ (ClaimInvocation(p) \/ ClaimRefused(p))
                            /\ InvocationAlone)

RunnerSpec == RunnerInit /\ [][RunnerNext]_runnerVars /\ RunnerFairness
=============================================================================
