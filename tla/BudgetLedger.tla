---------------------------- MODULE BudgetLedger ----------------------------
(***************************************************************************)
(* The budget ledger of one run with its amounts: what a call reserves,    *)
(* what its provider bills, how the runner and the native bridge settle    *)
(* it, and the charge of its iteration.  An iteration makes one call; what *)
(* is sent and how often is RunnerCall's, and so is what becomes of a run  *)
(* that is paused.  Every write is one control_transaction and one step;   *)
(* the process may crash between any two and then begins again.            *)
(***************************************************************************)
EXTENDS Integers, Sequences

CONSTANTS
    Limits,         \* the Charter's limits of Units
    CallBudget,     \* what the profile reserves for a call
    Bills,          \* what a provider bills; 0 is a failure without a receipt
    MaxIterations,
    MaxFailures

ASSUME BudgetAssumption ==
    /\ DOMAIN Limits = {"tokens", "iteration_count"}
    /\ \A u \in DOMAIN Limits : Limits[u] \in Nat
    /\ CallBudget \in Nat \ {0} /\ Bills \subseteq Nat
    /\ {MaxIterations, MaxFailures} \subseteq Nat

VARIABLES
    running,        \* max_runs.status
    ledger,         \* max_budget_ledger by sequence_no
    opened,         \* max_iterations: how many there are
    open,           \* whether the last one has no outcome
    recorded,       \* iterations whose call has a recorded result
    bill,           \* what its receipt says
    bound,          \* iterations whose call has its max_runner_usage_bindings
    step, settler,  \* the process, and whose settlement the call gets
    new,            \* whether the process recorded the result itself
    failures

budgetVars == <<opened, open, recorded, bill, bound, settler, new, failures>>
ledgerVars == <<running, ledger, step, budgetVars>>

Units == DOMAIN Limits
Operations == {"reserve", "commit", "release", "usage"}

(***************************************************************************)
(* The ledger                                                              *)
(***************************************************************************)

\* The sum of a sequence of numbers.
Total(amounts) ==
    LET total[n \in 0..Len(amounts)] == IF n = 0 THEN 0 ELSE total[n - 1] + amounts[n]
    IN  total[Len(amounts)]

\* What the entries of some operations in a unit add up to, in some iterations.
Sum(entries, operations, unit, iterations) ==
    Total([k \in 1..Len(entries) |->
             IF /\ entries[k].operation \in operations /\ entries[k].unit = unit
                /\ entries[k].iteration \in iterations
             THEN entries[k].amount ELSE 0])

\* A commit moves what is reserved to what is used, and usage is counted beside it.
Used(entries, unit) == Sum(entries, {"commit", "usage"}, unit, 1..MaxIterations)

Reserved(entries, unit) ==
    Sum(entries, {"reserve"}, unit, 1..MaxIterations)
      - Sum(entries, {"commit", "release"}, unit, 1..MaxIterations)

\* One entry in the reconstruction of the balance.
Fits(entries, e) ==
    LET used == Used(entries, e.unit)
        reserved == Reserved(entries, e.unit)
    IN /\ e.operation \in {"reserve", "usage"} => used + reserved + e.amount <= Limits[e.unit]
       /\ e.operation \in {"commit", "release"} => e.amount <= reserved
       /\ e.operation = "commit" => used + e.amount <= Limits[e.unit]

Reconstructs(entries) ==
    \A k \in 1..Len(entries) : Fits(SubSeq(entries, 1, k - 1), entries[k])

Available(unit) == Limits[unit] - Used(ledger, unit) - Reserved(ledger, unit)

\* The amounts of an operation in an iteration.
Amount(operation, unit, i) == Sum(ledger, {operation}, unit, {i})

\* What is left of the reservation of an iteration's call.
Remaining(i) ==
    Amount("reserve", "tokens", i) - Amount("commit", "tokens", i) - Amount("release", "tokens", i)

\* Mutant: no entry is found under its idempotency key.
NeverPosted(operation, unit) == FALSE

\* There is an entry under the idempotency key, which names operation and call
\* or iteration.
Posted(operation, unit) ==
    \E k \in DOMAIN ledger : /\ ledger[k].operation = operation /\ ledger[k].unit = unit
                             /\ ledger[k].iteration = opened

Entry(operation, unit, amount) ==
    [operation |-> operation, unit |-> unit, amount |-> amount, iteration |-> opened]

\* _budget_write takes an entry whose operation stays within its reservation
\* and after which the ledger still reconstructs.
Takes(entry) ==
    /\ entry.operation \in {"commit", "release"} => entry.amount <= Remaining(opened)
    /\ Reconstructs(Append(ledger, entry))

\* A write goes on at next, or where the caller goes that is refused.
Write(entry, next, refused) ==
    IF Posted(entry.operation, entry.unit) THEN ledger' = ledger /\ next
    ELSE IF Takes(entry) THEN ledger' = Append(ledger, entry) /\ next
    ELSE ledger' = ledger /\ refused

(***************************************************************************)
(* The process                                                             *)
(***************************************************************************)
LedgerTypeOK ==
    /\ running \in {"RUNNING", "PAUSED"} /\ open \in BOOLEAN
    /\ ledger \in Seq([operation : Operations, unit : Units, amount : Nat,
                       iteration : 1..MaxIterations])
    /\ opened \in 0..MaxIterations
    /\ recorded \subseteq 1..opened /\ bill \in [1..MaxIterations -> Bills \cup {0}]
    /\ bound \subseteq recorded
    /\ step \in {"idle", "reserve", "send", "usage", "commit", "release", "bind", "abort",
              "charge", "finish"}
    /\ settler \in {"runner", "native"} /\ new \in BOOLEAN /\ failures \in 0..MaxFailures

LedgerInit ==
    /\ running = "RUNNING" /\ ledger = <<>> /\ opened = 0 /\ open = FALSE
    /\ recorded = {} /\ bill = [i \in 1..MaxIterations |-> 0] /\ bound = {}
    /\ step = "idle" /\ settler = "runner" /\ new = FALSE /\ failures = 0

Goes(next) == step' = next /\ running' = running

\* A plan and its iteration, as long as there is a unit of anything left.  The
\* call is the runner's or the bridge's.
Begin(whose) ==
    /\ step = "idle" /\ running = "RUNNING" /\ ~open /\ opened < MaxIterations
    /\ \E u \in Units : Available(u) >= 1
    /\ opened' = opened + 1 /\ open' = TRUE /\ settler' = whose
    /\ new' = FALSE
    /\ Goes("reserve")
    /\ UNCHANGED <<ledger, recorded, bill, bound, failures>>

\* Where the settlement of a call begins.
SettlesFirst == IF settler = "runner" THEN "usage" ELSE "release"

\* The work is taken up where the store says it is.
TakeUp ==
    /\ step = "idle" /\ running = "RUNNING" /\ open
    /\ Goes(IF opened \notin recorded THEN "reserve"
            ELSE IF opened \in bound \/ bill[opened] = 0 THEN "abort" ELSE SettlesFirst)
    /\ new' = FALSE
    /\ UNCHANGED <<ledger, opened, open, recorded, bill, bound, settler, failures>>

\* The runner aborts a call that the budget is too low for; the bridge's
\* caller gets an error.
ReserveCall ==
    /\ step = "reserve"
    /\ LET refused == Goes(IF settler = "runner" THEN "abort" ELSE "idle") IN
       IF Posted("reserve", "tokens") \/ Available("tokens") >= CallBudget
       THEN Write(Entry("reserve", "tokens", CallBudget), Goes("send"), refused)
       ELSE ledger' = ledger /\ refused
    /\ UNCHANGED budgetVars

\* The call is made and its result recorded.
Send(amount) ==
    /\ step = "send"
    /\ recorded' = recorded \cup {opened}
    /\ bill' = [bill EXCEPT ![opened] = amount]
    /\ new' = TRUE
    /\ Goes(IF amount = 0 THEN "abort" ELSE SettlesFirst)
    /\ UNCHANGED <<ledger, opened, open, bound, settler, failures>>

\* A bill that cannot be settled is disputed and the run paused, if its result
\* was just recorded; found in the store it is an error, and the call aborted.
\* The bridge lets the error out.
Disputed ==
    CASE settler = "native" -> Goes("idle")
      [] settler = "runner" /\ new -> step' = "idle" /\ running' = "PAUSED"
      [] settler = "runner" /\ ~new -> Goes("abort")

PostUsage ==
    /\ step = "usage"
    /\ Write(Entry("usage", "tokens", bill[opened]),
             Goes(IF settler = "runner" THEN "commit" ELSE "bind"), Disputed)
    /\ UNCHANGED budgetVars

CommitUsage ==
    /\ step = "commit"
    /\ Write(Entry("commit", "tokens", bill[opened]), Goes("release"), Disputed)
    /\ UNCHANGED budgetVars

\* The rest of the reservation: after the usage in the runner, before it in
\* the bridge.
ReleaseRest ==
    /\ step = "release"
    /\ Write(Entry("release", "tokens", Remaining(opened)),
             Goes(IF settler = "runner" THEN "bind" ELSE "usage"), Disputed)
    /\ UNCHANGED budgetVars

BindUsage ==
    /\ step = "bind"
    /\ bound' = bound \cup {opened}
    /\ Goes("charge")
    /\ UNCHANGED <<ledger, opened, open, recorded, bill, settler, new, failures>>

\* _finish_aborted, for a call that is settled, failed, or was not made.
Abort ==
    /\ step = "abort"
    /\ IF Posted("reserve", "tokens")
       THEN Write(Entry("release", "tokens", Remaining(opened)), Goes("charge"), Goes("idle"))
       ELSE ledger' = ledger /\ Goes("charge")
    /\ UNCHANGED budgetVars

Charge ==
    /\ step = "charge"
    /\ Write(Entry("usage", "iteration_count", 1), Goes("finish"), Goes("idle"))
    /\ UNCHANGED budgetVars

Finish ==
    /\ step = "finish"
    /\ open' = FALSE
    /\ Goes("idle")
    /\ UNCHANGED <<ledger, opened, recorded, bill, bound, settler, new, failures>>

ProcessDies ==
    /\ step # "idle" /\ failures < MaxFailures
    /\ failures' = failures + 1
    /\ Goes("idle")
    /\ UNCHANGED <<ledger, opened, open, recorded, bill, bound, settler, new>>

LedgerNext ==
    \/ \E whose \in {"runner", "native"} : Begin(whose)
    \/ TakeUp \/ ReserveCall \/ (\E amount \in Bills : Send(amount))
    \/ PostUsage \/ CommitUsage \/ ReleaseRest \/ BindUsage
    \/ Abort \/ Charge \/ Finish \/ ProcessDies

LedgerSpec == LedgerInit /\ [][LedgerNext]_ledgerVars

(***************************************************************************)
(* Properties                                                              *)
(***************************************************************************)

\* In an iteration that is over nothing is reserved and one iteration is
\* charged; a bill was counted as usage once or not at all, and is bound if and
\* only if it was settled to the end, however often that was begun again.
SettledOnce ==
    \A i \in 1..opened : (i < opened \/ ~open) =>
      /\ Remaining(i) = 0
      /\ Amount("usage", "iteration_count", i) = 1
      /\ Amount("usage", "tokens", i) \in {0, bill[i]}
      /\ i \in bound => Amount("usage", "tokens", i) = bill[i] /\ bill[i] > 0

\* What is bound was billed within the Charter's limit, whatever providers
\* bill and in whichever order it is settled.
BilledWithinLimit ==
    Total([i \in 1..MaxIterations |-> IF i \in bound THEN bill[i] ELSE 0]) <= Limits["tokens"]

\* Both, of a ledger that has its types.
BillsAreSettledOnce == LedgerTypeOK /\ SettledOnce /\ BilledWithinLimit

\* The runner's document: every billable result gets its usage entry.  One
\* that stays within its reservation is not disputed.
WithinReservationSettles ==
    running = "PAUSED" => bill[opened] > CallBudget
=============================================================================
