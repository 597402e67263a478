------------------------------- MODULE LongRun -------------------------------
(***************************************************************************)
(* The long-run authority of one run: the window an administrator opens,   *)
(* the commands that close and reopen it, its successors, the one-time     *)
(* permit of each iteration, the source packet read under it, and the      *)
(* integrated executor that takes one iteration from permit to settlement  *)
(* in a chain of separate transactions.  The single-iteration approval of  *)
(* the same run is here too, since the two are meant to exclude each       *)
(* other.                                                                  *)
(*                                                                         *)
(* Every method is one control_transaction and so one step; a refused call *)
(* is no step.  That `now` is read before the wait for the write lock (see *)
(* RunControl) would only move instants: no property here is about one.    *)
(* The run stays RUNNING (RunControl has its transitions) and is never     *)
(* renamed to other profiles, so that binding comparisons are between      *)
(* sessions, fencing tokens, states and iteration numbers.  What happens   *)
(* inside one iteration is RunnerCall and ProviderDispatch.                *)
(***************************************************************************)
EXTENDS Naturals, Sequences, FiniteSets, FiniteSetsExt

CONSTANTS
    Sessions,       \* sessions of the worker
    NoOne,          \* the lease was never taken
    Caps,           \* cost caps an administrator may give a window
    IdleCap,        \* max_no_progress_iterations
    PacketCap,      \* max_packets of the source-egress policy
    Commands,       \* the control commands given
    Members,        \* member_count of the physical authorization bundle
    CallsPerIteration,
    MaxIterations,  \* max_iterations of every window
    LeaseTtl, WindowTtl, PermitTtl, ApprovalTtl,
    MaxTime,        \* bound on the clock
    MaxTakes,       \* bound on fencing tokens
    MaxWindows,     \* bound on windows
    MaxCommands     \* bound on an administrator's commands

ASSUME SessionsAssumption == NoOne \notin Sessions
ASSUME CommandsAssumption ==
    Commands \subseteq {"pause", "resume", "drain", "stop", "revoke", "expire"}
ASSUME LongRunBoundsAssumption ==
    /\ Caps \subseteq Nat
    /\ {PacketCap, Members, MaxTakes, MaxCommands} \subseteq Nat
    /\ {IdleCap, CallsPerIteration, MaxIterations, LeaseTtl, WindowTtl, PermitTtl,
        ApprovalTtl, MaxTime, MaxWindows} \subseteq Nat \ {0}

VARIABLES
    clock,      \* the wall clock
    lease,      \* max_leases
    run,        \* max_runs.current_state_hash and the iteration that is open, 0 if none
    iterations, \* max_iterations with their outcomes
    windows,    \* max_long_run_windows with max_long_run_window_current
    permits,    \* max_long_run_iteration_permits, with the consumption of each
    packets,    \* max_source_packet_receipts, with the consumption of each
    settled,    \* max_long_run_usage
    approvals,  \* max_live_iteration_approvals, with the consumption of each
    used,       \* next_ordinal of the bundle
    worker,     \* what the executor of a session is doing
    commands    \* how many commands the administrator gave

authorityVars == <<windows, permits, packets, settled>>
runnerVars == <<run, iterations, used>>
vars == <<clock, lease, runnerVars, authorityVars, approvals, worker, commands>>

WindowStates == {"active", "paused", "draining", "stopped", "revoked", "expired",
                 "exhausted", "failed", "superseded"}
Places == {"idle", "minted", "consumed", "issued", "ready", "running", "done"}
Idle == [at |-> "idle", window |-> 0, permit |-> 0]
NoApproval == [state |-> "none", hash |-> 0, session |-> NoOne, token |-> 0, expires |-> 0]
Numbers == 1..MaxIterations

TypeOK ==
    /\ clock \in 1..MaxTime
    /\ lease \in [session : Sessions \cup {NoOne}, token : 0..MaxTakes, expires : Nat]
    /\ run \in [hash : Nat, open : 0..Len(iterations)]
    /\ \A n \in DOMAIN iterations :
         iterations[n] \in [in : Nat, out : Nat, state : {"open", "completed", "failed"},
                            calls : 0..CallsPerIteration]
    /\ Len(windows) <= MaxWindows
    /\ \A w \in DOMAIN windows :
         /\ windows[w] \in [state : WindowStates, session : Sessions, token : 1..MaxTakes,
                            expires : Nat, cap : Caps, pool : BOOLEAN, hash : Nat,
                            next : 1..(MaxIterations + 1), permit : 0..MaxIterations,
                            consumed : BOOLEAN, cost : Nat, idle : 0..IdleCap]
         /\ windows[w].cost <= windows[w].cap
         /\ windows[w].permit \in {0, windows[w].next}
         /\ windows[w].consumed => windows[w].permit # 0 /\ permits[windows[w].permit].consumed
    /\ DOMAIN permits \subseteq Numbers
    /\ \A n \in DOMAIN permits :
         permits[n] \in [window : DOMAIN windows, session : Sessions, token : 1..MaxTakes,
                         hash : Nat, expires : Nat, consumed : BOOLEAN]
    /\ packets \in [DOMAIN permits -> {"none", "issued", "consumed"}]
    /\ DOMAIN settled \subseteq DOMAIN permits
    /\ \A n \in DOMAIN settled : settled[n] \in [in : Nat, out : Nat, cost : Nat]
    /\ \A n \in DOMAIN approvals :
         approvals[n] \in [state : {"none", "issued", "consumed"}, hash : Nat,
                           session : Sessions \cup {NoOne}, token : 0..MaxTakes, expires : Nat]
    /\ used \in 0..Members
    /\ worker \in [Sessions -> [at : Places, window : 0..MaxWindows, permit : 0..MaxIterations]]
    /\ commands \in 0..MaxCommands

Init ==
    /\ clock = 1
    /\ lease = [session |-> NoOne, token |-> 0, expires |-> 0]
    /\ run = [hash |-> 1, open |-> 0]
    /\ iterations = <<>>
    /\ windows = <<>>
    /\ permits = <<>>
    /\ packets = <<>>
    /\ settled = <<>>
    /\ approvals = [n \in Numbers |-> NoApproval]
    /\ used = 0
    /\ worker = [s \in Sessions |-> Idle]
    /\ commands = 0

Tick ==
    /\ clock < MaxTime
    /\ clock' = clock + 1
    /\ UNCHANGED <<lease, runnerVars, authorityVars, approvals, worker, commands>>

(***************************************************************************)
(* The lease (RunControl), as far as the window's fence needs it           *)
(***************************************************************************)
Held(s, token) == lease.session = s /\ lease.token = token /\ clock < lease.expires

TakeLease(s) ==
    /\ clock >= lease.expires
    /\ lease.token < MaxTakes
    /\ lease' = [session |-> s, token |-> lease.token + 1, expires |-> clock + LeaseTtl]
    /\ UNCHANGED <<clock, runnerVars, authorityVars, approvals, worker, commands>>

(***************************************************************************)
(* Windows                                                                 *)
(***************************************************************************)
\* A lease with its handoff, unexpired; the checkpoint is the run's state (RunControl).
Context == lease.session # NoOne /\ clock < lease.expires

NewWindow(cap) ==
    [state |-> "active", session |-> lease.session, token |-> lease.token,
     expires |-> clock + WindowTtl, cap |-> cap, pool |-> FALSE, hash |-> run.hash,
     next |-> 1, permit |-> 0, consumed |-> FALSE, cost |-> 0, idle |-> 0]

Authorize(cap) ==
    /\ Context
    /\ windows = <<>>
    /\ windows' = <<NewWindow(cap)>>
    /\ UNCHANGED <<clock, lease, runnerVars, permits, packets, settled, approvals, worker, commands>>

BindPool(w) ==
    /\ windows[w].permit = 0
    /\ used < Members
    /\ windows' = [windows EXCEPT ![w].pool = TRUE]
    /\ UNCHANGED <<clock, lease, runnerVars, permits, packets, settled, approvals, worker, commands>>

\* Mutant: the command leaves the pending permit alone.
ForgottenKeeping(window, state) == [window EXCEPT !.state = state]

\* _projection, called without a permit, forgets the one that was pending.
Forgotten(window, state) == [window EXCEPT !.state = state, !.permit = 0, !.consumed = FALSE]

\* None but resume and expire looks at the state it finds.
Accepted(window, command) ==
    /\ command = "resume" => window.state \in {"paused", "draining"}
    /\ command = "expire" => clock >= window.expires

Target == [pause |-> "paused", resume |-> "active", drain |-> "draining", stop |-> "stopped",
           revoke |-> "revoked", expire |-> "expired"]

Control(w, command) ==
    /\ commands < MaxCommands
    /\ Accepted(windows[w], command)
    /\ windows' = [windows EXCEPT ![w] = Forgotten(@, Target[command])]
    /\ commands' = commands + 1
    /\ UNCHANGED <<clock, lease, runnerVars, permits, packets, settled, approvals, worker>>

\* Mutant: the successor starts with its caps unspent.
CarriedAfresh(prior, cap) ==
    [NewWindow(cap) EXCEPT !.hash = prior.hash, !.next = prior.next]

\* What the successor takes over: the usage, the numbering, and the state last settled.
Carried(prior, cap) ==
    [NewWindow(cap) EXCEPT !.hash = prior.hash, !.next = prior.next,
                                !.cost = prior.cost, !.idle = prior.idle]

Renew(w, cap) ==
    /\ Len(windows) < MaxWindows
    /\ Context
    /\ windows[w].state \notin {"revoked", "superseded"}
    /\ windows[w].permit = 0
    /\ windows[w].cost <= cap
    /\ windows' = Append([windows EXCEPT ![w] = Forgotten(@, "superseded")],
                         Carried(windows[w], cap))
    /\ UNCHANGED <<clock, lease, runnerVars, permits, packets, settled, approvals, worker, commands>>

(***************************************************************************)
(* The server's round plan: what comes after the rounds settled so far     *)
(***************************************************************************)
Cycle == <<"exploration", "source_retrieval", "evidence_comparison", "socratic">>

\* The rounds of one window, which began with the iteration `first`: a kind it has not
\* had was last at number zero, whatever the windows before it did.
Since(rounds, first, kind) ==
    (first + Len(rounds)) - Max({0} \cup {first + i - 1 : i \in {j \in DOMAIN rounds : rounds[j] = kind}})
Count(rounds, kind) == Cardinality({i \in DOMAIN rounds : rounds[i] = kind})

\* Mutant: the tie of two due branches goes to one of them.
NextRoundByRank(rounds, first, every) ==
    LET n == first + Len(rounds)
    IN  IF n > 1 /\ n % every.rehydration = 0 THEN "rehydration"
        ELSE IF Since(rounds, first, "attack") >= every.attack THEN "attack"
        ELSE IF Since(rounds, first, "adjudication") >= every.adjudication THEN "adjudication"
        ELSE Cycle[((n - 1) % 4) + 1]

NextRound(rounds, first, every) ==
    LET n == first + Len(rounds)
        attackDue == Since(rounds, first, "attack") >= every.attack
        adjudicationDue == Since(rounds, first, "adjudication") >= every.adjudication
        attackBehind == Count(rounds, "attack") <= Count(rounds, "adjudication")
    IN  IF n > 1 /\ n % every.rehydration = 0 THEN "rehydration"
        ELSE IF attackDue /\ (~adjudicationDue \/ attackBehind) THEN "attack"
        ELSE IF adjudicationDue THEN "adjudication"
        ELSE Cycle[((n - 1) % 4) + 1]

Planned(first, every, length) ==
    LET plan[n \in 0..length] ==
          IF n = 0 THEN <<>>
          ELSE LET before == plan[n - 1]
               IN  Append(before, NextRound(before, first, every))
    IN  plan[length]

(***************************************************************************)
(* The permit of one iteration                                             *)
(***************************************************************************)
Exhausted(cap, cost, idle) == (cap > 0 /\ cost >= cap) \/ idle >= IdleCap

\* _check_active
Open(window) ==
    /\ window.state = "active"
    /\ clock < window.expires
    /\ window.next <= MaxIterations
    /\ ~Exhausted(window.cap, window.cost, window.idle)

\* An approval of the same number, consumed or still good, excludes a permit.
Approved(n) ==
    \/ approvals[n].state = "consumed"
    \/ approvals[n].state = "issued" /\ clock < approvals[n].expires

\* An insert under a number that has no row yet.
Filed(rows, n, row) == [m \in DOMAIN rows \cup {n} |-> IF m = n THEN row ELSE rows[m]]

\* A run has one permit of each number for ever, whichever window it was minted in.
Mint(s, w) ==
    LET window == windows[w]
        n == window.next
    IN  /\ worker[s].at = "idle"
        /\ Open(window)
        /\ window.permit = 0
        /\ window.session = s
        /\ ~Approved(n)
        /\ n \notin DOMAIN permits
        /\ permits' = Filed(permits, n, [window |-> w, session |-> s, token |-> window.token,
                                         hash |-> window.hash, expires |-> clock + PermitTtl,
                                         consumed |-> FALSE])
        /\ packets' = Filed(packets, n, "none")
        /\ windows' = [windows EXCEPT ![w].permit = n]
        /\ worker' = [worker EXCEPT ![s] = [at |-> "minted", window |-> w, permit |-> n]]
        /\ UNCHANGED <<clock, lease, runnerVars, settled, approvals, commands>>

\* The executor's step from one place to the next.
Goes(s, from, to) ==
    /\ worker[s].at = from
    /\ worker' = [worker EXCEPT ![s].at = to]

Consume(s) ==
    LET w == worker[s].window
        n == worker[s].permit
    IN  /\ Goes(s, "minted", "consumed")
        /\ Open(windows[w])
        /\ windows[w].permit = n
        /\ clock < permits[n].expires
        /\ permits' = [permits EXCEPT ![n].consumed = TRUE]
        /\ windows' = [windows EXCEPT ![w].consumed = TRUE]
        /\ UNCHANGED <<clock, lease, runnerVars, packets, settled, approvals, commands>>

\* The window still waits for exactly this consumption.
Pending(w, n) == windows[w].permit = n /\ windows[w].consumed

(***************************************************************************)
(* The source packet read under the permit                                 *)
(***************************************************************************)
Issued == {n \in DOMAIN packets : packets[n] # "none"}

IssuePacket(s) ==
    LET w == worker[s].window
        n == worker[s].permit
    IN  /\ Goes(s, "consumed", "issued")
        /\ windows[w].state = "active"
        /\ Pending(w, n)
        /\ clock < permits[n].expires
        /\ Cardinality(Issued) < PacketCap
        /\ packets' = [packets EXCEPT ![n] = "issued"]
        /\ UNCHANGED <<clock, lease, runnerVars, windows, permits, settled, approvals, commands>>

ConsumeReceipt(s) ==
    LET w == worker[s].window
        n == worker[s].permit
    IN  /\ Goes(s, "issued", "ready")
        /\ windows[w].state = "active"
        /\ Pending(w, n)
        /\ packets' = [packets EXCEPT ![n] = "consumed"]
        /\ UNCHANGED <<clock, lease, runnerVars, windows, permits, settled, approvals, commands>>

(***************************************************************************)
(* The bounded runner's iteration: it is not told about the window         *)
(***************************************************************************)
\* The plan must have the number and the input the permit was minted for.
Begin(s) ==
    LET n == worker[s].permit
    IN  /\ Goes(s, "ready", "running")
        /\ Held(s, permits[n].token)
        /\ run.open = 0
        /\ Len(iterations) + 1 = n
        /\ run.hash = permits[n].hash
        /\ iterations' = Append(iterations, [in |-> run.hash, out |-> 0, state |-> "open",
                                             calls |-> 0])
        /\ run' = [run EXCEPT !.open = n]
        /\ UNCHANGED <<clock, lease, used, authorityVars, approvals, commands>>

\* One call of the group takes one member of the bundle bound to the window.
Call(s) ==
    LET n == worker[s].permit
    IN  /\ worker[s].at = "running"
        /\ Held(s, permits[n].token)
        /\ windows[worker[s].window].pool
        /\ used < Members
        /\ iterations[n].calls < CallsPerIteration
        /\ iterations' = [iterations EXCEPT ![n].calls = @ + 1]
        /\ used' = used + 1
        /\ UNCHANGED <<clock, lease, run, authorityVars, approvals, worker, commands>>

\* The iteration may find nothing new: its output state is then its input.
Finish(s, hash) ==
    LET n == worker[s].permit
    IN  /\ Goes(s, "running", "done")
        /\ Held(s, permits[n].token)
        /\ iterations[n].calls > 0
        /\ hash \in {run.hash, run.hash + 1}
        /\ iterations' = [iterations EXCEPT ![n].out = hash, ![n].state = "completed"]
        /\ run' = [hash |-> hash, open |-> 0]
        /\ UNCHANGED <<clock, lease, used, authorityVars, approvals, commands>>

(***************************************************************************)
(* Settlement                                                              *)
(***************************************************************************)
\* The evidence the repository has of the iteration the permit was for.
Evidence(n) ==
    /\ iterations[n].state = "completed"
    /\ iterations[n].in = permits[n].hash
    /\ iterations[n].out = run.hash
    /\ packets[n] = "consumed"

\* assert_delta
Within(window, calls) == window.cost + calls <= window.cap

\* The window's state is not read: it is what the usage makes of it.
Settled(window, n) ==
    LET cost == window.cost + iterations[n].calls
        idle == window.idle + IF iterations[n].out = permits[n].hash THEN 1 ELSE 0
        over == n = MaxIterations \/ Exhausted(window.cap, cost, idle)
    IN  [window EXCEPT !.state = IF idle >= IdleCap THEN "failed"
                                 ELSE IF over THEN "exhausted" ELSE "active",
                       !.hash = run.hash, !.next = n + 1, !.permit = 0, !.consumed = FALSE,
                       !.cost = cost, !.idle = idle]

\* Neither the lease nor the permit's expiry is looked at; an iteration that cost more
\* than the cap leaves is refused, and its permit stays pending.
Settle(s) ==
    LET w == worker[s].window
        n == worker[s].permit
    IN  /\ worker[s].at = "done"
        /\ worker' = [worker EXCEPT ![s] = Idle]
        /\ Pending(w, n)
        /\ windows[w].pool
        /\ permits[n].hash = windows[w].hash
        /\ n \notin DOMAIN settled
        /\ Evidence(n)
        /\ Within(windows[w], iterations[n].calls)
        /\ settled' = Filed(settled, n, [in |-> permits[n].hash, out |-> run.hash,
                                         cost |-> iterations[n].calls])
        /\ windows' = [windows EXCEPT ![w] = Settled(@, n)]
        /\ UNCHANGED <<clock, lease, runnerVars, permits, packets, approvals, commands>>

\* A refused step or a crash ends the tick; nothing takes it up again, and the runner's
\* recovery closes the iteration it had open.
Throw(s) ==
    /\ worker[s].at # "idle"
    /\ worker' = [worker EXCEPT ![s] = Idle]
    /\ IF worker[s].at = "running"
       THEN /\ iterations' = [iterations EXCEPT ![worker[s].permit].state = "failed"]
            /\ run' = [run EXCEPT !.open = 0]
       ELSE UNCHANGED <<iterations, run>>
    /\ UNCHANGED <<clock, lease, used, authorityVars, approvals, commands>>

(***************************************************************************)
(* The approval of one live iteration, the other authority over the run    *)
(***************************************************************************)
NextNumber == Len(iterations) + 1

\* An open permit of the same number is not looked for.
ApproveLive ==
    /\ Context
    /\ used < Members
    /\ run.open = 0
    /\ NextNumber \in Numbers
    /\ ~Approved(NextNumber)
    /\ approvals' = [approvals EXCEPT ![NextNumber] =
         [state |-> "issued", hash |-> run.hash, session |-> lease.session,
          token |-> lease.token, expires |-> clock + ApprovalTtl]]
    /\ UNCHANGED <<clock, lease, runnerVars, authorityVars, worker, commands>>

\* The lease's owner and token are compared, its expiry is not.
ConsumeApproval(s, n) ==
    /\ approvals[n].state = "issued"
    /\ approvals[n].session = s
    /\ lease.session = s /\ lease.token = approvals[n].token
    /\ clock < approvals[n].expires
    /\ approvals[n].hash = run.hash
    /\ n = NextNumber
    /\ approvals' = [approvals EXCEPT ![n].state = "consumed"]
    /\ UNCHANGED <<clock, lease, runnerVars, authorityVars, worker, commands>>

\* The live runner's whole iteration under a consumed approval, with one call.
LiveIteration(s, n) ==
    /\ approvals[n].state = "consumed"
    /\ n = NextNumber
    /\ run.open = 0
    /\ Held(s, approvals[n].token)
    /\ used < Members
    /\ used' = used + 1
    /\ iterations' = Append(iterations, [in |-> run.hash, out |-> run.hash + 1,
                                         state |-> "completed", calls |-> 1])
    /\ run' = [run EXCEPT !.hash = @ + 1]
    /\ UNCHANGED <<clock, lease, authorityVars, approvals, worker, commands>>

(***************************************************************************)
(* Specification                                                           *)
(***************************************************************************)
Executor(s) ==
    \/ \E w \in DOMAIN windows : Mint(s, w)
    \/ Consume(s)
    \/ IssuePacket(s)
    \/ ConsumeReceipt(s)
    \/ Begin(s)
    \/ Call(s)
    \/ \E hash \in {run.hash, run.hash + 1} : Finish(s, hash)
    \/ Settle(s)
    \/ Throw(s)

Admin ==
    \/ \E cap \in Caps : Authorize(cap)
    \/ \E w \in DOMAIN windows :
         \/ BindPool(w)
         \/ \E command \in Commands : Control(w, command)
         \/ \E cap \in Caps : Renew(w, cap)
    \/ ApproveLive

LiveRunner(s) == \E n \in Numbers : ConsumeApproval(s, n) \/ LiveIteration(s, n)

Next ==
    \/ Tick
    \/ Admin
    \/ \E s \in Sessions : TakeLease(s) \/ Executor(s) \/ LiveRunner(s)

Spec == Init /\ [][Next]_vars

(***************************************************************************)
(* Properties                                                              *)
(***************************************************************************)
\* The settled iterations of the run are one chain of states whatever windows they were
\* settled in: each began where the one before ended, and every window waits at the end
\* of what it and the windows before it settled.  The code compares a settlement with its
\* window only; a renewal copies the window's state and not the run's.
ChainUnbroken ==
    /\ \A n \in DOMAIN settled \ {1} :
         n - 1 \in DOMAIN settled /\ settled[n - 1].out = settled[n].in
    /\ \A w \in DOMAIN windows :
         windows[w].next - 1 \in DOMAIN settled
           => settled[windows[w].next - 1].out = windows[w].hash

\* What the first iterations of a run cost, one after the other.
Costs == [n \in Numbers |-> IF n \in DOMAIN settled THEN settled[n].cost ELSE 0]

Spent(costs) ==
    LET spent[n \in 0..MaxIterations] == IF n = 0 THEN 0 ELSE spent[n - 1] + costs[n]
    IN  spent

\* No renewal, revival or control command loses or repeats usage: what a window has used
\* is what all the iterations before its next one cost, in whichever window.
UsageIsCarried ==
    \A w \in DOMAIN windows :
      LET last == windows[w].next - 1
      IN  /\ windows[w].cost = Spent(Costs)[last]
          /\ windows[w].idle = Cardinality({n \in 1..last : n \in DOMAIN settled
                                              /\ settled[n].in = settled[n].out})

\* At most one permit of a run is without its settlement, the last one: numbers are never
\* skipped, and what the run may have spent unrecorded is one iteration.
OneUnsettled ==
    \A n \in DOMAIN permits : \A m \in 1..(n - 1) : m \in DOMAIN settled

\* The three together, with the types: the windows of a run, however they were opened
\* and closed, account for one chain of iterations that cost what is recorded.
WindowsAccount == TypeOK /\ ChainUnbroken /\ UsageIsCarried /\ OneUnsettled

\* An iteration is settled only in a window that nobody has closed since its permit was
\* consumed, though settlement sets the window's state without reading it.
SettledInOpenWindow ==
    [][\A n \in DOMAIN settled' \ DOMAIN settled :
         windows[permits[n].window].state = "active"]_vars

\* Whether a branch never stays away for more than three rounds over its frequency.
Recurs(plan, kind, frequency) ==
    \A i \in 1..(Len(plan) - frequency - 2) :
      \E j \in i..(i + frequency + 2) : plan[j] = kind

RecursFrom ==
    [first \in 1..(MaxIterations + 1) |->
      \A every \in [rehydration : 3..5, attack : 1..3, adjudication : 1..3] :
        LET plan == Planned(first, every, 18)
        IN  /\ Recurs(plan, "attack", every.attack)
            /\ Recurs(plan, "adjudication", every.adjudication)]

\* Wherever a window's numbering begins, the planner comes back to both quality branches
\* for as long as it runs: the tie of two due branches starves neither, and rehydration
\* at every third round or less often only delays them.
RoundsRecur == \A w \in DOMAIN windows : RecursFrom[windows[w].next]
=============================================================================
