# Research KB: TLA+ models and proofs

This directory holds a TLA+ development of the Max Research control plane of
this repository: modules translated from the Python source, TLC configurations
that check them on small instances, and TLAPS proofs for every value of the
constants. `PROJECT.json` maps each definition to the lines it models, each
run to its properties, and each hazard to the properties aimed at it.

    tlc -config RunControl.cfg MCRunControl.tla          # a model-checking run
    tlapm RunControlProofs.tla                           # the proofs about RunControl

Paths below are relative to the repository root; `max_research/` stands for
`src/research_kb/max_research/`.

## 1. The system

Research KB is a local-first research store behind an MCP server, and on top
of it "Max Research": long research runs that a bounded runner advances one
iteration at a time, calling models through adapters, under the control of a
human administrator. Everything a run does is recorded in a SQLite control
database with append-only tables and a few mutable "current" rows. There are no
threads: concurrency is that of processes (several runners, the scheduler,
the worker, the administrator's CLI) that share the database. All of
them go through `control_transaction` (`BEGIN IMMEDIATE` ... commit, or
rollback on any exception), with a lock wait of `busy_timeout_ms`.

Three things make it hard:

  - **Time read before the lock.** Most methods compute `now` before they ask for
    the write lock and compare or write it after the wait. Leases, claims and
    handoffs all expire by such times.
  - **Work outside transactions.** `run_next` is dozens of transactions with a
    model call in between; a process may die between any two of them, and the next
    one has to find out from the rows what happened.
  - **Several projections of one fact.** Status and ledger; state, members and
    checkpoint; binding, handoff and packet; result, usage, reservation and
    outcome. Each is checked against the others by some reader, much later.

### Components

| Component | State | Operations | Talks to | What makes it correct |
|---|---|---|---|---|
| Run control plane (`persistence/repository.py`, `service.py`) | run row, transition ledger, approvals, lease, iterations, members, Research State, checkpoints | propose, approve, start, pause, resume, cancel, lease operations, begin/finish iteration, change sets, checkpoints, rehydration, completion | everyone calls it | one writer at a time; finished runs frozen; the tables agree; completion on a stable history |
| Budget ledger (same file) | reserve, commit, release, usage and refund entries | one method each, and reconstruction | runner, provider store | never negative, nothing counted twice, what is reserved is given back |
| Backend portability (`portability.py`) | profiles, binding, handoff, packets, acknowledgements | bind, preview, approve, acknowledge | reads the runner's tables; `resume` reads its packets | a backend changes only in quiescence and works only after its acknowledgement |
| Runner invocation (`runner/runner.py`, `persistence/runner.py`) | invocation claims | claim, release, around `run_next` | lease | one process works on a run; a crash does not wedge it |
| Runner call group (same files) | groups, intents, attempts, dispatch acks, results, bindings, outcomes, recovery decisions | reserve, dispatch, recover, settle, finish, abort, decide | adapter, budget ledger, iterations | no unasked repetition of a call; every result settled once; closed means closed everywhere |
| Deterministic planner (`runner/planner.py`) | none | next round from the history | runner | a function of the history |
| Runner adapters and codecs (`runner/adapter.py`) | none | dispatch, query_result | runner | reports what it does not know as `DispatchUnknown` |
| Research contract (`contract/`) | immutable values | validation, hashing, transition table, completion evaluator | everyone | rejects malformed values |
| Control database (`persistence/db.py`, `migrations.py`) | schema versions | open, migrate, verify | everyone | atomic migration |
| Provider grants and dispatch slots (`provider/store.py`) | grants, claims, physical attempts, attestations, live permits | issue, consume, claim, start, record, mark unknown | runner, scheduler | a slot is durable before a send; caps hold; settled replay does not send |
| Live provider and transport (`provider/live.py` ...) | none of its own | send, decode | provider store | no send without a permit |
| Foreground scheduler (`scheduler/service.py`) | policy, session, ticks, current pointer | tick, run_bounded | runner, provider store | one tick recorded per invocation; stops when its policy says so |
| Worker and acquisition (`scheduler/worker.py`, `acquisition.py`) | commands, heartbeats, acquisition requests, claims, stage receipts | issue/consume command, propose, decide, claim, stage | scheduler | each command consumed once, each stage after its validation |
| Long-run authorization (`long_run.py`) | window, usage, iteration permits | preview, authorize, mint, consume, settle, control | runner | usage within the window; a permit is used once |
| External agent protocol (`external_agent.py`) | sessions, work packets, claims, results | issue, claim, recover, release, submit | control plane | one claimant per packet, one result per claim |
| Live canary authority (`live_canary.py`, `lifetime_separation.py`, `dns_attempt.py`) | approvals, permits, outcomes | preview, authorize, prepare, mark, record, revoke | provider store | an approval is consumed once, an outcome is final |
| Native live execution and preparation (`native_live.py`, `preparation_*.py`, ...) | previews, approvals, JIT authorities, handoffs | chains of preview, authorize, consume | canary, runner | each link consumed once, in order |
| Convergence capsule (`convergence.py`) | capsule, its consumption and outcome | approve, claim, execute, close, recover | native execution | one owner; its outcome tells what the execution did |
| Core research service (`service.py`, `admin.py`) | notes, hypotheses, evidence, approvals, checkpoints | one per MCP tool | catalog | evidence verified before use, approvals decided once |
| Catalog and ingest (`catalog.py`, `ingest.py`, `acquisition.py`) | documents, versions, attempts | scan, ingest, fetch | files, network | what was proved of a document still holds of its version |
| Front ends (`cli.py`, `mcp_server.py`) | none | argument and tool schemas | services | |
| Auditors and reports (`doctor.py`, `writing_audit.py`, ...) | none | read-only checks | files | |

The interaction that carries the program is the one between the first five:
the lease of the control plane fences every write of the runner; processes of one
session share lease and token, so that the invocation claim keeps them apart;
a working process executes a call group; and a handoff of the backend reads
the runner's tables to decide whether anything is still open.

## 2. The plan

What was written, in this order, each on what came before it:

 1. `FencingLease`, `RunControl`, `RunControlProofs`: what everything else
    relies on.
 2. `BackendHandoff`, `AgentPortability`: the second protocol over the same run row.
 3. `RunnerInvocation`, `RunnerCall`, `BudgetLedger`: who may work, the work crash by
    crash, and its amounts.
 4. `ProviderDispatch`: `RunnerCall`'s provider, seen from the other side.
 5. `Scheduler`, `Worker`, `Acquisition`, `LongRun`: the loops and authorities above
    `run_next`; `Orchestration`, which puts the first three next to `BackendHandoff`.
 6. `Preparation`, `NativeExecution`, `Capsule`, `LiveCanary`: the chains of approvals
    and one-time consumptions by which one live call is made.
 7. `ExternalAgent`, `CoreService`, `ResearchContext`, `SchemaMigrations`: the services
    with stores or tables of their own.

Theorems come next to each of them, in a module of proofs that extends it: those of
section 5. No module declares a RECURSIVE
operator, so that all of them can be proved about. A module with its bounds on constants
in an ASSUME has them at hand in its proofs; some have them as a named definition, which
their theorems assume and the MC module has TLC evaluate.

**How the modules compose.** `Capsule` extends `NativeExecution`, which extends
`Preparation`: a call is prepared, then executed, by hand or by a capsule. `RunControl`
is refined to `FencingLease`, and so are the claims of `ExternalAgent`. The other modules meet in the database rows they share,
and each has in it what others may do to its rows (takeovers, pauses, versions that
move), no more constrained than they really do it. Specifications that put such modules
*side by side* (`MCRunner`, `Orchestration`, `MCServices`, `MCLiveCalls`) choose one part
in the initial state and keep to it: a behaviour is of one part alone, and the states
add up instead of multiplying. They extend the modules, whose variables stay as they
begin where another part is chosen, so that runs and theorems speak of the same
definitions. Names are therefore unique among the modules of a run: `schedulerClock`,
`workerClock` and `requestClock` are the same clock, read by different parts.

## 3. The modules and the code

Conventions common to all of them:

  - A repository or store method runs in one `control_transaction`, so a method is
    one step, and a call that raises is no step (it rolls back). The exception is
    where the caller goes on after the refusal, or after a failure of the database that
    it takes for one: there the refusal or failure is a step.
  - A method's `now` may be up to `LockWait` behind the clock (`Now` in
    `RunControl` and `BackendHandoff`, `Lag` in `RunnerInvocation`), except where the
    code reads the clock again under the lock, as `_assert_fence` and
    `_acquire_lease_connection` do.
  - Hashes of canonical states are numbers; only their equality is used.
  - Event rows and other rows nothing reads back for a decision are left out.
  - Variables marked *ghost* (`stamp`, `told`) record what a property needs
    to know of the past and are read by no action.
  - Definitions marked *Mutant* are plausible mistakes in the definition
    that follows them. No specification uses them; each property has one that
    breaks it, named in `PROJECT.json`.

### FencingLease

What a lease promises, with no clock and no operations: tokens grow, only the
newest can be written under, a lapsed grant may come back to its own holder.

### RunControl

One run, from `propose` (its initial state) to its end. `status`, `version` and
`ledger` are the run row and what a replay of `max_run_transition_results` gives;
`lease` is the row of `max_leases`; `graph`, `stateRow`, `runHash`, `checkpoint`
and `runCheckpoint` are the five places that say what the canonical state is;
`iteration` and `outcomes` are what change sets and completion read of the
iterations. Each action is a method of `MaxControlRepository` named after it.

Points where the code is not what one may expect, and the model follows the code:
`start` accepts a paused run (`StartPaused`) and takes no lease; `pause` and `cancel` write
`expires_at = now` with an old `now`; `_assert_fence` does not look at `released_at`
while `_acquire_lease_connection` does; `create_checkpoint` looks at no status;
`claim_runner_lease` renews by a stale `now`; a handoff of an expired lease takes two
tokens; `renew_lease` does not check the length asked for.

Not in it: amounts of the budget, source resolution, backup and restore, drift found
by rehydration (there is none to find, by `VerifyRunOK`), and what the completion
evaluator weighs beyond history and state: `PersistCompletion` may always be
refused. `append_canonical_object` and `append_canonical_relation` are
`ApplyChangeSet` behind a read.

### BackendHandoff

Binding, preview, approval, packet, acknowledgement and resume of one run, with
as much of the runner as quiescence looks at: the latest expiry among its invocation
claims (`busyUntil`) and whether calls are on record. `Latest` is `resume`'s
`ORDER BY created_at DESC, packet_id DESC`: among packets of one instant, any. The
lease is left out, since by the theorem `LiveOnlyWhileRunningHolds` it is free in a paused run.
`fixture` is the store's mark: in fixture stores `acknowledge_rehydration` does
not ask for the current handoff.

Not in it: profiles and results, which are `AgentPortability`'s, and the quiescence
inventory's other tables (provider, acquisition, long-run), which can only refuse more.

### RunnerInvocation

`run_next` of several processes: `RenewLease` is `claim_runner_lease`,
`ClaimInvocation` and `ReleaseInvocation` the store's methods, and the rest is what
may happen to the lease meanwhile. Instants are kept as *time left*, from `Ttl` down
to `-LockWait`, below which no stale `now` can tell the difference; so the
module needs no bound on the clock, and liveness can be checked. `latest` is the latest
row of the append-only claims table, the only one `claim_invocation` reads.

### RunnerCall

One call group in the hands of `run_next`, which may crash at every step and is
entered again through `current_group` or `latest_unfinished`. `pc` is the place in
the runner's code, `calls` what the store holds of each call, `provider` what
the outside world did. The places follow `_execute_group`, `_dispatch_or_recover`,
`_record_response`, `_settle_call_usage`, `_finish_success` and `_finish_aborted`; each
step is one transaction, or the adapter's call, or a decision between them. The
adapter's capabilities (`supports_result_query`, `supports_idempotency`) are part of
the initial state. `provider` is external: it is what the adapter protocol allows, an
execution that is answered, one that is not known, an exception before or after the send.

A process that lost its lease is refused every write, which the model has as a
crash; that one process works at a time is `RunnerInvocation`'s property. Before a call
is reserved its intent is built, and a recorded one is built again and compared, from
what the gateway and the graph say then; either may be refused at any entry, also
after an earlier entry reserved (`CallRefused`). `StoreFails` is a write that fails in the database:
the group's handler does not tell it from a refusal, and aborts.

Not in it: epistemic conflicts (they count across iterations), `abort_pre_send`, normalisation of
proposals, and budget amounts (`BudgetLedger`): a reservation is none, held,
committed, closed or released, and may be refused where it is made.

### AgentPortability

The rest of `MaxPortabilityService`: profiles and installations, what a handoff
leaves behind, and normalized results attributed to the runner's calls. States of the
run and its checkpoint are a version, digests are what they are taken of. Expiry, clocks
and leases are `BackendHandoff`'s. `ResultIsOfItsBackend` says that a result was
recorded for the backend under which its call was made, although the code takes the
binding that is current at the time of recording. In a fixture store the invocation's row
leaves its iteration out, so a result recorded again goes under the iteration `legacy`
(`IterationOf`). Not in it: manifest items, installations with other digests; an
iteration of the runner is one step.

### BudgetLedger

The ledger's entries with their amounts and the reconstruction `_budget_write` makes
after every one. An iteration makes one call, whose settlement is the runner's (usage,
commit, release, bind) or the native bridge's (release, usage, bind). Entries are
found again under their idempotency key, so that a settlement can be taken up where it
was left. A refusal goes where the code sends it: a result just recorded is disputed
and the run paused, one found in the store is aborted and its bill lost, the bridge lets
the error out. `BillsAreSettledOnce` says what is true of all of them: nothing stays
reserved, an iteration is charged once, and its bill is counted once or, if it
was refused, not at all; and what is bound was billed within the limit. One unit of call budget stands for all; `refund`, which
nothing under `src/` calls, is left out.

### ProviderDispatch

The provider store and the adapters that use it: `grant` and its projection `usage`;
`claims` of logical calls and their physical `attempts`; for live calls
authorizations, the bundle that hands them out and the permits. `sent` is what
left the process. Each store method is a step; an adapter is the sequence of
methods it calls (`worker[w].pc`) and can stop at any place. An administrator's decision
to retry and the resumption of the run are commands of their own, as in the code.
A refused record or attestation of a live answer is a step of its own (`RecordRefused`): the
adapter writes "disputed" on the permit, which asks for the lease alone, and leaves
the attempt as it is. What the store refuses a record for, other than the lease, is not looked
into: it may refuse any.
`PrepareAgain` is reached only by callers that prepare a dispatch themselves (bridge
and native execution). Costs within or beyond the reservation stand for the five
capped amounts; a worker's renewals are part of the lease's length; ending an
authorization moves no permit; one bundle.

### Scheduler, Worker, Acquisition, Orchestration

`Scheduler`: processes in `run_bounded`, each tick a chain of reads (`Look`, one
step), grant consumption, session, `run_next` (one step with a result, since its claim
lets one process through) and the tick's record. Answers can be lost and processes
die anywhere. The grant's exhaustion is `ProviderDispatch`'s and happens whenever it is
looked at. `Worker`: the loop of `LongRunningWorker.run` against an administrator's
commands; `drain` and `stop` differ in name only, claiming and counting are one step,
the worker's step itself is opaque. `Acquisition`: one request, whose staging directory is
the worker's to change at any time; its contents are versions, some of them beyond
the caps. `Orchestration` has the three and `BackendHandoff` side by side.

### LongRun

Windows of an administrator over several iterations, their commands, successors and usage;
the permit of each iteration; the integrated executor from permit to settlement;
the round plan (`NextRound`); and the single-iteration live approval beside them. The
module and its theorems have all commands; the run gives three, since `drain` ends as
`pause` does, and `stop` and `expire` as exhaustion and failure do.
What happens inside an iteration is `RunnerCall` and `ProviderDispatch`. `RoundsRecur`
is about a pure algorithm: from any first round and any frequencies of the two quality
branches, neither is put off by the ties it loses or by rehydration, if that comes at
every third round or less often. (At every second round the bound is exceeded, and at
every round neither branch has a place.)

### Preparation, NativeExecution, Capsule

Three phases of one live call. `Preparation`: snapshot, lookup request, DNS attempt, and
the handoff by which the worker gives up claim and lease while people decide; snapshots'
contents follow each other and do not come back. `NativeExecution` starts right after
it: the hermetic path and the live path share one dispatch slot, one runner result and one
handoff; `Executors` move one transaction at a time and may fail or crash between any
two. Lease and claim are taken in one step and have no owners; the expiry of a review and
credential events are left out; `CANCELLED` stands for `EXPIRED` and `CLOSED`; the closing
of runner and handoff is two steps; grants are granted or fail. `Capsule`: one
approval for everything that is left to do; its owner makes the lookup and the
approvals, executes the live path and closes; an administrator may close the capsule of
an owner who seems to have crashed. The write of the outcome may fail, and `execute` then takes
its own failure for one from before the send (`CloseFails`, `lost`). Others do not use the approvals its owner makes,
and the hermetic path does not run beside it.

### LiveCanary

The one-shot canary: every invocation claim has an authority, a preview, an approval
and a permit of its own, while slot, runner call and network events belong to the one
logical call. An executor is one call of `execute` in `production_bridge.py`, whose
failure handler classifies the provider's boundary from what is durable. A crashed
executor takes no further step. Crossing the boundary, its network event and the request are three
steps, of which the first two ask for the fence; the request comes after the callback that writes
the event, with no transaction open, so that a pause or a takeover may come
between. Showing is part of loading and authorizing, closing the provider's side is one step, the
drift of contents is one reason of refusal; `execute_fixture` and the read-only
preflights are left out.

### ExternalAgent

Work packets with sessions, claims, takeovers, submissions and successors. All operations
read the time before the lock wait, and any may be called again with what its caller
remembers; repeated calls that change nothing are stutters. `told` (ghost) is what was
answered. The run goes on meanwhile (`run.version`, `run.open`). `ClaimsAreFencing` says
that a claim's generations behave as `FencingLease`'s tokens do: only the newest submits.

### CoreService, ResearchContext

`CoreService`: tokens for exact quotes, evidence made from them, items that supersede
each other, requests an administrator decides, and re-ingested documents that move
versions on. Each operation is one `BEGIN IMMEDIATE` transaction, and writes are
limited per session. Objections, notes,
hypotheses and reports are one kind; a session's project comes from its items; expiry
of a token is an action. Search, writing policy and backup are left out, and so is the quote's text. `ResearchContext`: a reader's several calls with others' writes between them: pages
by offset, latest first, and sections in chunks. A call holds no transaction: the page and
the count that says whether there is a next one are two queries (`ReadOn`, `CountItems`), with
writes in between. One project; a session reads one thing
at a time.

### SchemaMigrations

Starters of one control database that may be absent or left by any earlier release:
preflight, the migrations as one transaction with their backfills, the check of the
result and the fixture's marker. What `apply_migrations` reads before `BEGIN` may be
stale in it. Backfills are abstracted to the owners of objects; unlinking a file is
POSIX's.

## 4. The runs

All configurations turn deadlock checking off, because in every module the system
may stop: runs finish, groups close, authorities are used up, processes crash for
good, and bounded clocks and counters run out.

| Run | Bounds | What it shows |
|---|---|---|
| `RunControl` | 1 administrator, 2 runners, lease lengths 1 and 2, lock wait 1, 2 kinds of round, time to 4, tokens to 3, versions to 10 | leases live only in running runs, are not taken from their holders, and implement `FencingLease`; `verify_run`'s checks hold everywhere; completion rests on a stable history; finished runs are frozen; content is fenced |
| `Runner` | portability: 1 host, 2 backends, versions to 3, 2 handoffs; invocation: 3 processes in 2 sessions, length 2, lock wait 1, tokens to 3, 1 crash, runs that end before their claims; calls: 2 calls, 3 sends, 2 crashes or failed writes, providers plain, idempotent, or idempotent with queries; ledger: limits 7 tokens and 3 iterations, reservation 2, bills 0 to 3, 4 iterations, 2 crashes | results keep their backend; one live claim, and a crash with the claim held is picked up (liveness); no unasked repetition; completed calls settled, closed groups leave no recorded call behind; bills settled once |
| `ProviderDispatch` | 2 workers, 2 sessions, a hermetic and a live call, 3 calls and 5 units of grant, reservation 2, costs 1 and 3, authorization and permit lengths 1, lease 2, 2 takeovers, time to 2 | the grant's usage is what its attempts add up to; a request leaves only on a started attempt and again only by decision; a permit tells what the ledger holds; a settled success is kept |
| `LongRun` | 1 session, caps 1 and 2, 2 iterations, 2 windows, 2 commands, 2 takeovers, time to 3, permit length 1, lease and window 2 | windows form a chain, usage is carried, one iteration is unsettled at most; settlement only into an open window; every kind of round recurs |
| `Orchestration` | handoffs: 2 backends, 2 handoffs, time to 5, lengths 2, lock wait 1; scheduler: 2 processes, 2 sessions, 3 ticks, 3 iterations, 1 failure, 2 idle ticks, 1 lost answer, wall clock 1, time to 2; worker: 2 processes, 2 rounds, 2 commands, versions to 2, time to 2; acquisition: 2 workers, 3 contents of which one is beyond the caps, time to 2 | `HandoffIsOrderly`: projections agree, backends change only in quiescence, resume waits for the acknowledgement of this very takeover; policies hold over restarts and lost answers; ticks form a chain; commands and stops are heeded; only what was validated is accepted |
| `LiveCalls` | 2 contents, 1 hermetic executor and the live one, 2 windows, lengths 1 and 2, tokens to 3, time to 2, one capsule | one request at most, a live one never forgotten; a committed call is settled; a capsule whose outcome could be written tells what the execution did; a lookup's verdict stands |
| `LiveCanary` | 2 claims, 2 executors, lengths 1, tokens to 2, time to 1 | one request over all authorities; outcomes say what happened; a paused run crosses no boundary, and no request goes without the event of one |
| `Services` | agents: 2 sessions, 2 keys, 2 contents, 2 rounds, versions to 2, 2 claims, claim length 1, lock wait 1, time to 3; core: 2 sessions, 2 projects, 1 document in 2 versions, 2 tokens, 2 writes per session, 2 requests, 3 rows in all; context: 4 items, pages of 2, chunks of 3; migrations: 2 starters and a fixture's, 2 objects, 2 runs, 2 previews | claims fence; one current checkpoint per project; a token is one evidence, of its own session, in time and of the current version; pages miss nothing that was there throughout; a migration keeps the history it found |
| `BudgetDispute`, `PortabilityRecords`, `RunnerCallRepeat`, `BackendHandoffStart` | smaller, one property each | disagreements between code and documents, section 6 |

Why the bounds are enough. For the lease, a lock wait as long as the shorter
lease lets a renewal or a handoff be dead on arrival and lets a taker's `now` lie on
either side of an expiry; three tokens allow a grant and a takeover by handoff (two
tokens). Ten versions are what two rounds with a write, a checkpoint, a pause or a
completion take. Two handoffs are the least at which one packet can stand in for
another. Three processes are the least for a claim, its successor and a third that
takes it for released; two of them in one session share a token. Two calls are the least
with a first, a last, and an unfinished one behind an unfinished one; two crashes let a
recovery crash. Bills reach from a failure to more than the reservation, and the limit
is reached by three of them. Two workers, two windows, two claims, two executors and two
starters are the least at which one can come between two steps of the other; time
runs past the longest of each part's lengths, and a takeover is possible before and
after an expiry. One host suffices in `Runner`, since two differ in what an
acknowledgement of the wrong host does (section 6). In every part the mutants named in
`PROJECT.json` are found under the run's own configuration, which shows that its
bounds reach the case each property is about.

The symmetry of interchangeable actors is used for safety and action properties
only; the run with liveness has none.

**Fairness.** Only `RunnerInvocation` has a liveness property over time. Its fairness
assumes that time passes; that callers of `run_next` keep calling it; and that a
transaction that waits for the write lock is eventually served. The second is
what the loop of the scheduler's `run_bounded` does, which makes a failed tick of
an exception and goes on (up to its policy's limits), and what an operator
does by hand; the third is SQLite's busy wait. It assumes nothing of a working
process: it may work for ever or crash. The question the property asks is whether
refused callers, which renew the lease each time, could also keep the dead claim
alive. They do not; the mutant that counts an expired claim as busy for ever breaks
it. Elsewhere the code justifies none: a scheduler, a worker or an executor that died
is started again by a person or not at all, and much of what is left behind then
stays (section 6).

## 5. What is proved

Each module of proofs is about one or two modules or a chain of them; every theorem
holds for any sets of actors, any lengths, lock wait and bounds that the named
assumptions allow.

| Module | Theorem | What it states | Assumes |
|---|---|---|---|
| `RunControlProofs` | `TypeCorrect` | `TypeOK` | the module's assumptions, as all of these |
| | `LiveOnlyWhileRunningHolds` | `LiveOnlyWhileRunning` | |
| | `VerifyRunAlwaysOK` | `VerifyRunOK` | |
| | `FinishedRunsAreFrozen` | `TerminalIsFrozen` | |
| | `CompletionIsStable` | `CompletedIsStable` | |
| | `ContentChangesAreFenced` | `ContentIsFenced` | |
| | `HoldersAreNotEvicted` | `NoEviction` | |
| | `RunImplementsFencingLease` | `ImplementsFencingLease` | |
| `RunnerProofs` | `InvocationTypeCorrect` | types | `InvocationAssumptions` |
| | `ClaimIsMutex` | `OneLiveClaim` | and `Outlives = FALSE` |
| | `CallTypeCorrect` | types | `CallAssumptions`, as the next four |
| | `ClosedGroupsAreClean` | `ClosedGroupIsClean` | |
| | `UndisputedCallsAreSettled` | `CompletedCallIsSettled` unless the group is in dispute | |
| | `CompletedCallsAreSettled` | `CompletedCallIsSettled` | `NumCalls # 1` |
| | `NothingIsRepeated` | `NoUnauthorisedRepeat` | no hidden errors, queries only with keys |
| | `ResultsAreOfTheirBackend` | `ResultIsOfItsBackend` | `PortabilityAssumption` |
| | `BillsSettleOnce` | `BillsAreSettledOnce` | `BudgetAssumption` |
| `OrchestrationProofs` | `HandoffsAreOrderly` | `HandoffIsOrderly` | `HandoffAssumptions` |
| | `PolicyIsKept` | `WithinPolicy` | the modules' assumptions, as the next three |
| | `TicksAreAHistory` | `TicksChain` | |
| | `RequestsAreVerified` | `AcquisitionVerified` | |
| | `StopsHold` | `StopsAreHeeded` | |
| `LiveCallProofs` | `CallsLeaveOnce` | `NeverTwice`, `LiveSendIsKept` | the modules' assumptions, as all of these |
| | `SuccessIsSettled` | `CommittedIsSettled` | |
| | `HandoffsHoldUpNobody`, `PreparationHoldsUpNobody` | `PreparationStands`, and its parts before an execution | |
| | `CapsuleExecutes` | `CapsuleSpec => Spec` | |
| | `CapsuleSendsAreKnown` | `SendsAreKnown` | |
| | `CapsulesTell` | `CapsuleTells` | |
| `ProviderDispatchProofs` | `DispatchInvHolds`, `TypeCorrect` | the inductive invariant; `TypeOK` | the module's assumptions, as all of these |
| | `CallsAreSentAsDecided` | `SentAsDecided` | |
| | `PermitsTellTheLedger` | `PermitTellsLedger` | |
| | `SuccessesAreKept` | `SuccessIsKept` | |
| | `UsageAddsUp` | `UsageReconstructs` | |
| `LongRunProofs` | `LongRunInvHolds`, `TypeCorrect` | the inductive invariant; `TypeOK` | the module's assumptions, as all of these |
| | `WindowsAccountForRun` | `WindowsAccount` | |
| | `SettledWhileOpen` | `SettledInOpenWindow` | |
| | `NoBranchStarves`, `PlansRecur` | the planner comes back to both quality branches, for plans of any length and any first number; `RoundsRecur` | |
| `LiveCanaryProofs` | `OneRequestLeaves` | `OneRequest` | the module's assumption, as all of these |
| | `OutcomesTellTheTruth` | `OutcomesAreTrue` | |
| | `NothingCrossesWhilePaused` | `CrossesWhileRunning` | |
| `ServicesProofs` | `AgentTypeCorrect` | types | `AgentAssumptions`, as the next three |
| | `PacketsVerify` | `VerifyOK` | |
| | `AcceptedStandsForGood` | `AcceptedStands` | |
| | `PacketsAreFenced` | `ClaimsAreFencing` | |
| | `CoreTypeCorrect` | types | `VersionAssumption`, as the next three |
| | `CheckpointsAreOne` | `OneCurrentCheckpoint` | |
| | `TokensAreSpentOnce` | `OneEvidencePerToken` | |
| | `ReviewsTell` | `ReviewsAreTold` | |
| | `NothingIsMissed` | `PagesMissNothing` | `ContextAssumption` |
| | `HistoriesAreCarried` | `HistoryIsCarried` | `MigrationsAssumption`, as the next one |
| | `RejectedStays` | `RejectedUntouched` | |

Four hypotheses say more than what type a constant has. `Outlives = FALSE` is that no
process goes on working after its claim ran out, a restriction, since the code
lets it: `OneLiveClaim` is false without it (section 6). `NumCalls # 1` is
that the round is a deliberation; a single call's bill can be forgotten (section 6), and
`UndisputedCallsAreSettled` says that a dispute is the only way. `HiddenErrors = FALSE` is the adapter protocol's rule that an adapter which does not
know whether its call was executed says `DispatchUnknown`, and the last one
leaves out the providers of `RunnerCallRepeat`. `Runner` checks the properties under the
same four, so that theorem and run speak of the same cases.

### The arguments

**RunControl.** One invariant built up in layers. `TypeOK` is inductive
by itself. `LiveOnlyWhileRunning` is inductive over it: a step either leaves the run
running, or gives the lease back at a `now` that is not in the future, or
starts from a state that is not running, where the lease was already dead and
only a grant, which also makes the run running, revives it. That is why `pause` may
write an old `now` and `create_checkpoint` may skip the status.
`VerifyRunOK` is not inductive: it allows an approval count of zero in a cancelled
run, and says nothing that stops a second approval of a run that waits for
its first. `Consistent` adds that a waiting run has consumed none. With
`LiveOnlyWhileRunning` at hand no fenced write can happen in a finished run, whence
`FinishedRunsAreFrozen`, and with it `CompletionIsStable`: only `PersistCompletion`
completes a run, at a stable history, and nothing moves afterwards. `NoEviction` and the
refinement use `Unowned` (a row without an owner has no expiry), so that the first
grant cannot be mistaken for an eviction. The refinement maps `token`, `holder`
to the row, `usable` to `Live`, and each action to `Issue`, `Lapse`, `Revive`, `Write`,
`WriteAndIssue` or a stutter.

**RunnerInvocation.** The claims table is append-only and `claim_invocation` reads its last
row. `HoldsLatest` says that whoever works with a claim that has not run out is the
owner of that last row, and that the row says so. A claimant finds the last row
released or run out, a release is of the row's owner, and time only ends claims.

**RunnerCall.** `InPlace` says for each place of the process what path, group and
iteration it can have come there with. `BoundIsClosed` and `SettlesInOrder` order a
settlement: usage before commit before release before binding, so that what a crash leaves
behind is found and taken up. `WorksOnGroup` and `AsksOnce` tie the call in hand to the
first unproven one. `UndisputedInv` is the rest, and holds until a dispute: calls
are proven in order (`InOrder`), a closed iteration says how (`IterationTells`), and the
steps that close are in order (`ClosesInOrder`). A disputed group is never closed as
completed or aborted, so `ClosedGroupIsClean` needs no exception for it. It speaks of the
calls whose intent is recorded: those are the ones an abort finds by their bindings, and the
reservation of any other stays (section 6).
`NothingIsRepeated` uses that a call which no key protects is dispatched from no attempt
or a failed one, and that neither is left by an execution (`NoRepeatInv`).

**AgentPortability.** `FirstCallTells` says that a run's first call is of its current binding, or
was made before it had one: the inventory counts every call on record as open, so that
nothing moves a run that has called. `ResultsTell` is what that makes of each result, and the
rest of `PortabilityInv` is that profiles stay registered and that approvals,
snapshots and packets name what is there.

**BudgetLedger.** `SumAppends`, `BalanceAppends` and `RestAppends` say what one entry more
changes in the sums over the ledger; the sums are a recursive function, whose solution
`TotalAddsUp` finds without an induction theorem, by the least number up to which there
would be none. `Kept` (what is reserved is not negative, what is used is within the limit)
is then what `Fits` asks of each entry. `Story` is the account of one iteration: what is
posted under no key adds up to nothing, a release leaves nothing to commit, and a bill
that is bound was posted and its reservation released. `Place` says which of these
entries there are at the place the process is at, and nothing where it can be left by a
crash: taken up again, it finds its entries by their keys. `Billed` is not covered by
`Used` at every step, since usage is posted before it is bound; `Settles` adds the open
iteration's usage, which makes it inductive.

**BackendHandoff.** `HandoffIsOrderly` is over steps and needs `PacketsTell`: the packets
are as many as the bindings after the first, the newest one is of the current binding,
and packets of different bindings differ. With it a tie of creation times, which
`Latest` leaves open, cannot have an older packet's acknowledgement stand in for the
newest. `UnboundIsFresh` is the base of it.

**Scheduler.** The pointer is what the next tick is judged by, so `DurableTells` says what it
counts: the ticks there are, how many of the last ones failed and how many made no
progress (`Trails`), and that an active pointer has room for one more (`Open`). An append
does not ask whether the pointer is active, nor whether the policy still allows a tick; it asks
whether the pointer is at the tick that it began with. So `TickHolds` says of a tick under
way that it is behind the pointer, or that the policy allowed it where the pointer still
is and that it began after the last tick ended. Every step either leaves the pointer's tick and
counts alone or moves to the next tick (`Forward`), so other processes' ticks keep that, and
`TickAppends` is what one tick more does to windows, chain and counts. A takeover opens a
session without touching what is counted.

**Worker and Acquisition.** `WorkerHolds` says that a command a process overlooked is no longer
pending when the process is past its next look, so that the one it may overlook in its
next step is another. `AcquisitionVerified` is inductive together with `FindingsAreValid`: what
a validator has found and not recorded yet is valid, however the directory has changed
since.

**Orchestration.** `EachPartIsItself`: a behaviour of the four is one of each, so that `StopsHold`
follows from the scheduler's and the worker's invariants. A scheduler that is `Quiet` cannot
become active again since only an append makes it so, and who is not yet at work when it has
stopped finds it stopped in `Enter`.

**ProviderDispatch.** `DispatchInv` relates ledger, workers and permits by three kinds of
parts. `TokenTells`, `Overtaken` and `PairTells` are about takeovers: whoever holds the
call's lease owns no attempt that was overtaken, and a second attempt of a call is its
last. `HandsDiffer` and `PlaceTells` are a row for each worker, what its place in the
adapter says of the attempt it has in hand, and that two workers have different
ones. `LiveTells` ties a live attempt to its permit. They move together, but for a permit
that is told "disputed" after a refusal: its attempt was sent, is not yet settled, and no later
recovery settles it or calls it off, which is what `PermitTellsLedger` says of it. `UsageReconstructs` says that the
projection is the sum of what the settled attempts were charged, which is a sum over a
finite set and defined by recursion over it. `TotalsExist` shows that the recursion has
a solution on all subsets at once, by a least counterexample in cardinality, and `SumOfOneMore`
that an element more adds its own; each step then settles one attempt or none.

**LongRun.** The heart of `LongRunInv` is `Accounts`: a window accounts for exactly the
settled iterations before its next one, by cost, by idle count and by the state they
ended in. It is kept by other windows' settlements since none of those is before the window's
next iteration: permits are numbered over settlements (`PermitsTell`) and a window settles
the number it waits for (`Awaits`). A successor copies the account, a command and a
revival leave it alone, and so `WindowsAccount` needs no hypothesis on how windows are
opened and closed. `Awaits` also says that a consumed permit pends only in an open window,
which is all that `SettledWhileOpen` needs. `Spent` is a recursive function: `SpentAddsUp`
shows that it is the one its equations ask for, by the least number up to which there is
no solution.
`NoBranchStarves` is about the planner alone. A branch that stays away for its frequency is due
at the next four rounds, two of which follow each other and are no rehydration
(`TwoInARow`). If the first of the two goes to the other branch, that one is due again at
the second only if its frequency is one, and then `Balanced` says that it is not ahead
by more than the tie-break allows (`DueIsNext`). `PlannedGrows` and `PlansTell` are the inductions
over the plan, again by least counterexamples.

**Preparation, NativeExecution, Capsule.** `ExecInv` has one row predicate for each
executor about the slot it holds and one about the result it may write; any number of
hermetic executors and the live one exclude each other by them, and they say which of
them may find the slot started. `AuthoritySettled`, `LiveOnce` and `HermeticWaits` are about the
live authority. `CapsuleExecutes` is the refinement: each step of a capsule
is one of `NativeExecution` or leaves its state alone, so that what holds of an
execution holds in a capsule. `CapsuleInv` ties the owner's stage to what it has
executed, and says that a capsule closed under a working owner is closed by what
the ledger held then, and is not contradicted by what the owner does later. `OwnerTells` says
that the owner has the execution's verdict to close with, or, once the write of one failed,
the handler's "never sent": `lost` remembers that it need not be so.

**LiveCanary.** `CanaryInv` is a row for each executor (what it holds, the slot, what it
has sent) and one for each claim, with `HoldersDiffer`: two executors never hold the same
claim. `NothingCrossesWhilePaused` rests on `PausedHoldsNothing`: pausing gives up the
lease, and the fence that the boundary and its event ask for cannot be had without one.
Nothing asks for it when the request leaves; that the event and the permit are there then
is `SentRow`'s.

**ExternalAgent.** `AgentInv`: generations number a packet's claims without gaps, the
active claim is the newest and is the packet's, and a result is the one its packet was
submitted with. That a successor's round is new needs that `Max` of a set is its
greatest element, for which the proof goes down to well-founded induction. The
refinement maps each packet's newest generation to `token`; it uses the invariant in the
state before and after.

**CoreService.** `Supersession` says that an item with a successor is superseded or waits
for the successor's approval, and `OneCurrent` that no project has two checkpoints without
one. Its proof needs the reviews: a rejected successor gives its predecessor
back, which is sound because a rejected item has its one request decided and
never becomes current again. `TokensSpent` says that the token of each piece of evidence is
consumed, and `EvidenceIsSubmitted` that one action alone makes evidence; so a token that
can be spent has made none.

**ResearchContext.** `Covers` says of a reading that has come to some offset: what was there
when it began, is as it was then, and has a place below the offset, has been seen. A place is
the number of rows before one's own, so it is below the number of rows and no two
are alike, and a page holds exactly the rows of its places (`PageFits`). A write moves its own
row to the front and adds one to the places of others at most (`PlacesGrow`), so
nothing comes under the offset unseen. The count only ends the reading when there is no
place left at the offset, and rows are not deleted; so what a write puts between page and
count costs a page more and no item (`CountCovers`).

**SchemaMigrations.** `Carries` says, for each schema with a backfill, what its table holds
before the schema (nothing) and from then on (the history). The backfills are proved
one after another, as the transaction runs them. A file an invocation created has a
ledger without a gap from the start, which is why no cleanup touches a database that
`RejectedUntouched` is about.

## 6. Disagreements found

Four are runs expected to find a violation; `PROJECT.json` quotes the lines.

 1. `start` of a paused run goes around the acknowledgement `resume` insists on
    (`BackendHandoffStart`).
 2. With a provider that answers queries and has no idempotency keys, a crash
    during the dispatch is followed by a second dispatch without a query
    (`RunnerCallRepeat`). `Runner` has the other providers.
 3. Usage is recorded while its reservation is held, so that near the Charter's limit
    a bill within its reservation is disputed and never enters the ledger
    (`BudgetDispute`).
 4. A recorded result makes the portability service's verify fail for good, because
    two different hashes name its invocation (`PortabilityRecords`).

Others are stated in the modules, next to the properties the runs check, and
are refuted when checked alone:

  - `BackendHandoff`: a handoff refused as expired stays pending, because the row that
    says EXPIRED is rolled back with the refusal (`RefusedExpiredIsNotPending`); a run
    that made one call through the runner can never be handed off, because the
    inventory counts append-only rows as open activity (`SettledRunIsQuiescent`).
  - `RunnerInvocation` with `Outlives = TRUE`: a claim released late hides its
    successor's claim from the next claimant (`OneLiveClaim`).
  - `RunnerCall` with one call and the response "overrun": the dispute closes the group and
    pauses the run, nobody can decide it, and when the run is resumed the stored result
    completes the iteration with its usage unbound and its reservation held
    (`CompletedCallIsSettled`). The call of a deliberation is aborted instead, so that the
    property holds of those, as `Runner` shows and `CompletedCallsAreSettled` proves.
  - `RunnerCall` after a crash between the change set, or the iteration's end, and the
    terminal outcome: the intent is built again against the graph that has the change set in
    it, does not match, and the group is aborted (`AbortAppliesNothing`). The comment at
    `runner/runner.py:1130` says that recovery after the change set does not abort a safe
    replay; `verify_run` then misses the iteration outcome of the aborted group.
  - `RunnerCall` with the response "overrun" or with an abort: the bill of a disputed call
    of a deliberation is never bound (`BillableIsBound`); the abort of an ambiguous call
    is spent without being acted on (`AbortDecisionIsFinal`).
  - `AgentPortability`, fixture stores: a result recorded again for an iteration is a second
    row, and verify refuses it (`IterationsVerify`).
  - `AgentPortability`: with two hosts a packet is acknowledged from another than the
    target's (`AcknowledgedByTarget`). A property that holds, and should not: a run whose
    profile was disabled or revoked keeps it, since no handoff leads away from it, while
    the runner goes on (`RevokedIsKept`).
  - `NativeExecution`: the handoff stays PREPARED after a live execution, because
    `native_live.py` ends it without the transition that precedes its end and swallows
    the refusal (`HandoffFollows`); a hermetic abort records `not_sent` for a live send
    that is left unknown (`SentIsNeverPreSend`).
  - `LiveCanary`: an executor that fails before its permit closes the runner's call as
    not sent while the other one's request is out (`ClosedFromEvidence`).
  - `CoreService`, `ResearchContext`, `SchemaMigrations`: a report may rest on evidence
    that was rejected (`ReportsHeedEvidence`); a pending request can be left that
    nobody can decide (`PendingIsDecidable`); chunks of `source_links` read while the
    documents move do not join to one text (`SectionsJoin`); a starter of a fixture
    that fails removes a database another starter was told is ready (`NeverRemoved`).

And some that the modules follow without a property of their own:

  - Any unit of budget above zero opens an iteration, also one whose call cannot be
    reserved or whose charge is refused; the latter stays open.
  - A result found in the store whose usage is refused is aborted with its bill.
  - The reservation of a call that was never recorded stays held when its group is
    aborted: after a crash between reservation and intent the intent may be refused, and the abort
    finds calls by their bindings (`runner/runner.py:923`), although its comment says that
    every remaining reservation is released.
  - A capsule whose request left and was recorded is closed as never sent when the write of its
    outcome fails and the handler's own goes through (`convergence.py:809-814`).
  - A live permit says "disputed" of an attempt that the ledger still calls dispatching or
    succeeded, when its record or attestation was refused (`provider/live_adapter.py:247`).
  - The scheduler re-hands an expired lease to a session that ended, after which every
    tick is refused as busy; after a stop no session ticks again, even with a new grant.
  - A crash between consuming a grant, an authorization or an approval and the row it was
    consumed for leaves it spent: in the scheduler before its session, in the native
    execution before its authority, in the canary as a permit of nobody.
  - The live iteration approval and the long-run window do not exclude each other
    (`provider/execution.py:58`), though `docs/max-research-mr4a.md` says they do; and a pause,
    a revocation or an expiry is noticed between iterations, not before the next call.
  - A cancelled handoff does not stop an authorized live execution; what drifts between
    its check of the context and its consumption is not looked at again.
  - An expired capsule cannot be replaced, and `recover` takes an owner at work for
    crashed when asked to.
  - An accepted packet's successor can be issued twice for one result, and a claim that
    ran out can still be released.
  - Two first starts of the core database can collide, and one fails on a column that
    is there already.

`Runner` excludes the late release by `Outlives = FALSE` and the second of the four by its
set of providers, so that what it shows holds outside of these cases; the quiescence
inventory is why the handoffs of `Orchestration` are of runs that made no call.

## 7. What is only model-checked, and what is not modelled

Everything section 5 does not list is checked by TLC within the bounds above. Of the
properties of the runs that should hold it is `CrashIsPickedUp` alone, since liveness under
fairness is outside the prover's reach.

Not modelled: the front ends and the auditors (argument parsing, and read-only
functions of files), the HTTP transport, DNS and TLS, the codecs, search ranking,
the catalog's bibliographic records, backup and restore, the runner's planner (a pure
function of the history), and read-only verifiers except where a property is what they
recompute. Hashing and canonical encoding are taken to be injective. What each partly
modelled component leaves out is in its note in `PROJECT.json`. Hazards no property
covers are listed there with the reason.
