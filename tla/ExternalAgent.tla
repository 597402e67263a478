---------------------------- MODULE ExternalAgent ----------------------------
(***************************************************************************)
(* Work packets for agents outside of the system: the administrator issues *)
(* a packet for a started iteration of a running run, bound to the state   *)
(* the run has; an agent's session claims it for a while, and submits a    *)
(* candidate under its claim or gives it back; a claim that ran out is     *)
(* taken over under the next generation.  Every operation is one           *)
(* transaction that read the time before it waited for the write lock, and *)
(* any of them may be called again with what its caller remembers.         *)
(* Sessions, packets and their iteration are of one project; what is of    *)
(* another is refused.                                                     *)
(***************************************************************************)
EXTENDS Integers, Sequences, FiniteSets, FiniteSetsExt, Functions

CONSTANTS
    AgentSessions,  \* the agents' sessions
    NoSession,
    Keys,           \* idempotency keys
    Contents,       \* candidates
    SessionTtl, PacketTtl, ClaimTtl,
    LockWait,       \* how long a caller may wait for the write lock
    MaxTime,        \* bound on the clock
    MaxRound,       \* bound on the packets' rounds
    MaxVersion,     \* bound on the run's state version
    MaxClaims       \* bound on the claims of all packets

SessionsAssumption == NoSession \notin AgentSessions
AgentTimesAssumption == {SessionTtl, PacketTtl, ClaimTtl, LockWait} \subseteq Nat
AgentBoundsAssumption == {MaxTime, MaxRound, MaxVersion} \subseteq Nat \ {0}

VARIABLES
    clock,
    run,        \* max_runs and max_iterations: state version, whether packets can be issued
    session,    \* max_external_agent_sessions with the latest session event
    packet,     \* max_external_agent_work_packets and _work_current, by round
    claims,     \* max_external_agent_work_claims and _claim_current, by round and generation
    results,    \* max_external_agent_results
    told        \* what agents were told was accepted

agentVars == <<clock, run, session, packet, claims, results, told>>

Rounds == 1..MaxRound
Candidate == [round : Rounds, key : Keys, content : Contents]

AgentTypeOK ==
    /\ clock \in 1..MaxTime
    /\ run \in [version : 1..MaxVersion, open : BOOLEAN]
    /\ session \in [AgentSessions -> [state : {"none", "opened", "closed"}, expires : Nat]]
    /\ DOMAIN packet = Rounds
    /\ \A r \in Rounds :
         /\ packet[r].state \in {"none", "available", "claimed", "released", "submitted"}
         /\ packet[r].prior \in 0..MaxRound
         /\ packet[r].generation \in Nat
         /\ packet[r].claim \in 0..packet[r].generation
         /\ packet[r].result \subseteq results
         /\ claims[r] \in Seq([session : AgentSessions, expires : Nat,
                               state : {"active", "released", "expired"}])
    /\ results \subseteq Candidate
    /\ told \subseteq Candidate

NoPacket == [state |-> "none", version |-> 0, prior |-> 0, expires |-> 0,
             generation |-> 0, claim |-> 0, result |-> {}]

AgentInit ==
    /\ clock = 1
    /\ run = [version |-> 1, open |-> TRUE]
    /\ session = [s \in AgentSessions |-> [state |-> "none", expires |-> 0]]
    /\ packet = [r \in Rounds |-> NoPacket]
    /\ claims = [r \in Rounds |-> <<>>]
    /\ results = {} /\ told = {}

\* What a transaction takes for the time: it was read before the lock wait.
Read == {now \in 1..clock : clock - now <= LockWait}

Earliest(times) == Min(times)

Tick ==
    /\ clock < MaxTime
    /\ clock' = clock + 1
    /\ UNCHANGED <<run, session, packet, claims, results, told>>

(***************************************************************************)
(* The run, which goes on meanwhile                                        *)
(***************************************************************************)
RunGoesOn(new) ==
    /\ run' = new
    /\ UNCHANGED <<clock, session, packet, claims, results, told>>

\* The run is running and the packets' iteration is started: it may be paused
\* and resumed meanwhile, or end, or the iteration may.
Stop == run.open /\ RunGoesOn([run EXCEPT !.open = FALSE])
Resume == ~run.open /\ RunGoesOn([run EXCEPT !.open = TRUE])

ChangeState ==
    /\ run.version < MaxVersion
    /\ RunGoesOn([run EXCEPT !.version = @ + 1])

(***************************************************************************)
(* Sessions                                                                *)
(***************************************************************************)
Active(s, now) == session[s].state = "opened" /\ session[s].expires > now

OpenSession(s) ==
    /\ session[s].state = "none"
    /\ \E now \in Read :
         session' = [session EXCEPT ![s] = [state |-> "opened", expires |-> now + SessionTtl]]
    /\ UNCHANGED <<clock, run, packet, claims, results, told>>

\* The claims of the session stay as they are.
CloseSession(s) ==
    /\ \E now \in Read : Active(s, now)
    /\ session' = [session EXCEPT ![s].state = "closed"]
    /\ UNCHANGED <<clock, run, packet, claims, results, told>>

(***************************************************************************)
(* The administrator issues packets.                                       *)
(***************************************************************************)
Issued == {r \in Rounds : packet[r].state # "none"}
NextRound == Max({0} \cup Issued) + 1

\* A packet for an iteration that is started, bound to the state the run has.
Issue(r, prior) ==
    /\ run.open
    /\ \E now \in Read :
         packet' = [packet EXCEPT ![r] =
                      [NoPacket EXCEPT !.state = "available", !.version = run.version,
                                       !.prior = prior, !.expires = now + PacketTtl]]
    /\ UNCHANGED <<clock, run, session, claims, results, told>>

\* The round is the caller's choice, or the next one.  A call for a round
\* that is taken by the same packet finds it, and changes nothing.
IssueWorkPacket(r) ==
    /\ r \in Rounds \ Issued
    /\ Issue(r, 0)

\* The next round after a candidate, while the candidate's iteration is still
\* started.  It is new by construction: the call made again makes another one.
IssueNextRound(result) ==
    /\ result \in results
    /\ NextRound \in Rounds
    /\ Issue(NextRound, result.round)

(***************************************************************************)
(* Agents                                                                  *)
(***************************************************************************)
Claim(r, g) == claims[r][g]

\* The packet's current claim, which no other session may take yet.
Held(r, now) ==
    /\ packet[r].state = "claimed"
    /\ Claim(r, packet[r].claim).state = "active"
    /\ Claim(r, packet[r].claim).expires > now

\* Mutant: the claim that ran out is left as it is.
LeftBehind(r) == claims[r]

\* The claim that ran out is closed by the one that takes over.
TakenOver(r) ==
    IF packet[r].state = "claimed" /\ Claim(r, packet[r].claim).state = "active"
    THEN [claims[r] EXCEPT ![packet[r].claim].state = "expired"]
    ELSE claims[r]

Generation(r) == Len(claims[r]) + 1

\* A session that holds the packet is given its claim again, unchanged.
ClaimWork(s, r) ==
    /\ r \in Issued
    /\ packet[r].state # "submitted"
    /\ SumFunction([x \in Rounds |-> Len(claims[x])]) < MaxClaims
    /\ \E now \in Read :
         /\ Active(s, now)
         /\ packet[r].expires > now
         /\ ~Held(r, now)
         /\ claims' = [claims EXCEPT ![r] =
              Append(TakenOver(r),
                     [session |-> s, state |-> "active",
                      expires |-> Earliest({now + ClaimTtl, packet[r].expires, session[s].expires})])]
    /\ packet' = [packet EXCEPT ![r].state = "claimed", ![r].result = {},
                                ![r].generation = Generation(r), ![r].claim = Generation(r)]
    /\ UNCHANGED <<clock, run, session, results, told>>

\* The claim is the session's and the packet's current one.
Owns(s, r, g) ==
    /\ packet[r].claim = g
    /\ Claim(r, g).session = s
    /\ Claim(r, g).state = "active"

\* A claim that ran out can still be given back.
ReleaseWork(s, r, g) ==
    /\ \E now \in Read : Active(s, now)
    /\ Owns(s, r, g)
    /\ claims' = [claims EXCEPT ![r][g].state = "released"]
    /\ packet' = [packet EXCEPT ![r].state = "released", ![r].claim = 0]
    /\ UNCHANGED <<clock, run, session, results, told>>

Earlier(r, k) == {x \in results : x.round = r /\ x.key = k}

Replayed(candidate) == candidate \in Earlier(candidate.round, candidate.key)

\* Mutant: whoever holds a claim of the packet may submit.
AnyClaim(s, r, g, now) == Claim(r, g).session = s /\ Claim(r, g).expires > now

\* The claim is owned and has not run out, nor has the packet, and the run is
\* where it was.  Neither the run's status nor the iteration is asked.
MaySubmit(s, r, g, now) ==
    /\ packet[r].state = "claimed"
    /\ Owns(s, r, g)
    /\ Claim(r, g).expires > now
    /\ packet[r].expires > now
    /\ run.version = packet[r].version

SubmitCandidate(s, r, g, candidate) ==
    /\ candidate.round = r
    /\ Earlier(r, candidate.key) = {}
    /\ \E now \in Read : Active(s, now) /\ MaySubmit(s, r, g, now)
    /\ results' = results \cup {candidate}
    /\ told' = told \cup {candidate}
    /\ claims' = [claims EXCEPT ![r][g].state = "released"]
    /\ packet' = [packet EXCEPT ![r].state = "submitted", ![r].claim = 0,
                                ![r].result = {candidate}]
    /\ UNCHANGED <<clock, run, session>>

\* The same candidate again, by any session and under whatever claim.
ReplayCandidate(s, candidate) ==
    /\ \E now \in Read : Active(s, now)
    /\ Replayed(candidate)
    /\ told' = told \cup {candidate}
    /\ UNCHANGED <<clock, run, session, packet, claims, results>>

AgentNext ==
    \/ Tick \/ Stop \/ Resume \/ ChangeState
    \/ \E s \in AgentSessions : OpenSession(s) \/ CloseSession(s)
    \/ \E r \in Rounds : IssueWorkPacket(r)
    \/ \E result \in results : IssueNextRound(result)
    \/ \E s \in AgentSessions, r \in Rounds :
         \/ ClaimWork(s, r)
         \/ \E g \in 1..Len(claims[r]) :
              \/ ReleaseWork(s, r, g)
              \/ \E c \in Candidate : SubmitCandidate(s, r, g, c)
    \/ \E s \in AgentSessions, c \in Candidate : ReplayCandidate(s, c)

AgentSpec == AgentInit /\ [][AgentNext]_agentVars

(***************************************************************************)
(* Properties                                                              *)
(***************************************************************************)
ActiveClaims(r) == {g \in 1..Len(claims[r]) : claims[r][g].state = "active"}

\* What verify recomputes: claims are numbered without gaps, an active claim
\* is the packet's current one, a claimed packet has exactly one, and a
\* submitted packet has a candidate of its own and no active claim.  Every
\* variable has its type.
VerifyOK ==
    AgentTypeOK /\ \A r \in Rounds :
      /\ packet[r].generation = Len(claims[r])
      /\ ActiveClaims(r) = IF packet[r].state = "claimed" THEN {packet[r].claim} ELSE {}
      /\ packet[r].state = "submitted" =>
           \E x \in results : packet[r].result = {x} /\ x.round = r

\* What an agent was once told is accepted is the packet's candidate for good,
\* whoever submitted, replayed, took over or resubmitted under which key.
AcceptedStands == \A x \in told : packet[x.round].result = {x}

\* Some session could have a candidate accepted now.
Usable(r) ==
    /\ packet[r].state = "claimed"
    /\ \E s \in AgentSessions, now \in Read :
         Active(s, now) /\ MaySubmit(s, r, packet[r].generation, now)

Lease(r) == INSTANCE FencingLease WITH
              Holders <- AgentSessions, NoHolder <- NoSession,
              token <- packet[r].generation,
              holder <- IF claims[r] = <<>> THEN NoSession
                        ELSE claims[r][packet[r].generation].session,
              usable <- Usable(r),
              stamp <- IF packet[r].result = {} THEN 0 ELSE packet[r].generation

ClaimsBegin == \A r \in Rounds : Lease(r)!Init

FencingStep == \A r \in Rounds : Lease(r)!Next \/ UNCHANGED Lease(r)!leaseVars

\* A packet's claims are a fencing lease: candidates are accepted under the
\* newest generation only, which is never brought back once another is issued.
ClaimsAreFencing == ClaimsBegin /\ [][FencingStep]_agentVars
==============================================================================
