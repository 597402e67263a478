----------------------- MODULE ProviderDispatchProofs -----------------------
(***************************************************************************)
(* Proofs about ProviderDispatch, for any processes, sessions, calls,      *)
(* charges, lifetimes and bounds.                                          *)
(***************************************************************************)
EXTENDS ProviderDispatch, Integers, FiniteSetTheorems, SequenceTheorems, WellFoundedInduction,
        TLAPS

(***************************************************************************)
(* The invariant                                                           *)
(***************************************************************************)
AttemptRow == [call : Calls, owner : Sessions, token : 1..MaxTakes, state : AttemptStates,
               at : Nat, actual : Nat]

AuthRow == [state : {"active", "consumed", "revoked", "expired"}, expires : Nat]

PermitRow == [state : PermitStates, attempt : 0..MaxCalls, auth : 0..MaxAuths,
              owner : Sessions \cup {NoOne}, token : 0..MaxTakes, crossed : BOOLEAN,
              expires : Nat]

WorkerRow == [session : Sessions, pc : Places, call : Calls \cup {NoOne}, token : 0..MaxTakes,
              attempt : 0..MaxCalls, answer : Answers]

\* The types of the run, of the grant and of its usage, which is here any integer.
RunTyped ==
    /\ clock \in 1..MaxTime
    /\ status \in {"RUNNING", "PAUSED"}
    /\ lease \in [owner : Sessions \cup {NoOne}, token : 0..MaxTakes, expires : Nat]
    /\ grant \in [state : {"none", "issued", "consumed"}, expires : Nat, closed : BOOLEAN]

\* Every attempt is one dispatch of the grant.
LedgerTyped ==
    /\ usage \in [dispatches : 0..MaxCalls, reserved : Int, settled : Int, released : Int]
    /\ claims \in [Calls -> ClaimStates]
    /\ attempts \in Seq(AttemptRow)
    /\ usage.dispatches = Len(attempts)
    /\ records \in [Calls -> 0..MaxCalls]
    /\ retries \in [Calls -> Nat]
    /\ sent \in [1..MaxCalls -> Nat]

\* An active bundle has a next member, and every member is an authorization.
LiveTyped ==
    /\ auths \in Seq(AuthRow) /\ Len(auths) <= MaxAuths
    /\ bundle.state \in {"none", "active", "exhausted", "revoked"}
    /\ bundle \in [state : {"none", "active", "exhausted", "revoked"},
                   members : Seq(1..MaxAuths), next : Nat]
    /\ \A n \in DOMAIN bundle.members : bundle.members[n] \in DOMAIN auths
    /\ bundle.state = "active" => bundle.next \in DOMAIN bundle.members
    /\ assigned \in [Calls -> 0..Len(auths)]
    /\ permits \in [Calls -> PermitRow]

WorkersTyped == worker \in [Workers -> WorkerRow]

Typed == RunTyped /\ LedgerTyped /\ LiveTyped /\ WorkersTyped

\* An attempt is overtaken by a retry decided on after it was last in flight.
Overtaken(a) == attempts[a].at > 0 /\ attempts[a].at <= retries[attempts[a].call]

\* Only a running run has a lease, and it decides on no retry.
LeaseTells ==
    /\ lease.token = 0 => lease.expires = 0
    /\ Alive(lease.expires) => status = "RUNNING"
    /\ status = "RUNNING" => \A c \in Calls : retries[c] < clock

\* The holder of the lease owns no attempt that was overtaken.
TokenTells(a) ==
    /\ attempts[a].token <= lease.token
    /\ Overtaken(a) /\ Alive(lease.expires) => attempts[a].token < lease.token

\* A call's second attempt is its last, and live calls have one.
PairTells(a, b) ==
    a < b /\ attempts[a].call = attempts[b].call =>
      Overtaken(a) /\ ~Overtaken(b) /\ attempts[a].call \notin LiveCalls

\* What was claimed has an attempt.
ClaimTells(c) == claims[c] = "none" <=> \A a \in DOMAIN attempts : attempts[a].call # c

OrderTells ==
    /\ LeaseTells
    /\ \A a \in DOMAIN attempts : TokenTells(a)
    /\ \A a, b \in DOMAIN attempts : PairTells(a, b)
    /\ \A c \in Calls : ClaimTells(c)

\* The states of an attempt whose permit tells the outcome.
ToldBy(outcome) ==
    CASE outcome = "settled" -> {"settled"}
      [] outcome = "failed" -> {"failed", "cancelled"}
      [] outcome = "unknown" -> {"unknown"}
      [] OTHER -> {"disputed", "failed", "dispatching", "succeeded"}

\* The attempt of a live call and its permit move together.
LiveTells(a) ==
    LET p == permits[attempts[a].call] IN
    /\ p.attempt = a /\ p.owner = attempts[a].owner /\ p.token = attempts[a].token
    /\ p.state # "none"
    /\ sent[a] > 0 => p.crossed
    /\ p.state = "ready" <=> attempts[a].state = "reserved"
    /\ p.state = "send_started" => attempts[a].state # "cancelled"
    /\ p.state \in PermitOutcomes => attempts[a].state \in ToldBy(p.state)

\* What was not started, or was called off, was not sent.
AttemptTells(a) ==
    /\ sent[a] <= 1
    /\ attempts[a].state \in {"reserved", "cancelled"} => sent[a] = 0
    /\ IF attempts[a].call \in LiveCalls THEN LiveTells(a) ELSE attempts[a].state # "cancelled"

PermitTells(c) ==
    permits[c].state # "none" =>
      permits[c].attempt \in DOMAIN attempts /\ attempts[permits[c].attempt].call = c

\* Who has started an attempt has it in hand.
Hands == {"sending", "crossed", "answered", "recorded", "outcome"}
InHand(w) == worker[w].pc \in Hands

\* A worker's place tells the state of the attempt it has in hand.
PlaceTells(w, a) ==
    LET state == attempts[a].state IN
    /\ InHand(w) /\ Live(w) => permits[worker[w].call].state # "disputed"
    /\ worker[w].pc = "sending" => state \in {"dispatching", "cancelled"} /\ sent[a] = 0
    /\ worker[w].pc = "crossed" =>
         /\ Live(w) /\ permits[worker[w].call].crossed
         /\ state = "dispatching" /\ sent[a] = 0
    /\ worker[w].pc = "answered" =>
         IF worker[w].answer = "known_failure" THEN state \in {"dispatching", "cancelled"}
         ELSE /\ state = "dispatching"
              /\ worker[w].answer \in {"bad_reply", "unknown"} \cup Costs
              /\ Live(w) => permits[worker[w].call].crossed
    /\ worker[w].pc = "recorded" =>
         state = "succeeded" /\ records[worker[w].call] = a /\ worker[w].answer \in Costs
    /\ worker[w].pc = "outcome" =>
         /\ Live(w) /\ worker[w].answer \in PermitOutcomes
         /\ state \in ToldBy(worker[w].answer)
         /\ state = "dispatching" => permits[worker[w].call].crossed

WorkerTells(w) ==
    LET a == worker[w].attempt IN
    worker[w].pc # "idle" =>
      /\ a \in DOMAIN attempts
      /\ attempts[a].call = worker[w].call /\ attempts[a].owner = worker[w].session
      /\ attempts[a].token = worker[w].token
      /\ PlaceTells(w, a)

\* Two workers have no attempt in hand at once.
HandsDiffer(v, w) ==
    v # w /\ InHand(v) /\ InHand(w) => worker[v].attempt # worker[w].attempt

HandsTell ==
    /\ \A a \in DOMAIN attempts : AttemptTells(a)
    /\ \A a \in 1..MaxCalls : a > Len(attempts) => sent[a] = 0
    /\ \A c \in Calls : PermitTells(c)
    /\ \A w \in Workers : WorkerTells(w)
    /\ \A v, w \in Workers : HandsDiffer(v, w)

DispatchInv == Typed /\ OrderTells /\ HandsTell

(***************************************************************************)
(* What the parts of a step change                                         *)
(***************************************************************************)

\* The bounds are numbers, and the clock begins at one.
LEMMA BoundsAreNumbers ==
    /\ MaxCalls \in Nat /\ CostCap \in Nat /\ Reserve \in Nat /\ MaxAuths \in Nat
    /\ MaxTakes \in Nat /\ MaxTime \in Nat /\ MaxTime > 0
    /\ LeaseTtl \in Nat /\ GrantTtl \in Nat /\ AuthTtl \in Nat /\ PermitTtl \in Nat
    /\ Within \in Nat /\ Beyond \in Nat
  BY CostsAssumption

\* Some numbers have a least one.
LEMMA LeastNumber ==
    ASSUME NEW S \in SUBSET Nat, S # {}
    PROVE  \E n \in S : \A m \in S : n <= m
<1>1. PICK n \in S : \A m \in S : ~(<<m, n>> \in OpToRel(<, Nat))
  BY NatLessThanWellFounded, WFMin
<1>2. \A m \in S : ~(m < n)
  BY <1>1 DEF OpToRel
<1> QED BY <1>2

\* The greatest of some numbers is one of them.
LEMMA GreatestOf ==
    ASSUME NEW n \in Nat, NEW S \in SUBSET (0..n), S # {}
    PROVE  Max(S) \in S /\ \A x \in S : Max(S) >= x
<1> DEFINE Below == {n - x : x \in S}
<1>1. Below \in SUBSET Nat /\ Below # {}
  <2>1. PICK x \in S : TRUE
    OBVIOUS
  <2>2. n - x \in Below
    OBVIOUS
  <2>3. \A y \in S : n - y \in Nat
    OBVIOUS
  <2> QED BY <2>2, <2>3
<1>2. PICK y \in Below : \A z \in Below : y <= z
  <2> HIDE DEF Below
  <2> QED BY <1>1, LeastNumber
<1>3. \A z \in Below : z >= y
  BY <1>1, <1>2
<1>4. PICK m \in S : y = n - m
  OBVIOUS
<1>5. \A x \in S : m >= x
  BY <1>3, <1>4, SMT
<1> QED BY <1>5 DEF Max

\* The latest attempt of a call that has one.
LEMMA LatestTells ==
    ASSUME Typed, NEW c \in Calls, NEW b \in DOMAIN attempts, attempts[b].call = c
    PROVE  /\ Latest(c) \in DOMAIN attempts /\ attempts[Latest(c)].call = c
           /\ \A a \in DOMAIN attempts : attempts[a].call = c => a <= Latest(c)
<1> DEFINE S == OfCall(c)
<1>1. Len(attempts) \in Nat /\ S \in SUBSET (0..Len(attempts)) /\ b \in S
  BY DEF Typed, LedgerTyped, OfCall
<1>2. Max(S) \in S /\ \A x \in S : Max(S) >= x
  <2> HIDE DEF S
  <2> QED BY <1>1, GreatestOf
<1>3. Max(S) \in Nat /\ S \subseteq Nat
  BY <1>1, <1>2
<1> QED BY <1>2, <1>3 DEF Latest, OfCall

OthersStay(w) == \A v \in Workers : v # w => worker'[v] = worker[v]

\* The worker keeps its attempt and goes to another place.
Moved(w, place, answer) ==
    /\ WorkersTyped' /\ OthersStay(w)
    /\ worker'[w].pc = place /\ worker'[w].answer = answer
    /\ worker'[w].call = worker[w].call /\ worker'[w].attempt = worker[w].attempt
    /\ worker'[w].session = worker[w].session /\ worker'[w].token = worker[w].token

\* The worker has nothing any more.
Dropped(w) == WorkersTyped' /\ OthersStay(w) /\ worker'[w].pc = "idle"

LEMMA MovesWorker ==
    ASSUME Typed, NEW w \in Workers, NEW place \in Places, NEW answer \in Answers
    PROVE  /\ Goes(w, place) => Moved(w, place, worker[w].answer)
           /\ worker' = [worker EXCEPT ![w].pc = place, ![w].answer = answer] =>
                Moved(w, place, answer)
           /\ Leaves(w) => Dropped(w)
<1> USE DEF Typed, WorkersTyped
<1>1. ASSUME NEW row \in WorkerRow, worker' = [worker EXCEPT ![w] = row]
      PROVE  WorkersTyped' /\ OthersStay(w) /\ worker'[w] = row
  BY <1>1 DEF OthersStay
<1>2. worker[w] \in WorkerRow
  OBVIOUS
<1>3. ASSUME Goes(w, place)
      PROVE  Moved(w, place, worker[w].answer)
  <2> DEFINE row == [worker[w] EXCEPT !.pc = place]
  <2>1. row \in WorkerRow
    BY <1>2 DEF WorkerRow
  <2>2. worker' = [worker EXCEPT ![w] = row]
    BY <1>3 DEF Goes
  <2>3. WorkersTyped' /\ OthersStay(w) /\ worker'[w] = row
    <3> HIDE DEF row
    <3> QED BY <1>1, <2>1, <2>2
  <2> QED BY <1>2, <2>3 DEF Moved, WorkerRow
<1>4. ASSUME worker' = [worker EXCEPT ![w].pc = place, ![w].answer = answer]
      PROVE  Moved(w, place, answer)
  <2> DEFINE row == [worker[w] EXCEPT !.pc = place, !.answer = answer]
  <2>1. row \in WorkerRow
    BY <1>2 DEF WorkerRow
  <2>2. worker' = [worker EXCEPT ![w] = row]
    BY <1>4
  <2>3. WorkersTyped' /\ OthersStay(w) /\ worker'[w] = row
    <3> HIDE DEF row
    <3> QED BY <1>1, <2>1, <2>2
  <2> QED BY <1>2, <2>3 DEF Moved, WorkerRow
<1>5. ASSUME Leaves(w)
      PROVE  Dropped(w)
  <2> DEFINE row == Idle(worker[w].session)
  <2>1. row \in WorkerRow /\ row.pc = "idle"
    <3>1. worker[w].session \in Sessions /\ 0 \in 0..MaxTakes /\ 0 \in 0..MaxCalls
      BY <1>2, BoundsAreNumbers DEF WorkerRow
    <3>2. "none" \in Answers /\ "idle" \in Places
      BY DEF Answers, Places
    <3> QED BY <3>1, <3>2 DEF WorkerRow, Idle
  <2>2. worker' = [worker EXCEPT ![w] = row]
    BY <1>5 DEF Leaves
  <2>3. WorkersTyped' /\ OthersStay(w) /\ worker'[w] = row
    <3> HIDE DEF row
    <3> QED BY <1>1, <2>1, <2>2
  <2> QED BY <2>1, <2>3 DEF Dropped
<1> QED BY <1>3, <1>4, <1>5

LEMMA ConcludesWorker ==
    ASSUME Typed, NEW w \in Workers, NEW outcome \in PermitOutcomes, Concludes(w, outcome)
    PROVE  IF Live(w) THEN Moved(w, "outcome", outcome) ELSE Dropped(w)
<1>1. outcome \in Answers /\ "outcome" \in Places
  BY DEF Answers, Places
<1> QED BY <1>1, MovesWorker DEF Concludes

\* An attempt keeps what identifies it.
SameAttempt(b) ==
    /\ attempts'[b].call = attempts[b].call /\ attempts'[b].owner = attempts[b].owner
    /\ attempts'[b].token = attempts[b].token

\* One attempt is in another state, and its call's claim with it.
Turned(a, state, claim) ==
    /\ attempts' \in Seq(AttemptRow) /\ Len(attempts') = Len(attempts)
    /\ DOMAIN attempts' = DOMAIN attempts
    /\ \A b \in DOMAIN attempts : SameAttempt(b) /\ (b # a => attempts'[b] = attempts[b])
    /\ attempts'[a].state = state
    /\ attempts'[a].at = IF state \in {"dispatching", "unknown"} THEN clock ELSE attempts[a].at
    /\ claims' \in [Calls -> ClaimStates]
    /\ \A c \in Calls : claims'[c] = IF c = attempts[a].call THEN claim ELSE claims[c]

LEMMA TurnsAttempt ==
    ASSUME Typed, NEW a \in DOMAIN attempts, NEW state \in AttemptStates,
           NEW claim \in ClaimStates, NEW row \in AttemptRow,
           attempts' = [attempts EXCEPT ![a] = row],
           claims' = [claims EXCEPT ![attempts[a].call] = claim],
           row.call = attempts[a].call, row.owner = attempts[a].owner,
           row.token = attempts[a].token, row.state = state,
           row.at = IF state \in {"dispatching", "unknown"} THEN clock ELSE attempts[a].at
    PROVE  Turned(a, state, claim)
<1> USE DEF Typed, LedgerTyped
<1>1. attempts \in Seq(AttemptRow) /\ DOMAIN attempts = 1..Len(attempts)
      /\ attempts[a] \in AttemptRow /\ Len(attempts) \in Nat
  OBVIOUS
<1>2. attempts' \in Seq(AttemptRow) /\ Len(attempts') = Len(attempts)
      /\ DOMAIN attempts' = DOMAIN attempts
  BY <1>1
<1>3. attempts'[a] = row /\ \A b \in DOMAIN attempts : b # a => attempts'[b] = attempts[b]
  BY <1>1
<1>4. attempts[a].call \in Calls
  BY <1>1 DEF AttemptRow
<1>5. claims' \in [Calls -> ClaimStates]
      /\ \A c \in Calls : claims'[c] = IF c = attempts[a].call THEN claim ELSE claims[c]
  BY <1>4
<1> QED BY <1>2, <1>3, <1>5 DEF Turned, SameAttempt

LEMMA MovesTurn ==
    ASSUME Typed, NEW a \in DOMAIN attempts, NEW state \in AttemptStates,
           NEW claim \in ClaimStates, Moves(a, state, claim)
    PROVE  Turned(a, state, claim)
<1> DEFINE at == IF state \in {"dispatching", "unknown"} THEN clock ELSE attempts[a].at
           row == [attempts[a] EXCEPT !.state = state, !.at = at]
<1>1. attempts[a] \in AttemptRow /\ clock \in Nat
  BY BoundsAreNumbers DEF Typed, LedgerTyped, RunTyped
<1>2. row \in AttemptRow
  BY <1>1 DEF AttemptRow
<1>3. attempts' = [attempts EXCEPT ![a] = row]
  BY DEF Moves
<1>4. /\ row.call = attempts[a].call /\ row.owner = attempts[a].owner
      /\ row.token = attempts[a].token /\ row.state = state /\ row.at = at
  BY <1>1 DEF AttemptRow
<1>5. claims' = [claims EXCEPT ![attempts[a].call] = claim]
  BY DEF Moves
<1> HIDE DEF row
<1> QED BY <1>2, <1>3, <1>4, <1>5, TurnsAttempt

\* A call has one attempt more, and is claimed.
Added(s, c) ==
    /\ attempts' \in Seq(AttemptRow) /\ Len(attempts') = Len(attempts) + 1
    /\ Len(attempts') <= MaxCalls
    /\ \A b \in DOMAIN attempts : attempts'[b] = attempts[b]
    /\ LET a == Len(attempts') IN
       /\ attempts'[a].call = c /\ attempts'[a].owner = s /\ attempts'[a].token = lease.token
       /\ attempts'[a].state = "reserved" /\ attempts'[a].at = 0
    /\ claims' \in [Calls -> ClaimStates]
    /\ \A d \in Calls : claims'[d] = IF d = c THEN "claimed" ELSE claims[d]
    /\ usage' \in [dispatches : 0..MaxCalls, reserved : Int, settled : Int, released : Int]
    /\ usage'.dispatches = Len(attempts')

LEMMA AddsAttempt ==
    ASSUME Typed, LeaseTells, NEW s \in Sessions, NEW c \in Calls, Alive(lease.expires),
           Room, NewAttempt(s, c)
    PROVE  Added(s, c)
<1> DEFINE row == [call |-> c, owner |-> s, token |-> lease.token, state |-> "reserved",
                   at |-> 0, actual |-> 0]
<1>1. lease.token \in 1..MaxTakes
  BY BoundsAreNumbers DEF Typed, RunTyped, LeaseTells, Alive
<1>2. row \in AttemptRow
  BY <1>1 DEF AttemptRow, AttemptStates
<1>3. attempts' = Append(attempts, row)
  BY DEF NewAttempt
<1>4. attempts \in Seq(AttemptRow) /\ Len(attempts) \in Nat /\ DOMAIN attempts = 1..Len(attempts)
  BY DEF Typed, LedgerTyped
<1>5. /\ attempts' \in Seq(AttemptRow) /\ Len(attempts') = Len(attempts) + 1
      /\ attempts'[Len(attempts')] = row
      /\ \A b \in DOMAIN attempts : attempts'[b] = attempts[b]
  <2> HIDE DEF row
  <2> QED BY <1>2, <1>3, <1>4
<1>6. /\ usage' \in [dispatches : 0..MaxCalls, reserved : Int, settled : Int, released : Int]
      /\ usage'.dispatches = usage.dispatches + 1
  <2> DEFINE new == [usage EXCEPT !.dispatches = @ + 1, !.reserved = @ + Reserve]
  <2>1. usage.dispatches \in Nat /\ usage.dispatches < MaxCalls /\ usage.reserved \in Int
    BY BoundsAreNumbers DEF Typed, LedgerTyped, Room
  <2>2. usage.dispatches + 1 \in 0..MaxCalls /\ usage.reserved + Reserve \in Int
    BY <2>1, BoundsAreNumbers
  <2>3. new \in [dispatches : 0..MaxCalls, reserved : Int, settled : Int, released : Int]
        /\ new.dispatches = usage.dispatches + 1
    BY <2>2 DEF Typed, LedgerTyped
  <2>4. usage' = new
    BY DEF NewAttempt
  <2> HIDE DEF new
  <2> QED BY <2>3, <2>4
<1>7. Len(attempts') <= MaxCalls /\ usage'.dispatches = Len(attempts')
  BY <1>4, <1>5, <1>6 DEF Typed, LedgerTyped
<1>8. claims' \in [Calls -> ClaimStates]
      /\ \A d \in Calls : claims'[d] = IF d = c THEN "claimed" ELSE claims[d]
  BY DEF NewAttempt, Typed, LedgerTyped, ClaimStates
<1>9. /\ row.call = c /\ row.owner = s /\ row.token = lease.token
      /\ row.state = "reserved" /\ row.at = 0
  OBVIOUS
<1> HIDE DEF row
<1> QED BY <1>5, <1>6, <1>7, <1>8, <1>9 DEF Added

(***************************************************************************)
(* Who has what in hand                                                    *)
(***************************************************************************)

\* A step disturbs one attempt at most, and its call's permit and record.
OnlyDisturbs(a) ==
    /\ DOMAIN attempts' = DOMAIN attempts /\ Len(attempts') = Len(attempts)
    /\ \A b \in DOMAIN attempts :
         /\ SameAttempt(b)
         /\ permits[attempts[b].call].crossed => permits'[attempts[b].call].crossed
         /\ b # a => /\ attempts'[b].state = attempts[b].state
                     /\ attempts[b].call \in LiveCalls =>
                          permits'[attempts[b].call] = permits[attempts[b].call]
    /\ \A b \in 1..MaxCalls : b # a => sent'[b] = sent[b]
    /\ \A c \in Calls : records[c] # 0 => records'[c] = records[c]
    /\ \A c \in Calls : permits'[c].attempt = permits[c].attempt
                        /\ (permits'[c].state # "none" => permits[c].state # "none")

\* What is known of the parts of an attempt that is in the ledger.
LEMMA AttemptIsTyped ==
    ASSUME Typed, NEW a \in DOMAIN attempts
    PROVE  /\ attempts[a] \in AttemptRow /\ a \in 1..MaxCalls /\ a \in 1..Len(attempts)
           /\ attempts[a].call \in Calls /\ attempts[a].owner \in Sessions
           /\ attempts[a].state \in AttemptStates /\ attempts[a].at \in Nat
           /\ attempts[a].token \in 1..MaxTakes /\ attempts[a].token \in Nat
           /\ sent[a] \in Nat
<1>1. Len(attempts) \in 0..MaxCalls /\ attempts \in Seq(AttemptRow) /\ sent \in [1..MaxCalls -> Nat]
  BY DEF Typed, LedgerTyped
<1>2. DOMAIN attempts = 1..Len(attempts) /\ attempts[a] \in AttemptRow
  BY <1>1
<1>3. a \in 1..MaxCalls
  BY <1>1, <1>2, BoundsAreNumbers
<1> QED BY <1>1, <1>2, <1>3, BoundsAreNumbers DEF AttemptRow

LEMMA WorkerIsTyped ==
    ASSUME Typed, NEW w \in Workers
    PROVE  /\ worker[w].session \in Sessions /\ worker[w].pc \in Places
           /\ worker[w].attempt \in Nat /\ worker[w].answer \in Answers
           /\ worker[w].token \in 0..MaxTakes
<1>1. worker[w] \in WorkerRow
  BY DEF Typed, WorkersTyped
<1> QED BY <1>1, BoundsAreNumbers DEF WorkerRow

\* The other attempts of a step that disturbs one.
LEMMA OtherAttempts ==
    ASSUME DispatchInv, NEW a, OnlyDisturbs(a), NEW b \in DOMAIN attempts, b # a
    PROVE  AttemptTells(b)'
<1>1. /\ AttemptTells(b) /\ SameAttempt(b) /\ attempts'[b].state = attempts[b].state
      /\ attempts[b].call \in LiveCalls =>
           permits'[attempts[b].call] = permits[attempts[b].call]
  BY DEF DispatchInv, HandsTell, OnlyDisturbs
<1>2. sent'[b] = sent[b]
  BY AttemptIsTyped DEF OnlyDisturbs, DispatchInv
<1> QED BY <1>1, <1>2 DEF AttemptTells, LiveTells, SameAttempt

\* The other workers of a step that disturbs nothing they have in hand.
LEMMA OtherWorkers ==
    ASSUME DispatchInv, NEW a, OnlyDisturbs(a), NEW v \in Workers, worker'[v] = worker[v],
           InHand(v) => worker[v].attempt # a
    PROVE  WorkerTells(v)'
<1> DEFINE b == worker[v].attempt
<1>1. WorkerTells(v)
  BY DEF DispatchInv, HandsTell
<1>2. SUFFICES ASSUME worker[v].pc # "idle"
               PROVE  WorkerTells(v)'
  BY <1>1 DEF WorkerTells
<1>3. /\ b \in DOMAIN attempts /\ attempts[b].call = worker[v].call
      /\ attempts[b].owner = worker[v].session /\ attempts[b].token = worker[v].token
      /\ PlaceTells(v, b)
  BY <1>1, <1>2 DEF WorkerTells
<1>4. b \in DOMAIN attempts' /\ SameAttempt(b)
      /\ (permits[attempts[b].call].crossed => permits'[attempts[b].call].crossed)
  BY <1>3 DEF OnlyDisturbs
<1>5. PlaceTells(v, b)'
  <2>1. CASE ~InHand(v)
    BY <2>1 DEF InHand, Hands, PlaceTells
  <2>2. CASE InHand(v)
    <3>1. b # a /\ attempts'[b].state = attempts[b].state
      BY <1>3, <2>2 DEF OnlyDisturbs
    <3>2. sent'[b] = sent[b] /\ attempts[b].call \in Calls /\ b # 0
      BY <1>3, <3>1, AttemptIsTyped DEF OnlyDisturbs, DispatchInv
    <3>3. records[worker[v].call] = b => records'[worker[v].call] = b
      BY <1>3, <3>2 DEF OnlyDisturbs
    <3>4. Live(v) => permits'[worker[v].call].state = permits[worker[v].call].state
      BY <1>3, <3>1 DEF OnlyDisturbs, Live
    <3>5. /\ worker'[v] = worker[v] /\ InHand(v)' = InHand(v) /\ Live(v)' = Live(v)
          /\ permits[worker[v].call].crossed => permits'[worker[v].call].crossed
      BY <1>3, <1>4 DEF InHand, Live
    <3>6. worker[v].pc = "recorded" => records'[worker[v].call] = b
      BY <1>3, <3>3 DEF PlaceTells
    <3>7. b' = b
      BY <3>5
    <3> HIDE DEF b
    <3> QED BY <1>3, <3>1, <3>2, <3>4, <3>5, <3>6, <3>7 DEF PlaceTells
  <2> QED BY <2>1, <2>2
<1> QED BY <1>3, <1>4, <1>5 DEF WorkerTells, SameAttempt

\* A step of one worker that has nobody else's attempt.
LEMMA HandsStep ==
    ASSUME DispatchInv, NEW a, NEW w \in Workers, OnlyDisturbs(a), OthersStay(w),
           \A v \in Workers : v # w /\ InHand(v) => worker[v].attempt # a,
           a \in DOMAIN attempts => AttemptTells(a)',
           \A b \in 1..MaxCalls : b > Len(attempts) => sent'[b] = sent[b],
           WorkerTells(w)', InHand(w)' => worker'[w].attempt = a
    PROVE  HandsTell'
<1>1. \A b \in DOMAIN attempts' : AttemptTells(b)'
  <2> TAKE b \in DOMAIN attempts'
  <2>1. b \in DOMAIN attempts
    BY DEF OnlyDisturbs
  <2> QED BY <2>1, OtherAttempts
<1>2. \A b \in 1..MaxCalls : b > Len(attempts') => sent'[b] = 0
  BY DEF OnlyDisturbs, DispatchInv, HandsTell
<1>3. \A c \in Calls : PermitTells(c)'
  BY DEF OnlyDisturbs, DispatchInv, HandsTell, PermitTells, SameAttempt
<1>4. \A v \in Workers : WorkerTells(v)'
  BY OtherWorkers DEF OthersStay
<1>5. \A u, v \in Workers : HandsDiffer(u, v)'
  <2> TAKE u, v \in Workers
  <2>1. HandsDiffer(u, v)
    BY DEF DispatchInv, HandsTell
  <2>2. \A x \in Workers : x # w => worker'[x] = worker[x]
    BY DEF OthersStay
  <2> QED BY <2>1, <2>2 DEF HandsDiffer, InHand
<1> QED BY <1>1, <1>2, <1>3, <1>4, <1>5 DEF HandsTell

\* Most steps leave the attempts and all that hangs on them alone.
LEMMA HandsStay ==
    ASSUME DispatchInv, UNCHANGED <<attempts, permits, records, sent>>, NEW w \in Workers,
           OthersStay(w), WorkerTells(w)', InHand(w)' => InHand(w)
    PROVE  (InHand(w)' => worker'[w].attempt = worker[w].attempt) => HandsTell'
<1> PICK a : a = IF InHand(w) THEN worker[w].attempt ELSE 0
  OBVIOUS
<1> SUFFICES ASSUME InHand(w)' => worker'[w].attempt = worker[w].attempt
             PROVE  HandsTell'
  OBVIOUS
<1>1. OnlyDisturbs(a)
  BY DEF OnlyDisturbs, SameAttempt
<1>2. \A v \in Workers : v # w /\ InHand(v) => worker[v].attempt # a
  <2> TAKE v \in Workers
  <2>1. InHand(v) => worker[v].attempt # 0
    BY AttemptIsTyped DEF DispatchInv, HandsTell, WorkerTells, InHand, Hands
  <2>2. HandsDiffer(v, w)
    BY DEF DispatchInv, HandsTell
  <2> QED BY <2>1, <2>2 DEF HandsDiffer
<1>3. a \in DOMAIN attempts => AttemptTells(a)'
  BY DEF DispatchInv, HandsTell, AttemptTells, LiveTells
<1>4. \A b \in 1..MaxCalls : b > Len(attempts) => sent'[b] = sent[b]
  OBVIOUS
<1>5. InHand(w)' => worker'[w].attempt = a
  OBVIOUS
<1> QED BY <1>1, <1>2, <1>3, <1>4, <1>5, HandsStep

\* Steps that change no more than the run, the grant and the authorizations.
LEMMA NothingInHandMoves ==
    ASSUME DispatchInv, UNCHANGED <<attempts, permits, records, worker, sent>>
    PROVE  HandsTell'
  BY DEF DispatchInv, HandsTell, AttemptTells, LiveTells, PermitTells, WorkerTells, PlaceTells,
         HandsDiffer, InHand, Live

(***************************************************************************)
(* Retries and tokens                                                      *)
(***************************************************************************)
LEMMA OrderStays ==
    ASSUME OrderTells, UNCHANGED <<attempts, claims, retries, clock, status, lease>>
    PROVE  OrderTells'
  BY DEF OrderTells, LeaseTells, TokenTells, PairTells, ClaimTells, Overtaken, Alive

\* Only the holder of the lease moves an attempt.
LEMMA OrderTurns ==
    ASSUME DispatchInv, NEW a \in DOMAIN attempts, NEW state, NEW claim, claim # "none",
           Turned(a, state, claim), Alive(lease.expires), attempts[a].token = lease.token,
           UNCHANGED <<retries, clock, status, lease>>
    PROVE  OrderTells'
<1> USE DEF DispatchInv
<1>1. clock \in Nat /\ clock > 0 /\ lease.token \in Nat
  BY BoundsAreNumbers DEF Typed, RunTyped
<1>2. \A c \in Calls : retries[c] \in Nat /\ retries[c] < clock
  BY DEF Typed, LedgerTyped, OrderTells, LeaseTells
<1>3. ~Overtaken(a)
  BY <1>1 DEF OrderTells, TokenTells
<1>4. ~Overtaken(a)'
  <2>1. attempts'[a].at = clock \/ attempts'[a].at = attempts[a].at
    BY DEF Turned
  <2>2. attempts'[a].call = attempts[a].call /\ attempts[a].call \in Calls
    BY AttemptIsTyped DEF Turned, SameAttempt
  <2> QED BY <1>1, <1>2, <1>3, <2>1, <2>2 DEF Overtaken
<1>5. /\ DOMAIN attempts' = DOMAIN attempts
      /\ \A b \in DOMAIN attempts : SameAttempt(b) /\ (Overtaken(b)' <=> Overtaken(b))
  <2>1. DOMAIN attempts' = DOMAIN attempts
    BY DEF Turned
  <2>2. ASSUME NEW b \in DOMAIN attempts
        PROVE  SameAttempt(b) /\ (Overtaken(b)' <=> Overtaken(b))
    <3>1. SameAttempt(b) /\ (b # a => attempts'[b] = attempts[b])
      BY DEF Turned
    <3> QED BY <1>3, <1>4, <3>1 DEF Overtaken
  <2> QED BY <2>1, <2>2
<1>6. LeaseTells'
  BY DEF OrderTells, LeaseTells, Alive
<1>7. \A b \in DOMAIN attempts' : TokenTells(b)'
  BY <1>5 DEF OrderTells, TokenTells, SameAttempt, Alive
<1>8. \A b, d \in DOMAIN attempts' : PairTells(b, d)'
  BY <1>5 DEF OrderTells, PairTells, SameAttempt
<1>9. \A c \in Calls : ClaimTells(c)'
  <2> TAKE c \in Calls
  <2>1. ClaimTells(c) /\ claims'[c] = IF c = attempts[a].call THEN claim ELSE claims[c]
    BY DEF OrderTells, Turned
  <2> QED BY <1>5, <2>1 DEF ClaimTells, SameAttempt
<1> QED BY <1>6, <1>7, <1>8, <1>9 DEF OrderTells

\* A call's first attempt, or the one a retry was decided for.
LEMMA OrderAdds ==
    ASSUME DispatchInv, NEW s \in Sessions, NEW c \in Calls, Alive(lease.expires), Added(s, c),
           claims[c] = "none" \/ (c \notin LiveCalls /\ claims[c] # "none" /\ Decided(c)),
           UNCHANGED <<retries, clock, status, lease>>
    PROVE  OrderTells'
<1> USE DEF DispatchInv
<1> PICK n : n = Len(attempts')
  OBVIOUS
<1>1. /\ n = Len(attempts) + 1 /\ Len(attempts) \in Nat /\ lease.token \in Nat
      /\ DOMAIN attempts = 1..Len(attempts) /\ DOMAIN attempts' = 1..n
      /\ \A b \in DOMAIN attempts : attempts'[b] = attempts[b] /\ b < n /\ n # b
      /\ attempts'[n].call = c /\ attempts'[n].token = lease.token /\ attempts'[n].at = 0
      /\ \A d \in Calls : claims'[d] = IF d = c THEN "claimed" ELSE claims[d]
  <2>1. attempts \in Seq(AttemptRow) /\ attempts' \in Seq(AttemptRow)
    BY DEF Added, Typed, LedgerTyped
  <2>2. /\ Len(attempts) \in Nat /\ n = Len(attempts) + 1 /\ DOMAIN attempts = 1..Len(attempts)
        /\ DOMAIN attempts' = 1..n
    BY <2>1 DEF Added
  <2>3. lease.token \in Nat
    BY BoundsAreNumbers DEF Typed, RunTyped
  <2> QED BY <2>2, <2>3 DEF Added
<1>2. \A b \in DOMAIN attempts' : b \in DOMAIN attempts \/ b = n
  BY <1>1
<1>3. ~Overtaken(n)'
  BY <1>1 DEF Overtaken
<1>4. \A b \in DOMAIN attempts : Overtaken(b)' <=> Overtaken(b)
  BY <1>1 DEF Overtaken
<1>5. \A b \in DOMAIN attempts : attempts[b].call = c => Overtaken(b) /\ c \notin LiveCalls
  <2> SUFFICES ASSUME NEW b \in DOMAIN attempts, attempts[b].call = c
               PROVE  Overtaken(b) /\ c \notin LiveCalls
    OBVIOUS
  <2>1. claims[c] # "none"
    BY DEF OrderTells, ClaimTells
  <2>2. c \notin LiveCalls /\ Decided(c)
    BY <2>1
  <2>3. /\ Latest(c) \in DOMAIN attempts /\ attempts[Latest(c)].call = c /\ b <= Latest(c)
    BY LatestTells
  <2>4. Overtaken(Latest(c))
    BY <2>2, <2>3, AttemptIsTyped DEF Decided, Overtaken, Typed, LedgerTyped
  <2>5. b = Latest(c)
    <3>1. PairTells(b, Latest(c))
      BY <2>3 DEF OrderTells
    <3>2. b \in Nat /\ Latest(c) \in Nat
      BY <1>1, <2>3
    <3> QED BY <2>3, <2>4, <3>1, <3>2 DEF PairTells
  <2> QED BY <2>2, <2>4, <2>5
<1>6. LeaseTells'
  BY DEF OrderTells, LeaseTells, Alive
<1>7. ASSUME NEW b \in DOMAIN attempts'
      PROVE  TokenTells(b)'
  <2>1. CASE b = n
    BY <1>1, <1>3, <2>1 DEF TokenTells
  <2>2. CASE b \in DOMAIN attempts
    BY <1>1, <1>4, <2>2 DEF OrderTells, TokenTells, Alive
  <2> QED BY <1>2, <2>1, <2>2
<1>8. ASSUME NEW b \in DOMAIN attempts', NEW d \in DOMAIN attempts'
      PROVE  PairTells(b, d)'
  <2>1. CASE b = n
    BY <1>1, <1>2, <2>1 DEF PairTells
  <2>2. CASE b \in DOMAIN attempts /\ d = n
    BY <1>1, <1>3, <1>4, <1>5, <2>2 DEF PairTells
  <2>3. CASE b \in DOMAIN attempts /\ d \in DOMAIN attempts
    BY <1>1, <1>4, <2>3 DEF OrderTells, PairTells
  <2> QED BY <1>2, <2>1, <2>2, <2>3
<1>9. ASSUME NEW d \in Calls
      PROVE  ClaimTells(d)'
  <2>1. ClaimTells(d)
    BY DEF OrderTells
  <2>2. n \in DOMAIN attempts'
    BY <1>1
  <2>3. CASE d = c
    BY <1>1, <2>2, <2>3 DEF ClaimTells
  <2>4. CASE d # c
    BY <1>1, <1>2, <2>1, <2>4 DEF ClaimTells
  <2> QED BY <2>3, <2>4
<1> QED BY <1>6, <1>7, <1>8, <1>9 DEF OrderTells

\* Time passes, the run is paused and resumed, its lease is taken, and
\* retries are decided on while there is none.
LEMMA OrderOfTheRun ==
    ASSUME DispatchInv, UNCHANGED <<attempts, claims>>,
           \/ Tick \/ Resume
           \/ Paused /\ UNCHANGED <<clock, retries>>
           \/ \E c \in Calls : DecideRetry(c)
           \/ \E s \in Sessions, ttl \in 1..LeaseTtl : TakeLease(s, ttl)
    PROVE  OrderTells'
<1> USE DEF DispatchInv
<1>0. /\ clock \in Nat /\ clock > 0 /\ lease.token \in Nat /\ lease.expires \in Nat
      /\ \A c \in Calls : retries[c] \in Nat
      /\ lease \in [owner : Sessions \cup {NoOne}, token : 0..MaxTakes, expires : Nat]
  BY BoundsAreNumbers DEF Typed, RunTyped, LedgerTyped
<1>1. /\ \A c \in Calls : ClaimTells(c)'
  BY DEF OrderTells, ClaimTells
<1>2. ASSUME UNCHANGED retries
      PROVE  /\ \A a \in DOMAIN attempts : Overtaken(a)' <=> Overtaken(a)
             /\ \A a, b \in DOMAIN attempts : PairTells(a, b)'
  BY <1>2 DEF OrderTells, PairTells, Overtaken
<1>3. CASE Tick
  <2>1. clock' = clock + 1 /\ UNCHANGED <<status, lease, retries>>
    BY <1>3 DEF Tick
  <2>2. Alive(lease.expires)' => Alive(lease.expires)
    BY <1>0, <2>1 DEF Alive
  <2>3. LeaseTells'
    BY <1>0, <2>1, <2>2 DEF OrderTells, LeaseTells
  <2>4. \A a \in DOMAIN attempts' : TokenTells(a)'
    BY <1>2, <2>1, <2>2 DEF OrderTells, TokenTells
  <2> QED BY <1>1, <1>2, <2>1, <2>3, <2>4 DEF OrderTells
<1>4. CASE Resume
  <2>1. /\ \A c \in Calls : retries[c] < clock
        /\ UNCHANGED <<clock, lease, retries>> /\ status' = "RUNNING"
    BY <1>4 DEF Resume
  <2>2. LeaseTells'
    BY <2>1 DEF OrderTells, LeaseTells
  <2>3. \A a \in DOMAIN attempts' : TokenTells(a)'
    BY <1>2, <2>1 DEF OrderTells, TokenTells, Alive
  <2> QED BY <1>1, <1>2, <2>1, <2>2, <2>3 DEF OrderTells
<1>5. ASSUME Paused, UNCHANGED <<clock, retries>>
      PROVE  OrderTells'
  <2>1. status' = "PAUSED" /\ lease'.expires = 0 /\ lease'.token = lease.token
    BY <1>0, <1>5 DEF Paused
  <2>2. ~Alive(lease.expires)'
    BY <1>0, <1>5, <2>1 DEF Alive
  <2>3. LeaseTells'
    BY <2>1, <2>2 DEF LeaseTells
  <2>4. \A a \in DOMAIN attempts' : TokenTells(a)'
    BY <2>1, <2>2 DEF OrderTells, TokenTells
  <2> QED BY <1>1, <1>2, <1>5, <2>3, <2>4 DEF OrderTells
<1>6. ASSUME NEW c \in Calls, DecideRetry(c)
      PROVE  OrderTells'
  <2>1. /\ status = "PAUSED" /\ retries[c] = 0 /\ UNCHANGED <<clock, status, lease>>
        /\ \A d \in Calls : d # c => retries'[d] = retries[d]
    BY <1>6 DEF DecideRetry, runVars, Typed, LedgerTyped
  <2>2. ~Alive(lease.expires) /\ ~Alive(lease.expires)'
    BY <2>1 DEF OrderTells, LeaseTells, Alive
  <2>3. LeaseTells'
    BY <2>1, <2>2 DEF OrderTells, LeaseTells
  <2>4. \A a \in DOMAIN attempts' : TokenTells(a)'
    BY <2>1, <2>2 DEF OrderTells, TokenTells
  <2>5. ASSUME NEW a \in DOMAIN attempts, NEW b \in DOMAIN attempts
        PROVE  PairTells(a, b)'
    <3>1. attempts[a].call \in Calls /\ attempts[a].at \in Nat
      BY AttemptIsTyped
    <3>2. Overtaken(a) => retries'[attempts[a].call] = retries[attempts[a].call]
      BY <1>0, <2>1, <3>1 DEF Overtaken
    <3>3. PairTells(a, b)
      BY DEF OrderTells
    <3> QED BY <3>2, <3>3 DEF PairTells, Overtaken
  <2> QED BY <1>1, <2>3, <2>4, <2>5 DEF OrderTells
<1>7. ASSUME NEW s \in Sessions, NEW ttl \in 1..LeaseTtl, TakeLease(s, ttl)
      PROVE  OrderTells'
  <2>1. /\ status = "RUNNING" /\ UNCHANGED <<clock, status, retries>>
        /\ lease'.token = lease.token + 1
    BY <1>7 DEF TakeLease
  <2>2. LeaseTells'
    BY <1>0, <2>1 DEF OrderTells, LeaseTells
  <2>3. \A a \in DOMAIN attempts' : TokenTells(a)'
    <3> TAKE a \in DOMAIN attempts'
    <3>1. attempts[a].token <= lease.token /\ attempts[a].token \in Nat
      BY AttemptIsTyped DEF OrderTells, TokenTells
    <3> QED BY <1>0, <2>1, <3>1 DEF TokenTells
  <2> QED BY <1>1, <1>2, <2>1, <2>2, <2>3 DEF OrderTells
<1> QED BY <1>3, <1>4, <1>5, <1>6, <1>7

\* The next attempt of a call; that of a live call comes with its permit.
LEMMA HandsAdd ==
    ASSUME DispatchInv, NEW w \in Workers, NEW c \in Calls, Added(worker[w].session, c),
           UNCHANGED <<records, sent>>, OthersStay(w),
           worker'[w].pc = "claimed", worker'[w].call = c,
           worker'[w].session = worker[w].session,
           worker'[w].attempt = Len(attempts'), worker'[w].token = lease.token,
           \A d \in Calls : d # c => permits'[d] = permits[d],
           IF c \in LiveCalls
             THEN /\ claims[c] = "none"
                  /\ permits'[c].state = "ready" /\ permits'[c].attempt = Len(attempts')
                  /\ permits'[c].owner = worker[w].session /\ permits'[c].token = lease.token
             ELSE permits'[c] = permits[c]
    PROVE  HandsTell'
<1> USE DEF DispatchInv
<1> PICK n : n = Len(attempts')
  OBVIOUS
<1>1. /\ n = Len(attempts) + 1 /\ Len(attempts) \in Nat /\ n <= MaxCalls
      /\ DOMAIN attempts = 1..Len(attempts) /\ DOMAIN attempts' = 1..n
      /\ \A b \in DOMAIN attempts : attempts'[b] = attempts[b] /\ b \in DOMAIN attempts'
  <2>1. attempts \in Seq(AttemptRow) /\ attempts' \in Seq(AttemptRow)
    BY DEF Added, Typed, LedgerTyped
  <2> QED BY <2>1 DEF Added
<1>2. /\ attempts'[n].call = c /\ attempts'[n].owner = worker[w].session
      /\ attempts'[n].token = lease.token /\ attempts'[n].state = "reserved"
  BY DEF Added
<1>3. n \in 1..MaxCalls /\ n > Len(attempts) /\ n \in DOMAIN attempts'
  BY <1>1, BoundsAreNumbers
<1>4. sent'[n] = 0
  BY <1>3 DEF HandsTell
<1>5. c \in LiveCalls => \A b \in DOMAIN attempts : attempts[b].call # c
  BY DEF OrderTells, ClaimTells
<1>6. \A b \in DOMAIN attempts : permits'[attempts[b].call] = permits[attempts[b].call]
  BY <1>5, AttemptIsTyped
<1>7. ASSUME NEW b \in DOMAIN attempts'
      PROVE  AttemptTells(b)'
  <2>1. CASE b = n
    BY <1>2, <1>4, <2>1 DEF AttemptTells, LiveTells, PermitOutcomes
  <2>2. CASE b \in DOMAIN attempts
    BY <1>1, <1>6, <2>2 DEF HandsTell, AttemptTells, LiveTells
  <2> QED BY <1>1, <2>1, <2>2
<1>8. \A b \in 1..MaxCalls : b > Len(attempts') => sent'[b] = 0
  BY <1>1 DEF HandsTell
<1>9. ASSUME NEW d \in Calls
      PROVE  PermitTells(d)'
  <2>1. PermitTells(d)
    BY DEF HandsTell
  <2>2. CASE permits'[d] = permits[d]
    BY <1>1, <2>1, <2>2 DEF PermitTells
  <2>3. CASE d = c /\ c \in LiveCalls
    BY <1>2, <1>3, <2>3 DEF PermitTells
  <2> QED BY <2>2, <2>3
<1>10. ASSUME NEW v \in Workers
       PROVE  WorkerTells(v)'
  <2>1. CASE v = w
    BY <1>2, <1>3, <2>1 DEF WorkerTells, PlaceTells, InHand, Hands
  <2>2. CASE v # w
    <3>1. WorkerTells(v) /\ worker'[v] = worker[v]
      BY <2>2 DEF HandsTell, OthersStay
    <3>2. SUFFICES ASSUME worker[v].pc # "idle"
                   PROVE  WorkerTells(v)'
      BY <3>1 DEF WorkerTells
    <3> PICK b : b = worker[v].attempt
      OBVIOUS
    <3>3. b \in DOMAIN attempts /\ attempts[b].call = worker[v].call /\ PlaceTells(v, b)
      BY <3>1, <3>2 DEF WorkerTells
    <3>4. PlaceTells(v, b)'
      <4>1. /\ attempts'[b] = attempts[b] /\ worker'[v] = worker[v]
            /\ permits'[worker[v].call] = permits[worker[v].call]
            /\ records' = records /\ sent' = sent
        BY <1>1, <1>6, <3>1, <3>3
      <4> QED BY <3>3, <4>1 DEF PlaceTells, Live, InHand, Hands
    <3> QED BY <1>1, <3>1, <3>2, <3>3, <3>4 DEF WorkerTells
  <2> QED BY <2>1, <2>2
<1>11. \A u, v \in Workers : HandsDiffer(u, v)'
  BY DEF HandsTell, HandsDiffer, InHand, Hands, OthersStay
<1> QED BY <1>7, <1>8, <1>9, <1>10, <1>11 DEF HandsTell

\* A permit keeps what identifies it, and that its boundary was crossed.
SamePermit(c) ==
    /\ \A d \in Calls : d # c => permits'[d] = permits[d]
    /\ permits'[c].attempt = permits[c].attempt /\ permits'[c].owner = permits[c].owner
    /\ permits'[c].token = permits[c].token
    /\ permits[c].crossed => permits'[c].crossed
    /\ permits'[c].state # "none" => permits[c].state # "none"

LEMMA PermitTurns ==
    ASSUME Typed, NEW c \in Calls, NEW state \in PermitStates, permits[c].state # "none"
    PROVE  /\ permits' = [permits EXCEPT ![c].state = state] =>
                /\ permits' \in [Calls -> PermitRow] /\ SamePermit(c)
                /\ permits'[c].state = state /\ permits'[c].crossed = permits[c].crossed
           /\ permits' = [permits EXCEPT ![c].crossed = TRUE] =>
                /\ permits' \in [Calls -> PermitRow] /\ SamePermit(c)
                /\ permits'[c].state = permits[c].state /\ permits'[c].crossed
<1>1. permits \in [Calls -> PermitRow] /\ permits[c] \in PermitRow
  BY DEF Typed, LiveTyped
<1>2. ASSUME NEW row \in PermitRow, permits' = [permits EXCEPT ![c] = row]
      PROVE  /\ permits' \in [Calls -> PermitRow] /\ permits'[c] = row
             /\ \A d \in Calls : d # c => permits'[d] = permits[d]
  BY <1>1, <1>2
<1>3. ASSUME permits' = [permits EXCEPT ![c].state = state]
      PROVE  /\ permits' \in [Calls -> PermitRow] /\ SamePermit(c)
             /\ permits'[c].state = state /\ permits'[c].crossed = permits[c].crossed
  <2> DEFINE row == [permits[c] EXCEPT !.state = state]
  <2>1. /\ row \in PermitRow /\ row.state = state /\ row.crossed = permits[c].crossed
        /\ row.attempt = permits[c].attempt /\ row.owner = permits[c].owner
        /\ row.token = permits[c].token
    BY <1>1 DEF PermitRow
  <2>2. permits' = [permits EXCEPT ![c] = row]
    BY <1>3
  <2> HIDE DEF row
  <2> QED BY <1>2, <2>1, <2>2 DEF SamePermit
<1>4. ASSUME permits' = [permits EXCEPT ![c].crossed = TRUE]
      PROVE  /\ permits' \in [Calls -> PermitRow] /\ SamePermit(c)
             /\ permits'[c].state = permits[c].state /\ permits'[c].crossed
  <2> DEFINE row == [permits[c] EXCEPT !.crossed = TRUE]
  <2>1. /\ row \in PermitRow /\ row.state = permits[c].state /\ row.crossed
        /\ row.attempt = permits[c].attempt /\ row.owner = permits[c].owner
        /\ row.token = permits[c].token
    BY <1>1 DEF PermitRow
  <2>2. permits' = [permits EXCEPT ![c] = row]
    BY <1>4
  <2> HIDE DEF row
  <2> QED BY <1>2, <2>1, <2>2 DEF SamePermit
<1> QED BY <1>3, <1>4

\* A live call has one attempt, so that its permit is that attempt's alone.
LEMMA StepDisturbs ==
    ASSUME DispatchInv, NEW a \in DOMAIN attempts,
           DOMAIN attempts' = DOMAIN attempts, Len(attempts') = Len(attempts),
           \A b \in DOMAIN attempts : SameAttempt(b) /\ (b # a => attempts'[b] = attempts[b]),
           UNCHANGED permits \/ SamePermit(attempts[a].call),
           \A b \in 1..MaxCalls : b # a => sent'[b] = sent[b],
           \A c \in Calls : records[c] # 0 => records'[c] = records[c]
    PROVE  OnlyDisturbs(a)
<1> USE DEF DispatchInv
<1>1. ASSUME NEW b \in DOMAIN attempts, b # a, attempts[b].call \in LiveCalls
      PROVE  permits'[attempts[b].call] = permits[attempts[b].call]
  <2>1. PairTells(a, b) /\ PairTells(b, a)
    BY DEF OrderTells
  <2>2. a \in Nat /\ b \in Nat /\ attempts[b].call \in Calls
    BY AttemptIsTyped, BoundsAreNumbers
  <2>3. attempts[a].call # attempts[b].call
    BY <1>1, <2>1, <2>2 DEF PairTells
  <2> QED BY <2>2, <2>3 DEF SamePermit
<1>2. \A c \in Calls : permits'[c].attempt = permits[c].attempt
                       /\ (permits'[c].state # "none" => permits[c].state # "none")
                       /\ (permits[c].crossed => permits'[c].crossed)
  BY DEF SamePermit
<1> QED BY <1>1, <1>2, AttemptIsTyped DEF OnlyDisturbs

\* What a worker that is not idle knows of its attempt.
LEMMA WorkerHasAttempt ==
    ASSUME DispatchInv, NEW w \in Workers, worker[w].pc # "idle"
    PROVE  /\ worker[w].attempt \in DOMAIN attempts
           /\ attempts[worker[w].attempt].call = worker[w].call /\ worker[w].call \in Calls
           /\ attempts[worker[w].attempt].owner = worker[w].session
           /\ attempts[worker[w].attempt].token = worker[w].token
           /\ PlaceTells(w, worker[w].attempt)
           /\ AttemptTells(worker[w].attempt)
<1>1. WorkerTells(w)
  BY DEF DispatchInv, HandsTell
<1>2. worker[w].attempt \in DOMAIN attempts
  BY <1>1 DEF WorkerTells
<1>3. AttemptTells(worker[w].attempt)
  BY <1>2 DEF DispatchInv, HandsTell
<1>4. attempts[worker[w].attempt].call \in Calls
  BY <1>2, AttemptIsTyped DEF DispatchInv
<1> QED BY <1>1, <1>3, <1>4 DEF WorkerTells

NobodyElse(w, a) == \A v \in Workers : v # w /\ InHand(v) => worker[v].attempt # a

\* Who has an attempt in hand has it alone, and what was not started nobody has.
LEMMA HandsAreAlone ==
    ASSUME DispatchInv, NEW w \in Workers, worker[w].pc # "idle",
           InHand(w) \/ attempts[worker[w].attempt].state = "reserved"
    PROVE  NobodyElse(w, worker[w].attempt)
<1> SUFFICES ASSUME NEW v \in Workers, v # w, InHand(v)
             PROVE  worker[v].attempt # worker[w].attempt
  BY DEF NobodyElse
<1>1. HandsDiffer(v, w)
  BY DEF DispatchInv, HandsTell
<1>2. CASE InHand(w)
  BY <1>1, <1>2 DEF HandsDiffer
<1>3. CASE attempts[worker[w].attempt].state = "reserved"
  <2>1. PlaceTells(v, worker[v].attempt)
    BY WorkerHasAttempt DEF InHand, Hands
  <2> QED BY <1>3, <2>1 DEF PlaceTells, ToldBy, InHand, Hands, PermitOutcomes
<1> QED BY <1>2, <1>3

\* The attempt of a worker that owns the lease was not overtaken.
LEMMA OwnsLatest ==
    ASSUME DispatchInv, NEW w \in Workers, worker[w].pc # "idle",
           Alive(lease.expires), worker[w].token = lease.token
    PROVE  Latest(worker[w].call) = worker[w].attempt
<1> USE DEF DispatchInv
<1> PICK a, c : a = worker[w].attempt /\ c = worker[w].call
  OBVIOUS
<1>1. a \in DOMAIN attempts /\ attempts[a].call = c /\ attempts[a].token = lease.token
      /\ c \in Calls
  BY WorkerHasAttempt
<1>2. /\ Latest(c) \in DOMAIN attempts /\ attempts[Latest(c)].call = c
      /\ a <= Latest(c)
  BY <1>1, LatestTells
<1>3. PairTells(a, Latest(c)) /\ TokenTells(a)
  BY <1>1, <1>2 DEF OrderTells
<1>4. a \in Nat /\ Latest(c) \in Nat /\ lease.token \in Nat
  BY <1>1, <1>2, AttemptIsTyped, BoundsAreNumbers DEF Typed, RunTyped
<1>5. ~Overtaken(a)
  BY <1>1, <1>3, <1>4 DEF TokenTells
<1> QED BY <1>1, <1>2, <1>3, <1>4, <1>5 DEF PairTells

(***************************************************************************)
(* The workers' steps                                                      *)
(***************************************************************************)
UsageTyped ==
    usage \in [dispatches : 0..MaxCalls, reserved : Int, settled : Int, released : Int]
      /\ usage.dispatches = Len(attempts)

LiveUntouched == UNCHANGED <<auths, bundle, assigned>>

LEMMA LiveStaysTyped ==
    ASSUME Typed, LiveUntouched, permits' \in [Calls -> PermitRow]
    PROVE  LiveTyped'
  BY DEF Typed, LiveTyped, LiveUntouched

\* A worker's step that turns the attempt it alone may.
LEMMA TurnStep ==
    ASSUME DispatchInv, NEW w \in Workers, worker[w].pc # "idle", NEW a, a = worker[w].attempt,
           NEW state, NEW claim, claim # "none", Turned(a, state, claim),
           Alive(lease.expires), worker[w].token = lease.token,
           NobodyElse(w, a), OthersStay(w), WorkersTyped',
           UNCHANGED <<runVars, grant, retries, sent>>, UsageTyped',
           records' \in [Calls -> 0..MaxCalls],
           \A c \in Calls : records[c] # 0 => records'[c] = records[c],
           LiveUntouched, permits' \in [Calls -> PermitRow],
           UNCHANGED permits \/ SamePermit(attempts[a].call),
           AttemptTells(a)', WorkerTells(w)', InHand(w)' => worker'[w].attempt = a
    PROVE  DispatchInv'
<1> USE DEF DispatchInv
<1>1. a \in DOMAIN attempts /\ attempts[a].token = lease.token
  BY WorkerHasAttempt
<1>2. Typed'
  <2>1. RunTyped'
    BY DEF Typed, RunTyped, runVars
  <2>2. LedgerTyped'
    BY DEF Typed, LedgerTyped, UsageTyped, Turned
  <2> QED BY <2>1, <2>2, LiveStaysTyped DEF Typed
<1>3. OrderTells'
  BY <1>1, OrderTurns DEF runVars
<1>4. OnlyDisturbs(a)
  BY <1>1, StepDisturbs DEF Turned
<1>5. HandsTell'
  BY <1>4, HandsStep DEF NobodyElse
<1> QED BY <1>2, <1>3, <1>5

\* A worker's step that turns no attempt.
LEMMA QuietStep ==
    ASSUME DispatchInv, NEW w \in Workers, NEW a, OnlyDisturbs(a), NobodyElse(w, a),
           OthersStay(w), WorkersTyped',
           UNCHANGED <<runVars, grant, ledgerVars, retries>>, sent' \in [1..MaxCalls -> Nat],
           LiveUntouched, permits' \in [Calls -> PermitRow],
           a \in DOMAIN attempts => AttemptTells(a)',
           \A b \in 1..MaxCalls : b > Len(attempts) => sent'[b] = sent[b],
           WorkerTells(w)', InHand(w)' => worker'[w].attempt = a
    PROVE  DispatchInv'
<1> USE DEF DispatchInv
<1>1. Typed'
  <2>1. RunTyped'
    BY DEF Typed, RunTyped, runVars
  <2>2. LedgerTyped'
    BY DEF Typed, LedgerTyped, ledgerVars
  <2> QED BY <2>1, <2>2, LiveStaysTyped DEF Typed
<1>2. OrderTells'
  BY OrderStays DEF runVars, ledgerVars
<1>3. HandsTell'
  BY HandsStep DEF NobodyElse
<1> QED BY <1>1, <1>2, <1>3

\* Starting an attempt, of a hermetic call and of a live one with its permit.
LEMMA StartStep ==
    ASSUME DispatchInv, NEW w \in Workers, Start(w) \/ StartLive(w)
    PROVE  /\ DispatchInv'
           /\ Turned(worker[w].attempt, "dispatching", "dispatching")
           /\ attempts[worker[w].attempt].state = "reserved" /\ UNCHANGED usage
<1> USE DEF DispatchInv
<1> PICK a, c : a = worker[w].attempt /\ c = worker[w].call
  OBVIOUS
<1>1. /\ worker[w].pc = "claimed" /\ worker[w].pc # "idle" /\ Owns(w, a)
      /\ Startable(attempts[a].state) /\ Moves(a, "dispatching", "dispatching")
      /\ Goes(w, "sending")
      /\ UNCHANGED <<runVars, grant, usage, records, retries, auths, bundle, assigned, sent>>
  BY DEF Start, StartLive, liveVars
<1>2. /\ attempts[a].state = "reserved" /\ Alive(lease.expires)
      /\ worker[w].token = lease.token
  BY <1>1 DEF Startable, Owns, Holds
<1>3. /\ a \in DOMAIN attempts /\ attempts[a].call = c /\ c \in Calls
      /\ attempts[a].owner = worker[w].session /\ attempts[a].token = worker[w].token
      /\ AttemptTells(a)
  BY <1>1, WorkerHasAttempt
<1>4. Turned(a, "dispatching", "dispatching")
  BY <1>1, <1>3, MovesTurn DEF AttemptStates, ClaimStates
<1>5. Moved(w, "sending", worker[w].answer)
  <2>1. "sending" \in Places /\ worker[w].answer \in Answers
    BY WorkerIsTyped DEF Places
  <2> QED BY <1>1, <2>1, MovesWorker
<1>6. NobodyElse(w, a)
  BY <1>1, <1>2, HandsAreAlone
<1>7. /\ permits' \in [Calls -> PermitRow] /\ (UNCHANGED permits \/ SamePermit(c))
      /\ c \in LiveCalls => permits'[c].state = "send_started"
  <2>1. CASE Start(w)
    BY <2>1, <1>3 DEF Start, Live, liveVars, Typed, LiveTyped
  <2>2. CASE StartLive(w)
    <3>1. permits' = [permits EXCEPT ![c].state = "send_started"] /\ permits[c].state # "none"
      BY <2>2 DEF StartLive
    <3> QED BY <1>3, <3>1, PermitTurns DEF PermitStates
  <2> QED BY <2>1, <2>2
<1>8. sent[a] = 0 /\ attempts'[a].state = "dispatching" /\ SameAttempt(a)
  BY <1>2, <1>3, <1>4, AttemptIsTyped DEF AttemptTells, Turned
<1>9. AttemptTells(a)'
  <2>1. sent'[a] = 0
    BY <1>1, <1>8
  <2>2. CASE c \notin LiveCalls
    BY <1>3, <1>8, <2>1, <2>2 DEF AttemptTells, SameAttempt
  <2>3. CASE c \in LiveCalls
    <3>1. LiveTells(a) /\ permits'[c].state = "send_started"
      BY <1>3, <1>7, <2>3 DEF AttemptTells
    <3>2. LiveTells(a)'
      BY <1>3, <1>7, <1>8, <2>1, <3>1 DEF LiveTells, SameAttempt, SamePermit, PermitOutcomes
    <3> QED BY <1>8, <2>1, <3>2 DEF AttemptTells
  <2> QED BY <2>2, <2>3
<1>10. WorkerTells(w)'
  BY <1>1, <1>3, <1>4, <1>5, <1>7, <1>8
     DEF WorkerTells, PlaceTells, Moved, SameAttempt, Turned, Live
<1>11. UsageTyped' /\ records' \in [Calls -> 0..MaxCalls]
  BY <1>1, <1>4 DEF Typed, LedgerTyped, UsageTyped, Turned
<1> QED BY <1>1, <1>2, <1>3, <1>4, <1>5, <1>6, <1>7, <1>9, <1>10, <1>11, TurnStep
        DEF Moved, LiveUntouched

\* The request leaves, or does not.
LEMMA SendStep ==
    ASSUME DispatchInv, NEW w \in Workers,
           SendFails(w) \/ \E answer \in {"known_failure", "bad_reply", "unknown"} \cup Costs :
                             Send(w, answer)
    PROVE  DispatchInv'
<1> USE DEF DispatchInv
<1> PICK a, c : a = worker[w].attempt /\ c = worker[w].call
  OBVIOUS
<1>1. /\ worker[w].pc \in {"sending", "crossed"} /\ worker[w].pc # "idle" /\ InHand(w)
      /\ UNCHANGED <<runVars, grant, ledgerVars, retries, liveVars>>
  BY DEF Send, SendFails, InHand, Hands
<1>2. PICK answer \in {"known_failure", "bad_reply", "unknown"} \cup Costs :
        /\ Answered(w, answer)
        /\ \/ UNCHANGED sent /\ answer = "known_failure" /\ worker[w].pc = "sending"
           \/ /\ sent' = [sent EXCEPT ![a] = @ + 1]
              /\ worker[w].pc = IF Live(w) THEN "crossed" ELSE "sending"
  BY DEF Send, SendFails
<1>3. /\ a \in DOMAIN attempts /\ attempts[a].call = c /\ c \in Calls
      /\ attempts[a].owner = worker[w].session /\ attempts[a].token = worker[w].token
      /\ AttemptTells(a) /\ PlaceTells(w, a)
  BY <1>1, WorkerHasAttempt
<1>4. Moved(w, "answered", answer)
  <2>1. "answered" \in Places /\ answer \in Answers
    BY DEF Places, Answers, PermitOutcomes
  <2> QED BY <1>2, <2>1, MovesWorker DEF Answered
<1>5. NobodyElse(w, a)
  BY <1>1, HandsAreAlone
<1>6. a \in 1..MaxCalls /\ a \in 1..Len(attempts) /\ Len(attempts) \in Nat
  <2>1. attempts \in Seq(AttemptRow)
    BY DEF Typed, LedgerTyped
  <2>2. Len(attempts) \in Nat
    BY <2>1
  <2> QED BY <1>3, <2>2, AttemptIsTyped
<1>7. /\ sent' \in [1..MaxCalls -> Nat] /\ \A b \in 1..MaxCalls : b # a => sent'[b] = sent[b]
      /\ sent[a] = 0
      /\ sent'[a] = 0 \/ (sent'[a] = 1 /\ (Live(w) => worker[w].pc = "crossed"))
      /\ answer = "known_failure" \/ (sent'[a] = 1 /\ (Live(w) => worker[w].pc = "crossed"))
  <2>1. sent \in [1..MaxCalls -> Nat] /\ sent[a] = 0
    BY <1>1, <1>3 DEF PlaceTells, Typed, LedgerTyped
  <2>2. CASE UNCHANGED sent /\ answer = "known_failure"
    BY <2>1, <2>2
  <2>3. CASE /\ sent' = [sent EXCEPT ![a] = @ + 1]
             /\ worker[w].pc = IF Live(w) THEN "crossed" ELSE "sending"
    <3>1. sent'[a] = 1 /\ sent' \in [1..MaxCalls -> Nat]
          /\ \A b \in 1..MaxCalls : b # a => sent'[b] = sent[b]
      BY <1>6, <2>1, <2>3
    <3> QED BY <2>1, <2>3, <3>1
  <2> QED BY <1>2, <2>2, <2>3
<1>8. worker[w].pc = "crossed" => permits[c].crossed /\ attempts[a].state = "dispatching"
  BY <1>3 DEF PlaceTells
<1>9. attempts[a].state \in {"dispatching", "cancelled"}
  BY <1>1, <1>3 DEF PlaceTells
<1>10. UNCHANGED <<attempts, permits, records>>
  BY <1>1 DEF ledgerVars, liveVars
<1>11. Live(w) <=> c \in LiveCalls
  BY DEF Live
<1>12. AttemptTells(a)'
  <2>1. sent'[a] <= 1 /\ (c \in LiveCalls /\ sent'[a] > 0 => permits[c].crossed)
    BY <1>7, <1>8, <1>11
  <2>2. attempts[a].state = "cancelled" => sent'[a] = 0
    <3>1. attempts[a].state = "cancelled" => c \in LiveCalls /\ worker[w].pc = "sending"
      BY <1>1, <1>3, <1>8 DEF AttemptTells
    <3> QED BY <1>7, <1>11, <3>1
  <2>3. attempts[a].call \in LiveCalls => LiveTells(a)'
    <3> SUFFICES ASSUME attempts[a].call \in LiveCalls
                 PROVE  LiveTells(a)'
      OBVIOUS
    <3>1. LiveTells(a)
      BY <1>3 DEF AttemptTells
    <3> QED BY <1>3, <1>10, <2>1, <3>1 DEF LiveTells
  <2> QED BY <1>3, <1>9, <1>10, <2>1, <2>2, <2>3 DEF AttemptTells
<1>13. PlaceTells(w, a)'
  <2>1. /\ worker'[w].pc = "answered" /\ worker'[w].answer = answer /\ worker'[w].call = c
    BY <1>4 DEF Moved
  <2>2. answer # "known_failure" =>
          attempts[a].state = "dispatching" /\ (Live(w) => permits[c].crossed)
    <3>1. c \notin LiveCalls => attempts[a].state # "cancelled"
      BY <1>3 DEF AttemptTells
    <3> QED BY <1>7, <1>8, <1>9, <1>11, <3>1
  <2> QED BY <1>1, <1>3, <1>9, <1>10, <1>11, <2>1, <2>2 DEF PlaceTells, Live, InHand, Hands
<1>14. WorkerTells(w)'
  BY <1>3, <1>4, <1>10, <1>13 DEF WorkerTells, Moved
<1>15. OnlyDisturbs(a)
  BY <1>3, <1>7, <1>10, StepDisturbs DEF SameAttempt
<1>16. permits' \in [Calls -> PermitRow] /\ LiveUntouched
  BY <1>1 DEF Typed, LiveTyped, liveVars, LiveUntouched
<1>17. \A b \in 1..MaxCalls : b > Len(attempts) => sent'[b] = sent[b]
  BY <1>6, <1>7
<1> QED BY <1>1, <1>4, <1>5, <1>7, <1>12, <1>14, <1>15, <1>16, <1>17, QuietStep DEF Moved

\* The boundary of a live call.
LEMMA CrossStep ==
    ASSUME DispatchInv, NEW w \in Workers, Cross(w)
    PROVE  DispatchInv'
<1> USE DEF DispatchInv
<1> PICK a, c : a = worker[w].attempt /\ c = worker[w].call
  OBVIOUS
<1>1. /\ worker[w].pc = "sending" /\ worker[w].pc # "idle" /\ InHand(w) /\ c \in LiveCalls
      /\ permits[c].state = "send_started" /\ Goes(w, "crossed")
      /\ permits' = [permits EXCEPT ![c].crossed = TRUE]
      /\ UNCHANGED <<runVars, grant, ledgerVars, retries, auths, bundle, assigned, sent>>
  BY DEF Cross, Validated, InHand, Hands, Live
<1>2. /\ a \in DOMAIN attempts /\ attempts[a].call = c /\ c \in Calls
      /\ attempts[a].owner = worker[w].session /\ attempts[a].token = worker[w].token
      /\ AttemptTells(a) /\ PlaceTells(w, a)
  BY <1>1, WorkerHasAttempt
<1>3. Moved(w, "crossed", worker[w].answer)
  <2>1. "crossed" \in Places /\ worker[w].answer \in Answers
    BY WorkerIsTyped DEF Places
  <2> QED BY <1>1, <2>1, MovesWorker
<1>4. NobodyElse(w, a)
  BY <1>1, HandsAreAlone
<1>5. /\ permits' \in [Calls -> PermitRow] /\ SamePermit(c)
      /\ permits'[c].state = permits[c].state /\ permits'[c].crossed
  BY <1>1, <1>2, PermitTurns DEF PermitStates
<1>6. UNCHANGED <<attempts, records, sent>>
  BY <1>1 DEF ledgerVars
<1>7. LiveTells(a) /\ attempts[a].state \in {"dispatching", "cancelled"} /\ sent[a] = 0
  BY <1>1, <1>2 DEF AttemptTells, PlaceTells
<1>8. attempts[a].state = "dispatching"
  BY <1>1, <1>2, <1>7 DEF LiveTells
<1>9. AttemptTells(a)'
  <2>1. LiveTells(a)'
    BY <1>2, <1>5, <1>6, <1>7 DEF LiveTells, SamePermit
  <2> QED BY <1>2, <1>6, <2>1 DEF AttemptTells
<1>10. WorkerTells(w)'
  BY <1>1, <1>2, <1>3, <1>5, <1>6, <1>7, <1>8 DEF WorkerTells, PlaceTells, Moved, Live
<1>11. OnlyDisturbs(a)
  BY <1>2, <1>5, <1>6, StepDisturbs DEF SameAttempt
<1>12. sent' \in [1..MaxCalls -> Nat] /\ LiveUntouched
  BY <1>1, <1>6 DEF Typed, LedgerTyped, LiveUntouched
<1> QED BY <1>1, <1>3, <1>4, <1>5, <1>6, <1>9, <1>10, <1>11, <1>12, QuietStep DEF Moved

\* The outcome of a live call goes into its permit.
LEMMA OutcomeStep ==
    ASSUME DispatchInv, NEW w \in Workers, MarkOutcome(w)
    PROVE  DispatchInv'
<1> USE DEF DispatchInv
<1> PICK a, c, answer : a = worker[w].attempt /\ c = worker[w].call /\ answer = worker[w].answer
  OBVIOUS
<1>1. /\ worker[w].pc = "outcome" /\ worker[w].pc # "idle" /\ InHand(w)
      /\ permits[c].state \in {"ready", "send_started"} /\ Leaves(w)
      /\ permits' = [permits EXCEPT ![c].state = answer]
      /\ UNCHANGED <<runVars, grant, ledgerVars, retries, auths, bundle, assigned, sent>>
  BY DEF MarkOutcome, InHand, Hands
<1>2. /\ a \in DOMAIN attempts /\ attempts[a].call = c /\ c \in Calls
      /\ AttemptTells(a) /\ PlaceTells(w, a)
  BY <1>1, WorkerHasAttempt
<1>3. Dropped(w)
  <2>1. "idle" \in Places /\ "none" \in Answers
    BY DEF Places, Answers
  <2> QED BY <1>1, <2>1, MovesWorker
<1>4. NobodyElse(w, a)
  BY <1>1, HandsAreAlone
<1>5. answer \in PermitOutcomes /\ c \in LiveCalls /\ attempts[a].state \in ToldBy(answer)
  BY <1>1, <1>2 DEF PlaceTells, Live
<1>6. /\ permits' \in [Calls -> PermitRow] /\ SamePermit(c)
      /\ permits'[c].state = answer /\ permits'[c].crossed = permits[c].crossed
  <2>1. answer \in PermitStates /\ permits[c].state # "none"
    BY <1>1, <1>5 DEF PermitStates, PermitOutcomes
  <2> QED BY <1>1, <1>2, <2>1, PermitTurns
<1>7. UNCHANGED <<attempts, records, sent>>
  BY <1>1 DEF ledgerVars
<1>8. AttemptTells(a)'
  <2>1. LiveTells(a) /\ attempts[a].state # "reserved"
    BY <1>2, <1>5 DEF AttemptTells, ToldBy, PermitOutcomes
  <2>2. answer # "ready" /\ answer # "send_started" /\ answer # "none"
    BY <1>5 DEF PermitOutcomes
  <2>3. LiveTells(a)'
    BY <1>2, <1>5, <1>6, <1>7, <2>1, <2>2 DEF LiveTells, SamePermit
  <2> QED BY <1>2, <1>7, <2>3 DEF AttemptTells
<1>9. WorkerTells(w)' /\ ~InHand(w)'
  BY <1>3 DEF WorkerTells, Dropped, InHand, Hands
<1>10. OnlyDisturbs(a)
  BY <1>2, <1>6, <1>7, StepDisturbs DEF SameAttempt
<1>11. sent' \in [1..MaxCalls -> Nat] /\ LiveUntouched
  BY <1>1, <1>7 DEF Typed, LedgerTyped, LiveUntouched
<1> QED BY <1>1, <1>3, <1>4, <1>6, <1>7, <1>8, <1>9, <1>10, <1>11, QuietStep DEF Dropped

LEMMA ReleasesUsage ==
    ASSUME Typed, Len(attempts') = Len(attempts), UNCHANGED usage \/ Released
    PROVE  UsageTyped'
<1>1. /\ usage \in [dispatches : 0..MaxCalls, reserved : Int, settled : Int, released : Int]
      /\ usage.dispatches = Len(attempts)
  BY DEF Typed, LedgerTyped
<1>2. CASE UNCHANGED usage
  BY <1>1, <1>2 DEF UsageTyped
<1>3. CASE Released
  <2> DEFINE new == [usage EXCEPT !.reserved = @ - Reserve, !.released = @ + Reserve]
  <2>1. /\ new \in [dispatches : 0..MaxCalls, reserved : Int, settled : Int, released : Int]
        /\ new.dispatches = usage.dispatches
    <3>1. usage.reserved - Reserve \in Int /\ usage.released + Reserve \in Int
      BY <1>1, BoundsAreNumbers
    <3> QED BY <1>1, <3>1
  <2>2. usage' = new
    BY <1>3 DEF Released
  <2> HIDE DEF new
  <2> QED BY <1>1, <2>1, <2>2 DEF UsageTyped
<1> QED BY <1>2, <1>3

\* An attempt of a live call is turned by a worker that has crossed the boundary,
\* or with nothing sent; its permit still waits for the outcome.
LEMMA LiveTurns ==
    ASSUME DispatchInv, NEW w \in Workers, InHand(w), NEW a, a = worker[w].attempt,
           NEW state \in {"unknown", "failed", "succeeded", "disputed", "settled"},
           attempts[a].state \in {"dispatching", "succeeded"},
           attempts'[a].state = state, SameAttempt(a), UNCHANGED <<permits, sent>>,
           worker[w].pc \in {"answered", "recorded"}
    PROVE  AttemptTells(a)'
<1> USE DEF DispatchInv
<1>1. a \in DOMAIN attempts /\ AttemptTells(a)
  BY WorkerHasAttempt DEF InHand, Hands
<1>2. CASE attempts[a].call \notin LiveCalls
  BY <1>1, <1>2 DEF AttemptTells, SameAttempt
<1>3. CASE attempts[a].call \in LiveCalls
  <2>1. LiveTells(a)
    BY <1>1, <1>3 DEF AttemptTells
  <2>2. permits[attempts[a].call].state \notin PermitOutcomes
    <3>1. Live(w) /\ attempts[a].call = worker[w].call
      BY <1>3, WorkerHasAttempt DEF Live, InHand, Hands
    <3>2. permits[attempts[a].call].state # "disputed"
      BY <3>1, WorkerHasAttempt DEF PlaceTells, InHand, Hands
    <3> QED BY <2>1, <3>2 DEF LiveTells, ToldBy, PermitOutcomes
  <2>3. LiveTells(a)'
    BY <2>1, <2>2 DEF LiveTells, SameAttempt, PermitOutcomes
  <2> QED BY <1>1, <1>3, <2>3 DEF AttemptTells, SameAttempt
<1> QED BY <1>2, <1>3

\* The worker of a live call tells the permit next what it told the ledger.
LEMMA Concluded ==
    ASSUME DispatchInv, NEW w \in Workers, InHand(w), NEW a, a = worker[w].attempt,
           NEW outcome \in PermitOutcomes, Concludes(w, outcome),
           UNCHANGED permits, a \in DOMAIN attempts', SameAttempt(a),
           attempts'[a].state \in ToldBy(outcome),
           attempts'[a].state = "dispatching" => permits[worker[w].call].crossed
    PROVE  /\ OthersStay(w) /\ WorkersTyped' /\ WorkerTells(w)'
           /\ InHand(w)' => worker'[w].attempt = a
<1> USE DEF DispatchInv
<1>1. /\ attempts[a].call = worker[w].call /\ attempts[a].owner = worker[w].session
      /\ attempts[a].token = worker[w].token
  BY WorkerHasAttempt DEF InHand, Hands
<1>2. CASE Live(w)
  <2>1. Moved(w, "outcome", outcome)
    BY <1>2, ConcludesWorker
  <2>2. /\ worker'[w].pc = "outcome" /\ worker'[w].answer = outcome
        /\ worker'[w].call = worker[w].call /\ worker'[w].attempt = a
        /\ worker'[w].session = worker[w].session /\ worker'[w].token = worker[w].token
    BY <2>1 DEF Moved
  <2>3. PlaceTells(w, a)'
    <3>1. permits[worker[w].call].state # "disputed"
      BY <1>2, WorkerHasAttempt DEF PlaceTells, InHand, Hands
    <3> QED BY <1>2, <2>2, <3>1 DEF PlaceTells, Live, InHand, Hands
  <2>4. WorkerTells(w)'
    BY <1>1, <2>2, <2>3 DEF WorkerTells, SameAttempt
  <2> QED BY <2>1, <2>2, <2>4 DEF Moved
<1>3. CASE ~Live(w)
  <2>1. Dropped(w)
    BY <1>3, ConcludesWorker
  <2> QED BY <2>1 DEF Dropped, WorkerTells, InHand, Hands
<1> QED BY <1>2, <1>3

\* The late or missing answer: the attempt is the worker's own, and not over.
LEMMA UnknownStep ==
    ASSUME DispatchInv, NEW w \in Workers, MarkUnknown(w)
    PROVE  /\ DispatchInv'
           /\ Turned(worker[w].attempt, "unknown", "unknown")
           /\ attempts[worker[w].attempt].state = "dispatching"
<1> USE DEF DispatchInv
<1> PICK a, c : a = worker[w].attempt /\ c = worker[w].call
  OBVIOUS
<1>1. /\ worker[w].pc = "answered" /\ worker[w].answer = "unknown"
      /\ worker[w].pc # "idle" /\ InHand(w)
      /\ Owns(w, Latest(c)) /\ Concludes(w, "unknown")
      /\ UNCHANGED <<runVars, grant, usage, records, retries, liveVars, sent>>
  BY DEF MarkUnknown, InHand, Hands
<1>2. Alive(lease.expires) /\ worker[w].token = lease.token
  BY <1>1 DEF Owns, Holds
<1>3. Latest(c) = a
  BY <1>1, <1>2, OwnsLatest
<1>4. a \in DOMAIN attempts /\ attempts[a].call = c /\ PlaceTells(w, a)
  BY <1>1, WorkerHasAttempt
<1>5. attempts[a].state = "dispatching"
  BY <1>1, <1>4 DEF PlaceTells
<1>6. Moves(a, "unknown", "unknown")
  BY <1>3, <1>5 DEF MarkUnknown
<1>7. Turned(a, "unknown", "unknown")
  BY <1>4, <1>6, MovesTurn DEF AttemptStates, ClaimStates
<1>8. /\ attempts'[a].state = "unknown" /\ SameAttempt(a) /\ a \in DOMAIN attempts'
      /\ Len(attempts') = Len(attempts)
  BY <1>4, <1>7 DEF Turned
<1>9. NobodyElse(w, a)
  BY <1>1, HandsAreAlone
<1>10. /\ OthersStay(w) /\ WorkersTyped' /\ WorkerTells(w)'
       /\ InHand(w)' => worker'[w].attempt = a
  BY <1>1, <1>8, Concluded DEF ToldBy, PermitOutcomes, liveVars
<1>11. UNCHANGED permits /\ LiveUntouched /\ permits' \in [Calls -> PermitRow]
  BY <1>1 DEF liveVars, LiveUntouched, Typed, LiveTyped
<1>12. AttemptTells(a)'
  BY <1>1, <1>5, <1>8, <1>11, LiveTurns
<1>13. UsageTyped' /\ records' \in [Calls -> 0..MaxCalls]
  BY <1>1, <1>8, ReleasesUsage DEF Typed, LedgerTyped
<1> QED BY <1>1, <1>2, <1>5, <1>7, <1>9, <1>10, <1>11, <1>12, <1>13, TurnStep

LEMMA RecordIsTyped ==
    ASSUME Typed, NEW c \in Calls, NEW a \in DOMAIN attempts, records[c] = 0,
           records' = [records EXCEPT ![c] = a]
    PROVE  /\ records' \in [Calls -> 0..MaxCalls] /\ records'[c] = a
           /\ \A d \in Calls : records[d] # 0 => records'[d] = records[d]
<1>1. a \in 0..MaxCalls /\ records \in [Calls -> 0..MaxCalls]
  BY AttemptIsTyped, BoundsAreNumbers DEF Typed, LedgerTyped
<1> QED BY <1>1

\* What a call is recorded with: the worker's own attempt, in flight until then.
LEMMA RecordStep ==
    ASSUME DispatchInv, NEW w \in Workers, RecordFailed(w) \/ RecordSuccess(w)
    PROVE  /\ DispatchInv'
           /\ attempts[worker[w].attempt].state = "dispatching"
           /\ \/ Turned(worker[w].attempt, "failed", "failed") /\ Released
              \/ Turned(worker[w].attempt, "succeeded", "dispatched") /\ UNCHANGED usage
<1> USE DEF DispatchInv
<1> PICK a, c : a = worker[w].attempt /\ c = worker[w].call
  OBVIOUS
<1>1. /\ worker[w].pc = "answered" /\ worker[w].pc # "idle" /\ InHand(w)
      /\ Recordable(w) /\ records' = [records EXCEPT ![c] = a]
      /\ UNCHANGED <<runVars, grant, retries, liveVars, sent>>
  BY DEF RecordFailed, RecordSuccess, InHand, Hands
<1>2. /\ a \in DOMAIN attempts /\ attempts[a].call = c /\ PlaceTells(w, a) /\ c \in Calls
      /\ attempts[a].owner = worker[w].session /\ attempts[a].token = worker[w].token
      /\ AttemptTells(a)
  BY <1>1, WorkerHasAttempt
<1>3. /\ Alive(lease.expires) /\ worker[w].token = lease.token /\ records[c] = 0
      /\ attempts[a].state \in {"reserved", "dispatching", "unknown"}
  BY <1>1, <1>2 DEF Recordable, Holds
<1>4. attempts[a].state = "dispatching"
  BY <1>1, <1>2, <1>3 DEF PlaceTells
<1>5. /\ records' \in [Calls -> 0..MaxCalls] /\ records'[c] = a
      /\ \A d \in Calls : records[d] # 0 => records'[d] = records[d]
  BY <1>1, <1>2, <1>3, RecordIsTyped
<1>6. NobodyElse(w, a)
  BY <1>1, HandsAreAlone
<1>7. UNCHANGED permits /\ LiveUntouched /\ permits' \in [Calls -> PermitRow]
  BY <1>1 DEF liveVars, LiveUntouched, Typed, LiveTyped
<1>8. ASSUME RecordFailed(w)
      PROVE  DispatchInv' /\ Turned(a, "failed", "failed") /\ Released
  <2> PICK outcome : outcome = IF worker[w].answer = "bad_reply" THEN "disputed" ELSE "failed"
    OBVIOUS
  <2>1. /\ Moves(a, "failed", "failed") /\ Released /\ Concludes(w, outcome)
    BY <1>8 DEF RecordFailed
  <2>2. Turned(a, "failed", "failed")
    BY <1>2, <2>1, MovesTurn DEF AttemptStates, ClaimStates
  <2>3. /\ attempts'[a].state = "failed" /\ SameAttempt(a) /\ a \in DOMAIN attempts'
        /\ Len(attempts') = Len(attempts)
    BY <1>2, <2>2 DEF Turned
  <2>4. outcome \in PermitOutcomes /\ "failed" \in ToldBy(outcome)
    BY DEF ToldBy, PermitOutcomes
  <2>5. /\ OthersStay(w) /\ WorkersTyped' /\ WorkerTells(w)'
        /\ InHand(w)' => worker'[w].attempt = a
    BY <1>1, <1>7, <2>1, <2>3, <2>4, Concluded
  <2>6. AttemptTells(a)'
    BY <1>1, <1>4, <1>7, <2>3, LiveTurns
  <2>7. UsageTyped'
    BY <2>1, <2>3, ReleasesUsage
  <2> QED BY <1>1, <1>3, <1>5, <1>6, <1>7, <2>1, <2>2, <2>5, <2>6, <2>7, TurnStep
<1>9. ASSUME RecordSuccess(w)
      PROVE  DispatchInv' /\ Turned(a, "succeeded", "dispatched") /\ UNCHANGED usage
  <2>1. /\ worker[w].answer \in Costs /\ UNCHANGED usage /\ Goes(w, "recorded")
        /\ Moves(a, "succeeded", "dispatched")
    BY <1>9 DEF RecordSuccess
  <2>2. Turned(a, "succeeded", "dispatched")
    BY <1>2, <2>1, MovesTurn DEF AttemptStates, ClaimStates
  <2>3. /\ attempts'[a].state = "succeeded" /\ SameAttempt(a) /\ a \in DOMAIN attempts'
        /\ Len(attempts') = Len(attempts)
    BY <1>2, <2>2 DEF Turned
  <2>4. Moved(w, "recorded", worker[w].answer)
    <3>1. "recorded" \in Places /\ worker[w].answer \in Answers
      BY WorkerIsTyped DEF Places
    <3> QED BY <2>1, <3>1, MovesWorker
  <2>5. WorkerTells(w)'
    BY <1>1, <1>2, <1>5, <1>7, <2>1, <2>3, <2>4
       DEF WorkerTells, PlaceTells, Moved, SameAttempt, Live, InHand, Hands
  <2>6. AttemptTells(a)'
    BY <1>1, <1>4, <1>7, <2>3, LiveTurns
  <2>7. UsageTyped'
    BY <2>1, <2>3, ReleasesUsage
  <2> QED BY <1>1, <1>3, <1>5, <1>6, <1>7, <2>1, <2>2, <2>4, <2>5, <2>6, <2>7,
               TurnStep DEF Moved
<1> QED BY <1>4, <1>8, <1>9

\* What was charged is at most what was reserved, and the rest goes back.
SettledUsage(a) ==
    \E cost \in 0..Reserve :
      /\ attempts'[a].actual = cost
      /\ usage' = [usage EXCEPT !.reserved = @ - Reserve, !.settled = @ + cost,
                                !.released = @ + (Reserve - cost)]

\* The verdict over what the provider charged.
LEMMA AttestStep ==
    ASSUME DispatchInv, NEW w \in Workers, Attest(w)
    PROVE  /\ DispatchInv'
           /\ attempts[worker[w].attempt].state = "succeeded"
           /\ \/ Turned(worker[w].attempt, "disputed", "disputed") /\ UNCHANGED usage
              \/ Turned(worker[w].attempt, "settled", "settled")
                 /\ SettledUsage(worker[w].attempt)
<1> USE DEF DispatchInv
<1> PICK a, c, cost, verdict : /\ a = worker[w].attempt /\ c = worker[w].call
                               /\ cost = CostOf(worker[w].answer) /\ verdict = Verdict(cost)
  OBVIOUS
<1>1. /\ worker[w].pc = "recorded" /\ worker[w].pc # "idle" /\ InHand(w)
      /\ UNCHANGED <<runVars, grant, records, retries, liveVars, sent>>
  BY DEF Attest, InHand, Hands
<1>2. /\ a \in DOMAIN attempts /\ attempts[a].call = c /\ PlaceTells(w, a) /\ c \in Calls
      /\ attempts[a].owner = worker[w].session /\ attempts[a].token = worker[w].token
      /\ AttemptTells(a)
  BY <1>1, WorkerHasAttempt
<1>3. records[c] = a /\ attempts[a].state = "succeeded"
  BY <1>1, <1>2 DEF PlaceTells
<1>4. Alive(lease.expires) /\ worker[w].token = lease.token
  BY <1>2, <1>3 DEF Attest, Holds
<1>5. cost \in Nat /\ verdict \in {"disputed", "settled"}
  BY BoundsAreNumbers DEF CostOf, Verdict
<1>6. claims' = [claims EXCEPT ![c] = verdict]
  BY DEF Attest
<1>7. /\ cost > Reserve => /\ attempts' = [attempts EXCEPT ![a].state = "disputed"]
                           /\ UNCHANGED usage
      /\ ~(cost > Reserve) =>
           /\ attempts' = [attempts EXCEPT ![a].state = "settled", ![a].actual = cost]
           /\ usage' = [usage EXCEPT !.reserved = @ - Reserve, !.settled = @ + cost,
                                     !.released = @ + (Reserve - cost)]
  BY <1>3 DEF Attest
<1>8. Turned(a, verdict, verdict)
  <2> DEFINE row == IF cost > Reserve THEN [attempts[a] EXCEPT !.state = "disputed"]
                    ELSE [attempts[a] EXCEPT !.state = "settled", !.actual = cost]
  <2>1. attempts[a] \in AttemptRow
    BY <1>2, AttemptIsTyped
  <2>2. /\ row \in AttemptRow /\ row.state = verdict /\ row.at = attempts[a].at
        /\ row.call = attempts[a].call /\ row.owner = attempts[a].owner
        /\ row.token = attempts[a].token
    BY <1>5, <2>1 DEF AttemptRow, AttemptStates, Verdict
  <2>3. attempts' = [attempts EXCEPT ![a] = row]
    BY <1>7
  <2>4. verdict \in AttemptStates /\ verdict \in ClaimStates
        /\ verdict \notin {"dispatching", "unknown"}
    BY <1>5 DEF AttemptStates, ClaimStates
  <2> HIDE DEF row
  <2> QED BY <1>2, <1>6, <2>2, <2>3, <2>4, TurnsAttempt
<1>9. /\ attempts'[a].state = verdict /\ SameAttempt(a) /\ a \in DOMAIN attempts'
      /\ Len(attempts') = Len(attempts)
  BY <1>2, <1>8 DEF Turned
<1>10. NobodyElse(w, a)
  BY <1>1, HandsAreAlone
<1>11. UNCHANGED permits /\ LiveUntouched /\ permits' \in [Calls -> PermitRow]
  BY <1>1 DEF liveVars, LiveUntouched, Typed, LiveTyped
<1>12. AttemptTells(a)'
  BY <1>1, <1>3, <1>5, <1>9, <1>11, LiveTurns
<1>13. UsageTyped'
  <2>1. CASE cost > Reserve
    BY <1>7, <1>9, <2>1, ReleasesUsage
  <2>2. CASE ~(cost > Reserve)
    <3> DEFINE new == [usage EXCEPT !.reserved = @ - Reserve, !.settled = @ + cost,
                                    !.released = @ + (Reserve - cost)]
    <3>1. /\ new \in [dispatches : 0..MaxCalls, reserved : Int, settled : Int, released : Int]
          /\ new.dispatches = usage.dispatches
      <4>1. usage \in [dispatches : 0..MaxCalls, reserved : Int, settled : Int, released : Int]
        BY DEF Typed, LedgerTyped
      <4>2. usage.reserved \in Int /\ usage.settled \in Int /\ usage.released \in Int
        BY <4>1
      <4>3. /\ usage.reserved - Reserve \in Int /\ usage.settled + cost \in Int
            /\ usage.released + (Reserve - cost) \in Int
        BY <1>5, <4>2, BoundsAreNumbers
      <4> QED BY <4>1, <4>3
    <3>2. usage' = new
      BY <1>7, <2>2
    <3>3. usage.dispatches = Len(attempts)
      BY DEF Typed, LedgerTyped
    <3> HIDE DEF new
    <3> QED BY <1>9, <3>1, <3>2, <3>3 DEF UsageTyped
  <2> QED BY <2>1, <2>2
<1>14. /\ OthersStay(w) /\ WorkersTyped' /\ WorkerTells(w)'
       /\ InHand(w)' => worker'[w].attempt = a
  <2>1. CASE Verdict(cost) = "disputed" /\ ~Live(w)
    <3>1. Goes(w, "disputed")
      BY <1>3, <2>1 DEF Attest
    <3>2. "disputed" \in Places /\ worker[w].answer \in Answers
      BY WorkerIsTyped DEF Places
    <3>3. Moved(w, "disputed", worker[w].answer)
      BY <3>1, <3>2, MovesWorker
    <3> QED BY <1>2, <1>9, <3>3 DEF Moved, WorkerTells, PlaceTells, SameAttempt, InHand, Hands
  <2>2. CASE ~(Verdict(cost) = "disputed" /\ ~Live(w))
    <3>1. Concludes(w, verdict)
      BY <1>3, <2>2 DEF Attest
    <3>2. verdict \in PermitOutcomes /\ verdict \in ToldBy(verdict)
      BY <1>5 DEF ToldBy, PermitOutcomes
    <3> QED BY <1>1, <1>5, <1>9, <1>11, <3>1, <3>2, Concluded
  <2> QED BY <2>1, <2>2
<1>15. records' \in [Calls -> 0..MaxCalls] /\ verdict # "none"
  BY <1>1, <1>5 DEF Typed, LedgerTyped
<1>16. \/ verdict = "disputed" /\ UNCHANGED usage
       \/ verdict = "settled" /\ SettledUsage(a)
  <2>1. CASE cost > Reserve
    BY <1>7, <2>1 DEF Verdict
  <2>2. CASE ~(cost > Reserve)
    <3>1. cost \in 0..Reserve
      BY <1>5, <2>2, BoundsAreNumbers
    <3>2. attempts'[a].actual = cost
      <4>1. attempts \in Seq(AttemptRow) /\ attempts[a] \in AttemptRow
        BY <1>2, AttemptIsTyped DEF Typed, LedgerTyped
      <4>2. attempts'[a] = [attempts[a] EXCEPT !.state = "settled", !.actual = cost]
        BY <1>2, <1>7, <2>2, <4>1
      <4> QED BY <4>1, <4>2 DEF AttemptRow
    <3>3. SettledUsage(a)
      BY <1>7, <2>2, <3>1, <3>2 DEF SettledUsage
    <3> QED BY <2>2, <3>3 DEF Verdict
  <2> QED BY <2>1, <2>2
<1>17. DispatchInv'
  BY <1>1, <1>4, <1>5, <1>8, <1>10, <1>11, <1>12, <1>13, <1>14, <1>15, TurnStep
<1> QED BY <1>3, <1>8, <1>16, <1>17

\* Who is refused turns to the permit, with the boundary crossed.
LEMMA RefusedStep ==
    ASSUME DispatchInv, NEW w \in Workers, RecordRefused(w)
    PROVE  DispatchInv'
<1> USE DEF DispatchInv
<1> PICK a, c : a = worker[w].attempt /\ c = worker[w].call
  OBVIOUS
<1>1. /\ worker[w].pc \in {"answered", "recorded"} /\ worker[w].answer \in Costs
      /\ worker[w].pc # "idle" /\ InHand(w) /\ Live(w) /\ Concludes(w, "disputed")
      /\ UNCHANGED <<runVars, grant, ledgerVars, retries, liveVars, sent>>
  BY DEF RecordRefused, InHand, Hands
<1>2. a \in DOMAIN attempts /\ AttemptTells(a) /\ PlaceTells(w, a)
  BY <1>1, WorkerHasAttempt
<1>3. UNCHANGED <<attempts, permits, records>>
  BY <1>1 DEF ledgerVars, liveVars
<1>4. /\ attempts[a].state \in {"dispatching", "succeeded"}
      /\ attempts[a].state = "dispatching" => permits[c].crossed
  BY <1>1, <1>2 DEF PlaceTells, Costs
<1>5. /\ OthersStay(w) /\ WorkersTyped' /\ WorkerTells(w)'
      /\ InHand(w)' => worker'[w].attempt = a
  <2>1. SameAttempt(a) /\ a \in DOMAIN attempts' /\ attempts'[a].state \in ToldBy("disputed")
    BY <1>2, <1>3, <1>4 DEF SameAttempt, ToldBy
  <2>2. "disputed" \in PermitOutcomes
    BY DEF PermitOutcomes
  <2> QED BY <1>1, <1>3, <1>4, <2>1, <2>2, Concluded
<1>6. HandsTell'
  BY <1>1, <1>3, <1>5, HandsStay
<1>7. OrderTells'
  BY <1>1, OrderStays DEF runVars, ledgerVars
<1>8. Typed'
  BY <1>1, <1>5
     DEF Typed, RunTyped, LedgerTyped, LiveTyped, runVars, ledgerVars, liveVars
<1> QED BY <1>6, <1>7, <1>8

\* What is called off was not sent; who had it in hand cannot cross any more.
LEMMA AbortStep ==
    ASSUME DispatchInv, NEW w \in Workers, AbortBeforeSend(w)
    PROVE  /\ DispatchInv'
           /\ Turned(worker[w].attempt, "cancelled", "released") /\ Released
           /\ attempts[worker[w].attempt].state \in {"reserved", "dispatching"}
<1> USE DEF DispatchInv
<1> PICK a, c : a = worker[w].attempt /\ c = worker[w].call
  OBVIOUS
<1>1. /\ worker[w].pc # "idle" /\ c \in LiveCalls /\ ~permits[c].crossed
      /\ permits[c].state \in {"ready", "send_started"} /\ Owns(w, a)
      /\ attempts[a].state \in {"reserved", "dispatching"}
      /\ Moves(a, "cancelled", "released") /\ Released
      /\ permits' = [permits EXCEPT ![c].state = "failed"] /\ Leaves(w)
      /\ UNCHANGED <<runVars, grant, records, retries, auths, bundle, assigned, sent>>
  BY DEF AbortBeforeSend, Unsent, Live
<1>2. /\ a \in DOMAIN attempts /\ attempts[a].call = c /\ c \in Calls /\ AttemptTells(a)
      /\ attempts[a].token = worker[w].token
  BY <1>1, WorkerHasAttempt
<1>3. Alive(lease.expires) /\ attempts[a].token = lease.token
  BY <1>1, <1>2 DEF Owns, Holds
<1>4. Turned(a, "cancelled", "released")
  BY <1>1, <1>2, MovesTurn DEF AttemptStates, ClaimStates
<1>5. /\ permits' \in [Calls -> PermitRow] /\ SamePermit(c)
      /\ permits'[c].state = "failed" /\ permits'[c].crossed = permits[c].crossed
  BY <1>1, <1>2, PermitTurns DEF PermitStates
<1>6. Dropped(w)
  <2>1. "idle" \in Places /\ "none" \in Answers
    BY DEF Places, Answers
  <2> QED BY <1>1, <2>1, MovesWorker
<1>7. LiveTells(a) /\ sent[a] = 0
  BY <1>1, <1>2, AttemptIsTyped DEF AttemptTells, LiveTells
<1>8. /\ attempts'[a].state = "cancelled" /\ SameAttempt(a) /\ Len(attempts') = Len(attempts)
      /\ DOMAIN attempts' = DOMAIN attempts
  BY <1>2, <1>4 DEF Turned
<1>9. OnlyDisturbs(a)
  BY <1>1, <1>2, <1>4, <1>5, StepDisturbs DEF Turned
<1>10. Typed'
  <2>1. RunTyped'
    BY <1>1 DEF Typed, RunTyped, runVars
  <2>2. LedgerTyped'
    BY <1>1, <1>4, <1>8, ReleasesUsage DEF Typed, LedgerTyped, UsageTyped, Turned
  <2>3. LiveTyped'
    BY <1>1, <1>5, LiveStaysTyped DEF LiveUntouched
  <2> QED BY <1>6, <2>1, <2>2, <2>3 DEF Typed, Dropped
<1>11. OrderTells'
  BY <1>1, <1>2, <1>3, <1>4, OrderTurns DEF runVars
<1>12. AttemptTells(a)'
  <2>1. LiveTells(a)'
    BY <1>1, <1>2, <1>5, <1>7, <1>8
       DEF LiveTells, SamePermit, SameAttempt, ToldBy, PermitOutcomes
  <2> QED BY <1>1, <1>2, <1>7, <1>8, <2>1 DEF AttemptTells, SameAttempt
<1>13. ASSUME NEW v \in Workers
       PROVE  WorkerTells(v)'
  <2>1. CASE v = w
    BY <1>6, <2>1 DEF Dropped, WorkerTells
  <2>2. CASE v # w /\ ~(InHand(v) /\ worker[v].attempt = a)
    BY <1>6, <1>9, <2>2, OtherWorkers DEF Dropped, OthersStay
  <2>3. CASE v # w /\ InHand(v) /\ worker[v].attempt = a
    <3>1. worker'[v] = worker[v] /\ worker[v].pc # "idle"
      BY <1>6, <2>3 DEF Dropped, OthersStay, InHand, Hands
    <3>2. /\ attempts[a].call = worker[v].call /\ attempts[a].owner = worker[v].session
          /\ attempts[a].token = worker[v].token /\ PlaceTells(v, a)
      BY <2>3, <3>1, WorkerHasAttempt
    <3>3. /\ worker[v].pc \in {"sending", "answered"}
          /\ worker[v].pc = "answered" => worker[v].answer = "known_failure"
      <4>1. worker[v].call = c /\ Live(v)
        BY <1>1, <1>2, <3>2 DEF Live
      <4> QED BY <1>1, <2>3, <3>2, <4>1
              DEF PlaceTells, InHand, Hands, ToldBy, PermitOutcomes
    <3>4. PlaceTells(v, a)'
      BY <1>1, <1>2, <1>5, <1>7, <1>8, <3>1, <3>2, <3>3 DEF PlaceTells
    <3> QED BY <1>2, <1>8, <2>3, <3>1, <3>2, <3>4 DEF WorkerTells, SameAttempt
  <2> QED BY <2>1, <2>2, <2>3
<1>14. HandsTell'
  <2>1. \A b \in DOMAIN attempts' : AttemptTells(b)'
    BY <1>8, <1>9, <1>12, OtherAttempts
  <2>2. \A b \in 1..MaxCalls : b > Len(attempts') => sent'[b] = 0
    BY <1>1, <1>8 DEF HandsTell
  <2>3. \A d \in Calls : PermitTells(d)'
    BY <1>9 DEF OnlyDisturbs, HandsTell, PermitTells, SameAttempt
  <2>4. \A u, v \in Workers : HandsDiffer(u, v)'
    BY <1>6 DEF HandsTell, HandsDiffer, InHand, Hands, Dropped, OthersStay
  <2> QED BY <1>13, <2>1, <2>2, <2>3, <2>4 DEF HandsTell
<1> QED BY <1>1, <1>4, <1>10, <1>11, <1>14

\* The worker takes an attempt of its session up, to start it.
Entered(w, c, a, token) ==
    /\ WorkersTyped' /\ OthersStay(w)
    /\ worker'[w].pc = "claimed" /\ worker'[w].call = c /\ worker'[w].attempt = a
    /\ worker'[w].session = worker[w].session /\ worker'[w].token = token

LEMMA EntersWorker ==
    ASSUME Typed, NEW w \in Workers, NEW c \in Calls, NEW a \in 0..MaxCalls,
           NEW token \in 0..MaxTakes,
           worker' = [worker EXCEPT ![w] = [session |-> @.session, pc |-> "claimed", call |-> c,
                                            token |-> token, attempt |-> a, answer |-> "none"]]
    PROVE  Entered(w, c, a, token)
<1> DEFINE row == [session |-> worker[w].session, pc |-> "claimed", call |-> c,
                   token |-> token, attempt |-> a, answer |-> "none"]
<1>1. worker \in [Workers -> WorkerRow] /\ worker[w].session \in Sessions
  BY WorkerIsTyped DEF Typed, WorkersTyped
<1>2. row \in WorkerRow
  BY <1>1 DEF WorkerRow, Places, Answers
<1>3. worker' = [worker EXCEPT ![w] = row]
  OBVIOUS
<1>4. /\ row.pc = "claimed" /\ row.call = c /\ row.attempt = a /\ row.token = token
      /\ row.session = worker[w].session
  OBVIOUS
<1>5. worker'[w] = row /\ WorkersTyped' /\ OthersStay(w)
  <2> HIDE DEF row
  <2> QED BY <1>1, <1>2, <1>3 DEF WorkersTyped, OthersStay
<1> HIDE DEF row
<1> QED BY <1>4, <1>5 DEF Entered

LEMMA LeaseIsTyped ==
    ASSUME Typed
    PROVE  lease.token \in 0..MaxTakes
  BY DEF Typed, RunTyped

\* A hermetic call is claimed for the first time, or for a decided retry.
LEMMA ClaimStep ==
    ASSUME DispatchInv, NEW w \in Workers, NEW c \in Calls, Claim(w, c)
    PROVE  DispatchInv'
<1> USE DEF DispatchInv
<1> PICK s, n : s = worker[w].session /\ n = Len(attempts')
  OBVIOUS
<1>1. /\ c \notin LiveCalls /\ Room /\ NewAttempt(s, c) /\ Holds(s, lease.token)
      /\ claims[c] = "none" \/ (claims[c] # "none" /\ Decided(c))
      /\ Enters(w, "claimed", c, n)
      /\ UNCHANGED <<runVars, grant, records, retries, liveVars, sent>>
  BY DEF Claim, ClaimNew, ClaimRetry, Claimed
<1>2. Alive(lease.expires) /\ s \in Sessions
  BY <1>1, WorkerIsTyped DEF Holds
<1>3. Added(s, c)
  BY <1>1, <1>2, AddsAttempt DEF OrderTells
<1>4. n \in 0..MaxCalls
  <2>1. Len(attempts) \in Nat
    <3>1. attempts \in Seq(AttemptRow)
      BY DEF Typed, LedgerTyped
    <3> QED BY <3>1
  <2> QED BY <1>3, <2>1, BoundsAreNumbers DEF Added
<1>5. Entered(w, c, n, lease.token)
  <2> PICK token : token = lease.token
    OBVIOUS
  <2> QED BY <1>1, <1>4, LeaseIsTyped, EntersWorker DEF Enters
<1>6. OrderTells'
  BY <1>1, <1>2, <1>3, OrderAdds DEF runVars
<1>7. HandsTell'
  BY <1>1, <1>3, <1>5, HandsAdd DEF Entered, liveVars
<1>8. Typed'
  <2>1. RunTyped'
    BY <1>1 DEF Typed, RunTyped, runVars
  <2>2. LedgerTyped'
    BY <1>1, <1>3 DEF Typed, LedgerTyped, Added
  <2>3. LiveTyped'
    BY <1>1, LiveStaysTyped DEF liveVars, LiveUntouched, Typed, LiveTyped
  <2> QED BY <1>5, <2>1, <2>2, <2>3 DEF Typed, Entered
<1> QED BY <1>6, <1>7, <1>8

\* A live call's one attempt comes with its permit.
LEMMA PrepareStep ==
    ASSUME DispatchInv, NEW w \in Workers, NEW c \in LiveCalls, Prepare(w, c)
    PROVE  DispatchInv'
<1> USE DEF DispatchInv
<1> PICK s, n, auth : s = worker[w].session /\ n = Len(attempts') /\ auth = assigned[c]
  OBVIOUS
<1>0. c \in Calls
  BY CallsAssumption
<1>1. /\ Room /\ NewAttempt(s, c) /\ Holds(s, lease.token) /\ claims[c] = "none"
      /\ Enters(w, "claimed", c, n) /\ Consume(auth) /\ auth # 0
      /\ UNCHANGED <<runVars, grant, records, retries, bundle, assigned, sent>>
  BY DEF Prepare, ClaimNew
<1>2. Alive(lease.expires) /\ s \in Sessions
  BY <1>1, WorkerIsTyped DEF Holds
<1>3. Added(s, c)
  BY <1>0, <1>1, <1>2, AddsAttempt DEF OrderTells
<1>4. n \in 0..MaxCalls
  <2>1. Len(attempts) \in Nat
    <3>1. attempts \in Seq(AttemptRow)
      BY DEF Typed, LedgerTyped
    <3> QED BY <3>1
  <2> QED BY <1>3, <2>1, BoundsAreNumbers DEF Added
<1>5. Entered(w, c, n, lease.token)
  <2> PICK token : token = lease.token
    OBVIOUS
  <2> QED BY <1>0, <1>1, <1>4, LeaseIsTyped, EntersWorker DEF Enters
<1>6. auths \in Seq(AuthRow) /\ Len(auths) \in Nat /\ Len(auths) <= MaxAuths
      /\ auth \in DOMAIN auths /\ auth \in 0..MaxAuths /\ auths[auth] \in AuthRow
  <2>1. auths \in Seq(AuthRow) /\ Len(auths) <= MaxAuths /\ auth \in 0..Len(auths)
    BY <1>0 DEF Typed, LiveTyped
  <2> QED BY <1>1, <2>1, BoundsAreNumbers
<1>7. auths' \in Seq(AuthRow) /\ Len(auths') = Len(auths) /\ DOMAIN auths' = DOMAIN auths
  <2> DEFINE row == [auths[auth] EXCEPT !.state = "consumed"]
  <2>1. row \in AuthRow
    BY <1>6 DEF AuthRow
  <2>2. auths' = [auths EXCEPT ![auth] = row]
    BY <1>1 DEF Consume
  <2> HIDE DEF row
  <2> QED BY <1>6, <2>1, <2>2
<1>8. PICK expires \in Nat :
        permits' = [permits EXCEPT ![c] =
          [state |-> "ready", attempt |-> n, auth |-> auth, owner |-> s, token |-> lease.token,
           crossed |-> FALSE, expires |-> expires]]
  <2>1. auths[auth].expires \in Nat /\ clock + PermitTtl \in Nat
    <3>1. clock \in Nat
      BY BoundsAreNumbers DEF Typed, RunTyped
    <3> QED BY <1>6, <3>1, BoundsAreNumbers DEF AuthRow
  <2> QED BY <2>1 DEF Prepare
<1>9. /\ permits' \in [Calls -> PermitRow] /\ \A d \in Calls : d # c => permits'[d] = permits[d]
      /\ permits'[c].state = "ready" /\ permits'[c].attempt = n
      /\ permits'[c].owner = s /\ permits'[c].token = lease.token
  <2> DEFINE row == [state |-> "ready", attempt |-> n, auth |-> auth, owner |-> s,
                     token |-> lease.token, crossed |-> FALSE, expires |-> expires]
  <2>1. row \in PermitRow
    BY <1>2, <1>4, <1>6, LeaseIsTyped DEF PermitRow, PermitStates
  <2>2. permits \in [Calls -> PermitRow]
    BY DEF Typed, LiveTyped
  <2>3. /\ row.state = "ready" /\ row.attempt = n /\ row.owner = s
        /\ row.token = lease.token
    OBVIOUS
  <2>4. permits' = [permits EXCEPT ![c] = row]
    BY <1>8
  <2> HIDE DEF row
  <2> QED BY <1>0, <2>1, <2>2, <2>3, <2>4
<1>10. OrderTells'
  BY <1>0, <1>1, <1>2, <1>3, OrderAdds DEF runVars
<1>11. HandsTell'
  BY <1>0, <1>1, <1>3, <1>5, <1>9, HandsAdd DEF Entered
<1>12. Typed'
  <2>1. RunTyped'
    BY <1>1 DEF Typed, RunTyped, runVars
  <2>2. LedgerTyped'
    BY <1>1, <1>3 DEF Typed, LedgerTyped, Added
  <2>3. LiveTyped'
    BY <1>1, <1>6, <1>7, <1>9 DEF Typed, LiveTyped
  <2> QED BY <1>5, <2>1, <2>2, <2>3 DEF Typed, Entered
<1> QED BY <1>10, <1>11, <1>12

\* A claim is given again, a permit is given again, a worker gives up, and the
\* adapter of a disputed call pauses the run.
LEMMA HandlessStep ==
    ASSUME DispatchInv, NEW w \in Workers,
           \/ \E c \in Calls : ClaimReserved(w, c)
           \/ \E c \in LiveCalls : PrepareAgain(w, c)
           \/ PauseDisputed(w) \/ Restart(w)
    PROVE  DispatchInv'
<1> USE DEF DispatchInv
<1>1. /\ UNCHANGED <<clock, grant, ledgerVars, retries, liveVars, sent>>
      /\ UNCHANGED <<status, lease>> \/ Paused
  BY DEF ClaimReserved, PrepareAgain, PauseDisputed, Restart, runVars
<1>2. WorkersTyped' /\ OthersStay(w) /\ WorkerTells(w)' /\ ~InHand(w)'
  <2>1. ASSUME NEW c \in Calls, ClaimReserved(w, c)
        PROVE  WorkersTyped' /\ OthersStay(w) /\ WorkerTells(w)' /\ ~InHand(w)'
    <3> PICK a : a = Latest(c)
      OBVIOUS
    <3>1. /\ claims[c] # "none" /\ attempts[a].owner = worker[w].session
          /\ attempts[a].token = lease.token /\ Enters(w, "claimed", c, a)
      BY <2>1 DEF ClaimReserved, Claimed
    <3>2. \E b \in DOMAIN attempts : attempts[b].call = c
      BY <3>1 DEF OrderTells, ClaimTells
    <3>3. a \in DOMAIN attempts /\ attempts[a].call = c
      BY <3>2, LatestTells
    <3>4. a \in 0..MaxCalls
      BY <3>3, AttemptIsTyped, BoundsAreNumbers
    <3>5. Entered(w, c, a, lease.token)
      <4> PICK token : token = lease.token
        OBVIOUS
      <4> QED BY <3>1, <3>4, LeaseIsTyped, EntersWorker DEF Enters
    <3> QED BY <1>1, <3>1, <3>3, <3>5
            DEF Entered, WorkerTells, PlaceTells, InHand, Hands, ledgerVars
  <2>2. ASSUME NEW c \in LiveCalls, PrepareAgain(w, c)
        PROVE  WorkersTyped' /\ OthersStay(w) /\ WorkerTells(w)' /\ ~InHand(w)'
    <3> PICK a, token : a = permits[c].attempt /\ token = permits[c].token
      OBVIOUS
    <3>1. /\ c \in Calls /\ permits[c].state # "none"
          /\ permits[c].owner = worker[w].session
      BY <2>2, CallsAssumption DEF PrepareAgain
    <3>2. a \in DOMAIN attempts /\ attempts[a].call = c
      BY <3>1 DEF HandsTell, PermitTells
    <3>3. attempts[a].owner = worker[w].session /\ attempts[a].token = token
      BY <3>1, <3>2 DEF HandsTell, AttemptTells, LiveTells
    <3>4. a \in 0..MaxCalls /\ token \in 0..MaxTakes
      BY <3>1 DEF Typed, LiveTyped, PermitRow
    <3>5. Entered(w, c, a, token)
      BY <2>2, <3>1, <3>4, EntersWorker DEF PrepareAgain
    <3> QED BY <1>1, <3>2, <3>3, <3>5
            DEF Entered, WorkerTells, PlaceTells, InHand, Hands, ledgerVars
  <2>3. ASSUME PauseDisputed(w) \/ Restart(w)
        PROVE  WorkersTyped' /\ OthersStay(w) /\ WorkerTells(w)' /\ ~InHand(w)'
    <3>1. "idle" \in Places /\ "none" \in Answers /\ Leaves(w)
      BY <2>3 DEF PauseDisputed, Restart, Places, Answers
    <3>2. Dropped(w)
      BY <3>1, MovesWorker
    <3> QED BY <3>2 DEF Dropped, WorkerTells, InHand, Hands
  <2> QED BY <2>1, <2>2, <2>3
<1>3. HandsTell'
  BY <1>1, <1>2, HandsStay DEF ledgerVars, liveVars
<1>4. OrderTells'
  <2>1. CASE UNCHANGED <<status, lease>>
    BY <1>1, <2>1, OrderStays DEF ledgerVars
  <2>2. CASE Paused
    BY <1>1, <2>2, OrderOfTheRun DEF ledgerVars
  <2> QED BY <1>1, <2>1, <2>2
<1>5. Typed'
  <2>1. RunTyped'
    <3>1. CASE UNCHANGED <<status, lease>>
      BY <1>1, <3>1 DEF Typed, RunTyped
    <3>2. CASE Paused
      BY <1>1, <3>2 DEF Typed, RunTyped, Paused
    <3> QED BY <1>1, <3>1, <3>2
  <2>2. LedgerTyped' /\ LiveTyped'
    BY <1>1 DEF Typed, LedgerTyped, LiveTyped, ledgerVars, liveVars
  <2> QED BY <1>2, <2>1, <2>2 DEF Typed
<1> QED BY <1>3, <1>4, <1>5

(***************************************************************************)
(* The administrator's steps                                               *)
(***************************************************************************)

\* Time, the run, its lease, retries and the grant.
LEMMA RunStep ==
    ASSUME DispatchInv,
           \/ Tick \/ Pause \/ Resume \/ IssueGrant \/ ConsumeGrant \/ CloseGrant
           \/ \E c \in Calls : DecideRetry(c)
           \/ \E s \in Sessions, ttl \in 1..LeaseTtl : TakeLease(s, ttl)
    PROVE  DispatchInv'
<1> USE DEF DispatchInv
<1>1. UNCHANGED <<ledgerVars, liveVars, worker, sent>>
  BY DEF Tick, Pause, Resume, IssueGrant, ConsumeGrant, CloseGrant, DecideRetry, TakeLease
<1>2. UNCHANGED <<attempts, claims, permits, records, usage>>
  BY <1>1 DEF ledgerVars, liveVars
<1>3. clock \in Nat /\ \A ttl \in 1..LeaseTtl : clock + ttl \in Nat
  BY BoundsAreNumbers DEF Typed, RunTyped
<1>4. OrderTells'
  <2>1. CASE Tick \/ Resume \/ (\E c \in Calls : DecideRetry(c))
             \/ (\E s \in Sessions, ttl \in 1..LeaseTtl : TakeLease(s, ttl))
    BY <1>2, <2>1, OrderOfTheRun
  <2>2. CASE Pause
    BY <1>2, <2>2, OrderOfTheRun DEF Pause
  <2>3. CASE IssueGrant \/ ConsumeGrant \/ CloseGrant
    BY <1>2, <2>3, OrderStays DEF IssueGrant, ConsumeGrant, CloseGrant, runVars
  <2> QED BY <2>1, <2>2, <2>3
<1>5. HandsTell'
  BY <1>1, <1>2, NothingInHandMoves
<1>6. RunTyped'
  <2>1. clock' \in 1..MaxTime
    BY BoundsAreNumbers DEF Tick, Pause, Resume, IssueGrant, ConsumeGrant, CloseGrant,
       DecideRetry, TakeLease, runVars, Typed, RunTyped
  <2>2. status' \in {"RUNNING", "PAUSED"}
    BY DEF Tick, Pause, Paused, Resume, IssueGrant, ConsumeGrant, CloseGrant, DecideRetry,
       TakeLease, runVars, Typed, RunTyped
  <2>3. grant' \in [state : {"none", "issued", "consumed"}, expires : Nat, closed : BOOLEAN]
    <3> DEFINE G == [state : {"none", "issued", "consumed"}, expires : Nat, closed : BOOLEAN]
    <3>1. grant \in G /\ clock + GrantTtl \in Nat
      BY <1>3, BoundsAreNumbers DEF Typed, RunTyped
    <3>2. CASE IssueGrant
      BY <3>1, <3>2 DEF IssueGrant
    <3>3. CASE ConsumeGrant
      BY <3>1, <3>3 DEF ConsumeGrant
    <3>4. CASE CloseGrant
      BY <3>1, <3>4 DEF CloseGrant
    <3>5. CASE UNCHANGED grant
      BY <3>1, <3>5
    <3> QED BY <3>2, <3>3, <3>4, <3>5 DEF Tick, Pause, Resume, DecideRetry, TakeLease
  <2>4. lease' \in [owner : Sessions \cup {NoOne}, token : 0..MaxTakes, expires : Nat]
    <3> DEFINE L == [owner : Sessions \cup {NoOne}, token : 0..MaxTakes, expires : Nat]
    <3>1. lease \in L
      BY DEF Typed, RunTyped
    <3>2. CASE Pause
      BY <3>1, <3>2 DEF Pause, Paused
    <3>3. ASSUME NEW s \in Sessions, NEW ttl \in 1..LeaseTtl, TakeLease(s, ttl)
          PROVE  lease' \in L
      <4>1. lease.token + 1 \in 0..MaxTakes
        BY <3>1, <3>3, BoundsAreNumbers DEF TakeLease
      <4> QED BY <1>3, <3>3, <4>1 DEF TakeLease
    <3>4. CASE UNCHANGED lease
      BY <3>1, <3>4
    <3> QED BY <3>2, <3>3, <3>4
            DEF Tick, Resume, IssueGrant, ConsumeGrant, CloseGrant, DecideRetry, runVars
  <2> QED BY <2>1, <2>2, <2>3, <2>4 DEF RunTyped
<1>7. retries' \in [Calls -> Nat]
  <2>1. ASSUME NEW c \in Calls, DecideRetry(c)
        PROVE  retries' \in [Calls -> Nat]
    BY <1>3, <2>1 DEF DecideRetry, Typed, LedgerTyped
  <2>2. UNCHANGED retries => retries' \in [Calls -> Nat]
    BY DEF Typed, LedgerTyped
  <2> QED BY <2>1, <2>2
          DEF Tick, Pause, Resume, IssueGrant, ConsumeGrant, CloseGrant, TakeLease
<1>8. LedgerTyped' /\ LiveTyped' /\ WorkersTyped'
  BY <1>1, <1>2, <1>7 DEF Typed, LedgerTyped, LiveTyped, WorkersTyped, liveVars
<1> QED BY <1>4, <1>5, <1>6, <1>8 DEF Typed

\* Authorizations, their bundle and its assignments.
LEMMA AuthorityStep ==
    ASSUME DispatchInv,
           \/ IssueAuth \/ RevokeBundle
           \/ \E n \in DOMAIN auths : EndAuth(n)
           \/ \E members \in UNION {Injection(1..k, DOMAIN auths) : k \in 1..Len(auths)} :
                CreateBundle(members)
           \/ \E w \in Workers, c \in LiveCalls : Assign(w, c)
    PROVE  DispatchInv'
<1> USE DEF DispatchInv
<1> DEFINE Bundle == [state : {"none", "active", "exhausted", "revoked"},
                      members : Seq(1..MaxAuths), next : Nat]
<1>1. UNCHANGED <<runVars, grant, ledgerVars, retries, permits, worker, sent>>
  BY DEF IssueAuth, RevokeBundle, EndAuth, CreateBundle, Assign
<1>2. OrderTells' /\ HandsTell'
  BY <1>1, OrderStays, NothingInHandMoves DEF runVars, ledgerVars
<1>3. RunTyped' /\ LedgerTyped' /\ WorkersTyped'
  BY <1>1 DEF Typed, RunTyped, LedgerTyped, WorkersTyped, runVars, ledgerVars
<1>4. /\ auths \in Seq(AuthRow) /\ Len(auths) \in Nat /\ Len(auths) <= MaxAuths
      /\ DOMAIN auths = 1..Len(auths) /\ bundle \in Bundle
      /\ \A n \in DOMAIN bundle.members : bundle.members[n] \in DOMAIN auths
      /\ bundle.state = "active" => bundle.next \in DOMAIN bundle.members
      /\ assigned \in [Calls -> 0..Len(auths)] /\ permits' \in [Calls -> PermitRow]
  <2>1. auths \in Seq(AuthRow) /\ Len(auths) <= MaxAuths
    BY DEF Typed, LiveTyped
  <2> QED BY <1>1, <2>1 DEF Typed, LiveTyped
<1>5. CASE IssueAuth
  <2> DEFINE row == [state |-> "active", expires |-> clock + AuthTtl]
  <2>1. row \in AuthRow
    <3>1. clock \in Nat
      BY BoundsAreNumbers DEF Typed, RunTyped
    <3> QED BY <3>1, BoundsAreNumbers DEF AuthRow
  <2>2. auths' = Append(auths, row) /\ Len(auths) < MaxAuths /\ UNCHANGED <<bundle, assigned>>
    BY <1>5 DEF IssueAuth
  <2>3. /\ auths' \in Seq(AuthRow) /\ Len(auths') = Len(auths) + 1 /\ Len(auths') <= MaxAuths
        /\ DOMAIN auths \subseteq DOMAIN auths'
    <3> HIDE DEF row
    <3> QED BY <1>4, <2>1, <2>2, BoundsAreNumbers
  <2>4. assigned' \in [Calls -> 0..Len(auths')]
    BY <1>4, <2>2, <2>3
  <2> QED BY <1>2, <1>3, <1>4, <2>2, <2>3, <2>4 DEF Typed, LiveTyped
<1>6. ASSUME NEW n \in DOMAIN auths, EndAuth(n)
      PROVE  DispatchInv'
  <2> PICK target \in {"revoked", "expired"} : auths' = [auths EXCEPT ![n].state = target]
    BY <1>6 DEF EndAuth
  <2> DEFINE row == [auths[n] EXCEPT !.state = target]
  <2>1. row \in AuthRow
    <3>1. auths[n] \in AuthRow
      BY <1>4
    <3> QED BY <3>1 DEF AuthRow
  <2>2. auths' = [auths EXCEPT ![n] = row]
    OBVIOUS
  <2>3. auths' \in Seq(AuthRow) /\ Len(auths') = Len(auths) /\ DOMAIN auths' = DOMAIN auths
    <3>1. auths \in Seq(AuthRow) /\ n \in DOMAIN auths
      BY <1>4
    <3> HIDE DEF row
    <3> QED BY ONLY <2>1, <2>2, <3>1
  <2>4. UNCHANGED <<bundle, assigned>>
    BY <1>6 DEF EndAuth
  <2> QED BY <1>2, <1>3, <1>4, <2>3, <2>4 DEF Typed, LiveTyped
<1>7. CASE RevokeBundle
  <2>1. bundle' = [bundle EXCEPT !.state = "revoked"] /\ UNCHANGED <<auths, assigned>>
    BY <1>7 DEF RevokeBundle
  <2>2. bundle' \in Bundle /\ bundle'.members = bundle.members /\ bundle'.state = "revoked"
    BY <1>4, <2>1
  <2> QED BY <1>2, <1>3, <1>4, <2>1, <2>2 DEF Typed, LiveTyped
<1>8. ASSUME NEW k \in 1..Len(auths), NEW members \in Injection(1..k, DOMAIN auths),
             CreateBundle(members)
      PROVE  DispatchInv'
  <2>1. members \in [1..k -> DOMAIN auths] /\ k \in Nat /\ k >= 1
    BY <1>4 DEF Injection
  <2>2. \A n \in DOMAIN auths : n \in 1..MaxAuths
    BY <1>4, BoundsAreNumbers
  <2>3. members \in [1..k -> 1..MaxAuths]
    BY <2>1, <2>2
  <2>4. members \in Seq(1..MaxAuths)
    <3>1. members \in UNION {[1..n -> 1..MaxAuths] : n \in Nat}
      BY <2>1, <2>3, Zenon
    <3> QED BY <3>1, SeqDef, Zenon
  <2>5. /\ bundle' = [state |-> "active", members |-> members, next |-> 1]
        /\ UNCHANGED <<auths, assigned>>
    BY <1>8 DEF CreateBundle
  <2>6. /\ bundle' \in Bundle /\ bundle'.members = members /\ bundle'.next = 1
    BY <2>4, <2>5
  <2>7. 1 \in DOMAIN members /\ \A n \in DOMAIN members : members[n] \in DOMAIN auths
    BY <2>1
  <2> QED BY <1>2, <1>3, <1>4, <2>5, <2>6, <2>7 DEF Typed, LiveTyped
<1>9. ASSUME NEW w \in Workers, NEW c \in LiveCalls, Assign(w, c)
      PROVE  DispatchInv'
  <2> PICK n : n = bundle.members[bundle.next]
    OBVIOUS
  <2>1. /\ bundle.state = "active" /\ UNCHANGED auths
        /\ assigned' = [assigned EXCEPT ![c] = n]
        /\ bundle' = [bundle EXCEPT !.next = @ + 1,
                                    !.state = IF bundle.next = Len(bundle.members)
                                              THEN "exhausted" ELSE "active"]
    BY <1>9 DEF Assign
  <2>2. n \in 0..Len(auths)
    BY <1>4, <2>1
  <2>3. assigned' \in [Calls -> 0..Len(auths')]
    BY <1>4, <2>1, <2>2
  <2>4. /\ bundle' \in Bundle /\ bundle'.members = bundle.members
        /\ bundle'.next = bundle.next + 1
        /\ bundle'.state = IF bundle.next = Len(bundle.members) THEN "exhausted" ELSE "active"
    <3> DEFINE state == IF bundle.next = Len(bundle.members) THEN "exhausted" ELSE "active"
               new == [bundle EXCEPT !.next = @ + 1, !.state = state]
    <3>1. bundle.next + 1 \in Nat /\ state \in {"none", "active", "exhausted", "revoked"}
      BY <1>4
    <3>2. /\ new \in Bundle /\ new.members = bundle.members /\ new.next = bundle.next + 1
          /\ new.state = state
      <4> HIDE DEF state
      <4> QED BY <1>4, <3>1
    <3>3. bundle' = new
      BY <2>1
    <3> HIDE DEF new
    <3> QED BY <3>2, <3>3
  <2>5. bundle'.state = "active" => bundle'.next \in DOMAIN bundle'.members
    <3>1. bundle.members \in Seq(1..MaxAuths)
      BY <1>4
    <3>2. DOMAIN bundle.members = 1..Len(bundle.members) /\ Len(bundle.members) \in Nat
      BY <3>1
    <3> QED BY <1>4, <2>1, <2>4, <3>2
  <2> QED BY <1>2, <1>3, <1>4, <2>1, <2>3, <2>4, <2>5 DEF Typed, LiveTyped
<1> QED BY <1>5, <1>6, <1>7, <1>8, <1>9

(***************************************************************************)
(* The theorems                                                            *)
(***************************************************************************)
LEMMA DispatchInvStep ==
    ASSUME DispatchInv, [Next]_vars
    PROVE  DispatchInv'
<1>1. CASE UNCHANGED vars
  BY <1>1, OrderStays, NothingInHandMoves
     DEF vars, runVars, ledgerVars, liveVars, DispatchInv, Typed, RunTyped, LedgerTyped,
         LiveTyped, WorkersTyped
<1>2. CASE Tick \/ \E s \in Sessions, ttl \in 1..LeaseTtl : TakeLease(s, ttl)
  BY <1>2, RunStep
<1>3. CASE Administer
  BY <1>3, RunStep, AuthorityStep DEF Administer
<1>4. ASSUME NEW w \in Workers, Work(w)
      PROVE  DispatchInv'
  <2>1. ASSUME NEW c \in Calls, Claim(w, c) \/ ClaimReserved(w, c)
        PROVE  DispatchInv'
    BY <2>1, ClaimStep, HandlessStep
  <2>2. ASSUME NEW c \in LiveCalls, Assign(w, c) \/ Prepare(w, c) \/ PrepareAgain(w, c)
        PROVE  DispatchInv'
    BY <2>2, AuthorityStep, PrepareStep, HandlessStep
  <2>3. CASE Start(w) \/ StartLive(w)
    BY <2>3, StartStep
  <2>4. CASE Cross(w)
    BY <2>4, CrossStep
  <2>5. CASE SendFails(w) \/ \E answer \in {"known_failure", "bad_reply", "unknown"} \cup Costs :
                                Send(w, answer)
    BY <2>5, SendStep
  <2>6. CASE MarkUnknown(w)
    BY <2>6, UnknownStep
  <2>7. CASE RecordFailed(w) \/ RecordSuccess(w)
    BY <2>7, RecordStep
  <2>8. CASE Attest(w)
    BY <2>8, AttestStep
  <2>9. CASE MarkOutcome(w)
    BY <2>9, OutcomeStep
  <2>10. CASE AbortBeforeSend(w)
    BY <2>10, AbortStep
  <2>11. CASE PauseDisputed(w) \/ Restart(w)
    BY <2>11, HandlessStep
  <2>12. CASE RecordRefused(w)
    BY <2>12, RefusedStep
  <2> QED BY <1>4, <2>1, <2>2, <2>3, <2>4, <2>5, <2>6, <2>7, <2>8, <2>9, <2>10, <2>11, <2>12
          DEF Work
<1> QED BY <1>1, <1>2, <1>3, <1>4 DEF Next

LEMMA DispatchInvInit ==
    ASSUME Init
    PROVE  DispatchInv
<1>1. RunTyped
  BY BoundsAreNumbers DEF Init, RunTyped
<1>2. LedgerTyped
  BY BoundsAreNumbers DEF Init, LedgerTyped, ClaimStates
<1>3. LiveTyped
  <2>1. permits \in [Calls -> PermitRow]
    BY BoundsAreNumbers DEF Init, PermitRow, NoPermit, PermitStates
  <2> QED BY <2>1, BoundsAreNumbers DEF Init, LiveTyped
<1>4. WorkersTyped /\ \A w \in Workers : worker[w].pc = "idle"
  <2> PICK home \in [Workers -> Sessions] : worker = [w \in Workers |-> Idle(home[w])]
    BY DEF Init
  <2>1. ASSUME NEW w \in Workers
        PROVE  Idle(home[w]) \in WorkerRow /\ Idle(home[w]).pc = "idle"
    <3>1. home[w] \in Sessions /\ 0 \in 0..MaxTakes /\ 0 \in 0..MaxCalls
      BY BoundsAreNumbers
    <3>2. "none" \in Answers /\ "idle" \in Places
      BY DEF Answers, Places
    <3> QED BY <3>1, <3>2 DEF WorkerRow, Idle
  <2> QED BY <2>1 DEF WorkersTyped
<1>5. OrderTells
  <2>1. LeaseTells
    BY DEF Init, LeaseTells, Alive
  <2> QED BY <2>1 DEF Init, OrderTells, ClaimTells
<1>6. HandsTell
  <2>1. \A c \in Calls : PermitTells(c)
    BY DEF Init, PermitTells, NoPermit
  <2>2. \A w \in Workers : WorkerTells(w) /\ ~InHand(w)
    BY <1>4 DEF WorkerTells, InHand, Hands
  <2> QED BY <2>1, <2>2 DEF Init, HandsTell, HandsDiffer
<1> QED BY <1>1, <1>2, <1>3, <1>4, <1>5, <1>6 DEF DispatchInv, Typed

THEOREM DispatchInvHolds == Spec => []DispatchInv
<1>1. Init => DispatchInv
  BY DispatchInvInit
<1>2. DispatchInv /\ [Next]_vars => DispatchInv'
  BY DispatchInvStep
<1> QED BY <1>1, <1>2, PTL DEF Spec

\* Few attempts of a call were sent: one, or two with a decided retry between
\* them.
LEMMA FewAreSent ==
    ASSUME DispatchInv, NEW c \in Calls
    PROVE  Cardinality({a \in OfCall(c) : sent[a] > 0})
             <= IF retries[c] > 0 /\ c \notin LiveCalls THEN 2 ELSE 1
<1> DEFINE S == {a \in OfCall(c) : sent[a] > 0}
<1>0. Cardinality({}) = 0
  BY FS_EmptySet
<1>1. \A a \in S : a \in DOMAIN attempts /\ attempts[a].call = c /\ a \in Nat
  BY AttemptIsTyped, BoundsAreNumbers DEF OfCall, DispatchInv
<1>2. ASSUME NEW a \in S, NEW b \in S, a < b
      PROVE  Overtaken(a) /\ ~Overtaken(b) /\ c \notin LiveCalls /\ retries[c] > 0
  <2>1. /\ PairTells(a, b) /\ attempts[a].call = c /\ attempts[b].call = c
        /\ attempts[a].at \in Nat /\ retries[c] \in Nat
    BY <1>1, AttemptIsTyped DEF DispatchInv, OrderTells, Typed, LedgerTyped
  <2> QED BY <1>2, <2>1 DEF PairTells, Overtaken
<1>3. CASE S = {}
  BY <1>0, <1>3
<1>4. CASE S # {}
  <2>1. PICK a \in S : TRUE
    BY <1>4
  <2>2. CASE \A b \in S : b = a
    <3>1. S = {a}
      <4> HIDE DEF S
      <4> QED BY <2>1, <2>2
    <3>2. Cardinality({a}) = 1
      BY FS_Singleton
    <3> HIDE DEF S
    <3>3. Cardinality(S) = 1
      BY <3>1, <3>2
    <3> USE DEF S
    <3> QED BY <3>3
  <2>3. CASE \E b \in S : b # a
    <3> PICK b \in S : b # a
      BY <2>3
    <3>1. a < b \/ b < a
      BY <1>1
    <3>2. c \notin LiveCalls /\ retries[c] > 0
      BY <1>2, <3>1
    <3>3. ASSUME NEW d \in S
          PROVE  d \in {a, b}
      <4>1. d = a \/ d = b \/ ((d < a \/ a < d) /\ (d < b \/ b < d))
        BY <1>1
      <4> HIDE DEF S
      <4> QED BY <1>2, <3>1, <4>1
    <3>4. Cardinality({a, b}) = 2 /\ IsFiniteSet({a, b})
      <4>1. IsFiniteSet({a}) /\ Cardinality({a}) = 1
        BY FS_Singleton
      <4>2. {a, b} = {a} \cup {b} /\ b \notin {a}
        OBVIOUS
      <4> QED BY <4>1, <4>2, FS_AddElement
    <3>5. Cardinality(S) <= 2
      <4> HIDE DEF S
      <4>1. S \subseteq {a, b}
        BY <3>3
      <4> QED BY <3>4, <4>1, FS_Subset
    <3> QED BY <3>2, <3>5
  <2> QED BY <2>2, <2>3
<1> QED BY <1>3, <1>4

\* The request of an attempt leaves once at most, and a call goes out again only
\* on a decision: for any number of processes that share sessions, crash, claim
\* again and are overtaken, with the lease lapsing at any time.
THEOREM CallsAreSentAsDecided == Spec => []SentAsDecided
<1>1. DispatchInv => SentAsDecided
  <2> SUFFICES ASSUME DispatchInv
               PROVE  SentAsDecided
    OBVIOUS
  <2>1. \A a \in DOMAIN attempts : AttemptTells(a)
    BY DEF DispatchInv, HandsTell
  <2>2. \A a \in InState({"cancelled"}) : sent[a] = 0
    BY <2>1 DEF AttemptTells, InState
  <2>3. \A a \in DOMAIN attempts : sent[a] <= 1
    BY <2>1 DEF AttemptTells
  <2> QED BY <2>2, <2>3, FewAreSent DEF SentAsDecided
<1> QED BY <1>1, DispatchInvHolds, PTL

\* A permit that tells its outcome tells the ledger's, whoever turned the attempt and
\* whatever the store refused: none is called settled that was not settled, and no
\* attempt is settled or cancelled under a permit in dispute.
THEOREM PermitsTellTheLedger == Spec => []PermitTellsLedger
<1>1. DispatchInv => PermitTellsLedger
  <2> SUFFICES ASSUME DispatchInv, NEW c \in LiveCalls, permits[c].state \in PermitOutcomes
               PROVE  attempts[permits[c].attempt].state \in ToldBy(permits[c].state)
    BY DEF PermitTellsLedger, ToldBy
  <2>1. PermitTells(c)
    BY CallsAssumption DEF DispatchInv, HandsTell
  <2>2. permits[c].attempt \in DOMAIN attempts /\ attempts[permits[c].attempt].call = c
    BY <2>1 DEF PermitTells, PermitOutcomes
  <2>3. LiveTells(permits[c].attempt)
    BY <2>2 DEF DispatchInv, HandsTell, AttemptTells
  <2> QED BY <2>2, <2>3 DEF LiveTells
<1> QED BY <1>1, DispatchInvHolds, PTL

\* What an attempt is after it has succeeded.
Successes == {"succeeded", "settled", "disputed"}

LEMMA SuccessStays ==
    ASSUME DispatchInv, Next
    PROVE  \A a \in InState(Successes) : attempts'[a].state \in Successes
<1> USE DEF DispatchInv
<1> DEFINE Kept == \A a \in InState(Successes) : attempts'[a].state \in Successes
<1>1. ASSUME UNCHANGED attempts
      PROVE  Kept
  BY <1>1 DEF InState
<1>2. ASSUME NEW a \in DOMAIN attempts, NEW state, NEW claim, Moves(a, state, claim),
             attempts[a].state \notin Successes
      PROVE  Kept
  <2>1. attempts \in Seq(AttemptRow)
    BY DEF Typed, LedgerTyped
  <2>2. \A b \in DOMAIN attempts : b # a => attempts'[b] = attempts[b]
    BY <1>2, <2>1 DEF Moves
  <2> QED BY <1>2, <2>2 DEF InState
<1>3. ASSUME NEW s \in Sessions, NEW c \in Calls, NewAttempt(s, c)
      PROVE  Kept
  <2> PICK row : attempts' = Append(attempts, row)
    BY <1>3 DEF NewAttempt
  <2>1. attempts \in Seq(AttemptRow)
    BY DEF Typed, LedgerTyped
  <2>2. \A b \in DOMAIN attempts : attempts'[b] = attempts[b]
    BY <2>1
  <2> QED BY <2>2 DEF InState
<1>4. CASE Tick \/ Administer \/ \E s \in Sessions, ttl \in 1..LeaseTtl : TakeLease(s, ttl)
  BY <1>1, <1>4
     DEF Tick, Administer, TakeLease, Pause, Resume, IssueGrant, ConsumeGrant, CloseGrant,
         DecideRetry, IssueAuth, RevokeBundle, EndAuth, CreateBundle, ledgerVars
<1>5. ASSUME NEW w \in Workers, Work(w)
      PROVE  Kept
  <2> PICK a : a = worker[w].attempt
    OBVIOUS
  <2>1. ASSUME NEW c \in Calls, Claim(w, c)
        PROVE  Kept
    BY <1>3, <2>1, WorkerIsTyped DEF Claim, ClaimNew, ClaimRetry
  <2>2. ASSUME NEW c \in LiveCalls, Prepare(w, c)
        PROVE  Kept
    BY <1>3, <2>2, WorkerIsTyped, CallsAssumption DEF Prepare, ClaimNew
  <2>3. CASE Start(w) \/ StartLive(w)
    <3>1. /\ worker[w].pc # "idle" /\ attempts[a].state = "reserved"
          /\ Moves(a, "dispatching", "dispatching")
      BY <2>3 DEF Start, StartLive, Startable
    <3> QED BY <1>2, <3>1, WorkerHasAttempt DEF Successes
  <2>4. CASE MarkUnknown(w)
    <3>1. Turned(a, "unknown", "unknown") /\ attempts[a].state = "dispatching"
      BY <2>4, UnknownStep
    <3> QED BY <3>1 DEF Turned, InState, Successes
  <2>5. CASE RecordFailed(w) \/ RecordSuccess(w)
    <3>1. /\ worker[w].pc # "idle" /\ attempts[a].state \in {"reserved", "dispatching", "unknown"}
          /\ \E state, claim : Moves(a, state, claim)
      BY <2>5 DEF RecordFailed, RecordSuccess, Recordable
    <3> QED BY <1>2, <3>1, WorkerHasAttempt DEF Successes
  <2>6. CASE Attest(w)
    <3>1. Turned(a, "disputed", "disputed") \/ Turned(a, "settled", "settled")
      BY <2>6, AttestStep
    <3> QED BY <3>1 DEF Turned, InState, Successes
  <2>7. CASE AbortBeforeSend(w)
    <3>1. /\ worker[w].pc # "idle" /\ attempts[a].state \in {"reserved", "dispatching"}
          /\ Moves(a, "cancelled", "released")
      BY <2>7 DEF AbortBeforeSend
    <3> QED BY <1>2, <3>1, WorkerHasAttempt DEF Successes
  <2>8. CASE \/ Cross(w) \/ SendFails(w) \/ PauseDisputed(w) \/ MarkOutcome(w) \/ Restart(w)
             \/ RecordRefused(w)
    BY <1>1, <2>8
       DEF Cross, SendFails, PauseDisputed, MarkOutcome, Restart, RecordRefused, ledgerVars
  <2>9. CASE \E answer \in {"known_failure", "bad_reply", "unknown"} \cup Costs : Send(w, answer)
    BY <1>1, <2>9 DEF Send, ledgerVars
  <2>10. ASSUME NEW c \in Calls, ClaimReserved(w, c)
         PROVE  Kept
    BY <1>1, <2>10 DEF ClaimReserved, ledgerVars
  <2>11. ASSUME NEW c \in LiveCalls, Assign(w, c) \/ PrepareAgain(w, c)
         PROVE  Kept
    BY <1>1, <2>11 DEF Assign, PrepareAgain, ledgerVars
  <2> HIDE DEF Kept
  <2> QED BY <1>5, <2>1, <2>2, <2>3, <2>4, <2>5, <2>6, <2>7, <2>8, <2>9, <2>10, <2>11 DEF Work
<1> QED BY <1>4, <1>5 DEF Next

\* No late answer takes a recorded success back.
THEOREM SuccessesAreKept == Spec => SuccessIsKept
<1>1. DispatchInv /\ [Next]_vars =>
        [\A a \in InState({"succeeded", "settled", "disputed"}) :
           attempts'[a].state \in {"succeeded", "settled", "disputed"}]_vars
  BY SuccessStays DEF Successes
<1> QED BY <1>1, DispatchInvHolds, PTL DEF Spec, SuccessIsKept

(***************************************************************************)
(* Sums                                                                    *)
(*                                                                         *)
(* SumFunctionOnSet takes the elements of its set in an order unknown.     *)
(* It is determined by the subtotals of all subsets, which exist for every *)
(* finite set; both are shown by the least set to fail.                    *)
(***************************************************************************)

\* The subtotals of a function over the subsets of D, whatever element comes first.
Totals(g, f, D) ==
    /\ g \in [SUBSET D -> Int]
    /\ g[{}] = 0
    /\ \A s \in SUBSET D : \A x \in s : g[s] = f[x] + g[s \ {x}]

\* A finite set has subtotals.
LEMMA TotalsExist ==
    ASSUME NEW D, IsFiniteSet(D), NEW f, \A x \in D : f[x] \in Int
    PROVE  \E g : Totals(g, f, D)
<1> DEFINE Upto(g, k) ==
             /\ g \in [SUBSET D -> Int]
             /\ g[{}] = 0
             /\ \A s \in SUBSET D : Cardinality(s) <= k
                  => \A x \in s : g[s] = f[x] + g[s \ {x}]
           Missing == {k \in Nat : ~ \E g : Upto(g, k)}
<1>1. \A s \in SUBSET D : IsFiniteSet(s) /\ Cardinality(s) \in Nat
        /\ Cardinality(s) <= Cardinality(D) /\ (Cardinality(s) = 0 <=> s = {})
  BY FS_Subset, FS_CardinalityType, FS_EmptySet
<1>2. \A s \in SUBSET D : \A x \in s :
        s \ {x} \in SUBSET D /\ Cardinality(s \ {x}) = Cardinality(s) - 1
  BY <1>1, FS_RemoveElement
<1>3. Upto([s \in SUBSET D |-> 0], 0)
  BY <1>1
<1>4. ASSUME NEW k \in Nat, NEW g, Upto(g, k)
      PROVE  \E h : Upto(h, k + 1)
  <2> DEFINE First(s) == CHOOSE x \in s : TRUE
             h == [s \in SUBSET D |-> IF Cardinality(s) <= k THEN g[s]
                                      ELSE IF s = {} THEN 0
                                      ELSE f[First(s)] + g[s \ {First(s)}]]
  <2>1. \A s \in SUBSET D : s # {} => First(s) \in s
    OBVIOUS
  <2>2. h \in [SUBSET D -> Int]
    <3>1. ASSUME NEW s \in SUBSET D PROVE h[s] \in Int
      <4>1. CASE s = {} \/ Cardinality(s) <= k
        BY <1>4, <4>1
      <4>2. CASE s # {} /\ ~(Cardinality(s) <= k)
        <5>1. First(s) \in D /\ s \ {First(s)} \in SUBSET D
          BY <2>1, <4>2
        <5> QED BY <1>4, <4>2, <5>1
      <4> QED BY <4>1, <4>2
    <3> QED BY <3>1
  <2>3. h[{}] = 0
    BY <1>1, <1>4
  <2>4. ASSUME NEW s \in SUBSET D, Cardinality(s) <= k + 1, NEW x \in s
        PROVE  h[s] = f[x] + h[s \ {x}]
    <3>1. s \ {x} \in SUBSET D /\ Cardinality(s \ {x}) <= k
      BY <1>1, <1>2, <2>4
    <3>2. h[s \ {x}] = g[s \ {x}]
      BY <3>1
    <3>3. CASE Cardinality(s) <= k
      BY <1>4, <3>2, <3>3
    <3>4. CASE ~(Cardinality(s) <= k)
      <4> PICK y : y = First(s)
        OBVIOUS
      <4>1. y \in s
        BY <2>1
      <4>2. h[s] = f[y] + g[s \ {y}]
        BY <3>4
      <4>3. CASE x = y
        BY <3>2, <4>2, <4>3
      <4>4. CASE x # y
        <5>1. s \ {y} \in SUBSET D /\ Cardinality(s \ {y}) <= k
          BY <1>1, <1>2, <2>4, <4>1
        <5>2. x \in s \ {y} /\ y \in s \ {x}
          BY <4>1, <4>4
        <5>3. g[s \ {y}] = f[x] + g[(s \ {y}) \ {x}]
          BY <1>4, <5>1, <5>2
        <5>4. g[s \ {x}] = f[y] + g[(s \ {x}) \ {y}]
          BY <1>4, <3>1, <5>2
        <5>5. (s \ {y}) \ {x} = (s \ {x}) \ {y}
          OBVIOUS
        <5>6. f[x] \in Int /\ f[y] \in Int /\ g[(s \ {x}) \ {y}] \in Int
          BY <1>4, <4>1
        <5> PICK rest \in Int : rest = g[(s \ {x}) \ {y}]
          BY <5>6
        <5>7. g[s \ {y}] = f[x] + rest /\ g[s \ {x}] = f[y] + rest
          BY <5>3, <5>4, <5>5
        <5>8. h[s] = f[y] + (f[x] + rest) /\ h[s \ {x}] = f[y] + rest
          BY <3>2, <4>2, <5>7
        <5> QED BY ONLY <5>6, <5>8, rest \in Int
      <4> QED BY <4>3, <4>4
    <3> QED BY <3>3, <3>4
  <2> HIDE DEF h
  <2> QED BY <2>2, <2>3, <2>4
<1>5. Missing = {}
  <2> SUFFICES ASSUME Missing # {} PROVE FALSE
    OBVIOUS
  <2>1. PICK k \in Missing : \A j \in Missing : k <= j
    BY LeastNumber
  <2> HIDE DEF Upto
  <2>2. k \in Nat /\ ~ \E g : Upto(g, k)
    OBVIOUS
  <2>3. k # 0
    BY <1>3, <2>2
  <2>4. k - 1 \in Nat /\ k - 1 \notin Missing
    BY <2>1, <2>2, <2>3
  <2>5. PICK g : Upto(g, k - 1)
    BY <2>4
  <2>6. \E h : Upto(h, (k - 1) + 1)
    BY <1>4, <2>4, <2>5
  <2> QED BY <2>2, <2>6
<1>6. PICK g : Upto(g, Cardinality(D))
  <2>1. Cardinality(D) \in Nat
    BY FS_CardinalityType
  <2> QED BY <1>5, <2>1
<1> QED BY <1>1, <1>6 DEF Totals

\* And its sum is the last of them.
LEMMA SumIsTotal ==
    ASSUME NEW D, IsFiniteSet(D), NEW f, NEW g, Totals(g, f, D)
    PROVE  SumFunctionOnSet(f, D) = g[D]
<1> DEFINE First(s) == CHOOSE x \in s : TRUE
           Sums(h) == h = [s \in SUBSET D |->
                             IF s = {} THEN 0 ELSE f[First(s)] + h[s \ {First(s)}]]
           iter == CHOOSE h : Sums(h)
<1>1. SumFunctionOnSet(f, D) = iter[D]
  BY DEF SumFunctionOnSet, FoldFunctionOnSet, MapThenFoldSet
<1>2. \A s \in SUBSET D : s # {} => First(s) \in s /\ s \ {First(s)} \in SUBSET D
  OBVIOUS
<1>3. Sums(g)
  <2>1. g = [s \in SUBSET D |-> g[s]]
    BY DEF Totals
  <2>2. ASSUME NEW s \in SUBSET D
        PROVE  g[s] = IF s = {} THEN 0 ELSE f[First(s)] + g[s \ {First(s)}]
    BY <1>2 DEF Totals
  <2> HIDE DEF First
  <2> QED BY <2>1, <2>2
<1>4. Sums(iter)
  BY <1>3
<1> HIDE DEF iter
<1>5. \A s \in SUBSET D : iter[s] = IF s = {} THEN 0 ELSE f[First(s)] + iter[s \ {First(s)}]
  BY <1>4
<1> HIDE DEF Sums
<1> DEFINE Sizes == {Cardinality(s) : s \in {t \in SUBSET D : iter[t] # g[t]}}
<1>6. \A s \in SUBSET D : IsFiniteSet(s) /\ Cardinality(s) \in Nat
  BY FS_Subset, FS_CardinalityType
<1>7. Sizes = {}
  <2> SUFFICES ASSUME Sizes # {} PROVE FALSE
    OBVIOUS
  <2>1. Sizes \in SUBSET Nat
    BY <1>6
  <2>2. PICK k \in Sizes : \A j \in Sizes : k <= j
    BY <2>1, LeastNumber
  <2>3. PICK s \in SUBSET D : iter[s] # g[s] /\ k = Cardinality(s)
    OBVIOUS
  <2>4. s # {}
    BY <1>5, <2>3 DEF Totals
  <2> PICK x : x = First(s)
    OBVIOUS
  <2>5. x \in s /\ s \ {x} \in SUBSET D
    BY <1>2, <2>4
  <2>6. iter[s] = f[x] + iter[s \ {x}] /\ g[s] = f[x] + g[s \ {x}]
    BY <1>5, <2>4, <2>5 DEF Totals
  <2>7. Cardinality(s \ {x}) = k - 1 /\ k \in Nat
    BY <1>6, <2>3, <2>5, FS_RemoveElement
  <2>8. Cardinality(s \ {x}) \in Sizes
    BY <2>3, <2>5, <2>6
  <2> QED BY <2>2, <2>7, <2>8
<1> QED BY <1>1, <1>7

\* What a sum is of: nothing, the same again, and one thing more.
LEMMA SumOfNothing ==
    ASSUME NEW f
    PROVE  SumFunctionOnSet(f, {}) = 0
<1>1. PICK g : Totals(g, f, {})
  BY FS_EmptySet, TotalsExist
<1> QED BY <1>1, SumIsTotal, FS_EmptySet DEF Totals

LEMMA SumOfTheSame ==
    ASSUME NEW D, IsFiniteSet(D), NEW f, NEW h, \A x \in D : f[x] \in Int /\ h[x] = f[x]
    PROVE  SumFunctionOnSet(h, D) = SumFunctionOnSet(f, D)
<1>1. PICK g : Totals(g, f, D)
  BY TotalsExist
<1>2. Totals(g, h, D)
  BY <1>1 DEF Totals
<1> QED BY <1>1, <1>2, SumIsTotal

LEMMA SumOfOneMore ==
    ASSUME NEW D, IsFiniteSet(D), NEW x, x \notin D, NEW f, f[x] \in Int,
           \A y \in D : f[y] \in Int
    PROVE  SumFunctionOnSet(f, D \cup {x}) = SumFunctionOnSet(f, D) + f[x]
<1> PICK E : E = D \cup {x}
  OBVIOUS
<1>1. IsFiniteSet(E) /\ x \in E /\ E \ {x} = D /\ \A y \in E : f[y] \in Int
  BY FS_AddElement
<1>2. PICK g : Totals(g, f, E)
  BY <1>1, TotalsExist
<1>3. g[E] = f[x] + g[D] /\ g[D] \in Int
  BY <1>1, <1>2 DEF Totals
<1>4. SumFunctionOnSet(f, E) = g[E]
  BY <1>1, <1>2, SumIsTotal
<1>5. SumFunctionOnSet(f, D) = g[D]
  <2> DEFINE h == [s \in SUBSET D |-> g[s]]
  <2>1. Totals(h, f, D)
    <3>1. h \in [SUBSET D -> Int] /\ h[{}] = 0
      BY <1>1, <1>2 DEF Totals
    <3>2. ASSUME NEW s \in SUBSET D, NEW y \in s
          PROVE  h[s] = f[y] + h[s \ {y}]
      BY <1>1, <1>2 DEF Totals
    <3> QED BY <3>1, <3>2 DEF Totals
  <2> HIDE DEF h
  <2>2. SumFunctionOnSet(f, D) = h[D]
    BY <2>1, SumIsTotal
  <2> QED BY <2>2 DEF h
<1> QED BY <1>1, <1>3, <1>4, <1>5

(***************************************************************************)
(* The grant's usage                                                       *)
(***************************************************************************)

\* Who holds a reservation, and whose is over.
HeldStates == {"reserved", "dispatching", "succeeded", "unknown", "disputed"}
OverStates == {"failed", "cancelled", "settled"}
Held == InState(HeldStates)
Over == InState(OverStates)
Actual == [a \in DOMAIN attempts |-> attempts[a].actual]

\* The grant's usage is what its attempts reserve, what was charged for those that are
\* settled and given back of what was reserved for those that are over, and never more
\* than the grant.
UsageCounts ==
    /\ IsFiniteSet(Held) /\ IsFiniteSet(Over)
    /\ usage.settled \in Nat /\ usage.released \in Nat
    /\ usage.reserved = Reserve * Cardinality(Held)
    /\ usage.released + usage.settled = Reserve * Cardinality(Over)
    /\ usage.settled = Charged
    /\ usage.reserved + usage.settled <= CostCap

\* An attempt's charge is a number, and the settled attempts are finitely many.
LEMMA ChargesAreNumbers ==
    ASSUME DispatchInv
    PROVE  \A a \in DOMAIN attempts : Actual[a] = attempts[a].actual /\ Actual[a] \in Int
  BY AttemptIsTyped DEF DispatchInv, Actual, AttemptRow

LEMMA SettledIsFinite ==
    ASSUME UsageCounts
    PROVE  IsFiniteSet(InState({"settled"}))
<1>1. InState({"settled"}) \in SUBSET Over
  BY DEF Over, OverStates, InState
<1> QED BY <1>1, FS_Subset DEF UsageCounts

\* Where the settled attempts are the same, so is what they cost.
LEMMA ChargesStay ==
    ASSUME DispatchInv, UsageCounts, InState({"settled"})' = InState({"settled"}),
           \A a \in InState({"settled"}) : a \in DOMAIN attempts' /\ attempts'[a] = attempts[a]
    PROVE  Charged' = Charged
<1>1. \A a \in InState({"settled"}) : Actual[a] \in Int /\ Actual'[a] = Actual[a]
  BY ChargesAreNumbers DEF Actual, InState
<1> PICK S : S = InState({"settled"})
  OBVIOUS
<1>2. IsFiniteSet(S) /\ \A a \in S : Actual[a] \in Int /\ Actual'[a] = Actual[a]
  BY <1>1, SettledIsFinite
<1>3. SumFunctionOnSet(Actual', S) = SumFunctionOnSet(Actual, S)
  BY <1>2, SumOfTheSame
<1> QED BY <1>3 DEF Charged, Actual

\* One attempt more that is settled costs what it was charged.
LEMMA ChargesAdd ==
    ASSUME DispatchInv, UsageCounts, NEW a \in DOMAIN attempts, attempts[a].state # "settled",
           DOMAIN attempts' = DOMAIN attempts, attempts'[a].state = "settled",
           attempts'[a].actual \in Int,
           \A b \in DOMAIN attempts : b # a => attempts'[b] = attempts[b]
    PROVE  Charged' = Charged + attempts'[a].actual
<1> PICK S, f, h : S = InState({"settled"}) /\ f = Actual /\ h = Actual'
  OBVIOUS
<1>1. IsFiniteSet(S) /\ a \notin S
  BY SettledIsFinite DEF InState
<1>2. InState({"settled"})' = S \cup {a}
  BY DEF InState
<1>3. \A b \in S : f[b] \in Int /\ h[b] = f[b]
  BY <1>1, ChargesAreNumbers DEF Actual, InState
<1>4. h[a] = attempts'[a].actual
  BY DEF Actual
<1>5. SumFunctionOnSet(h, S) = SumFunctionOnSet(f, S)
  BY <1>1, <1>3, SumOfTheSame
<1>6. SumFunctionOnSet(h, S \cup {a}) = SumFunctionOnSet(h, S) + h[a]
  <2>1. h[a] \in Int /\ \A b \in S : h[b] \in Int
    BY <1>3, <1>4
  <2> QED BY <1>1, <2>1, SumOfOneMore
<1> QED BY <1>2, <1>4, <1>5, <1>6 DEF Charged, Actual

LEMMA OneMore ==
    ASSUME NEW r \in Nat, NEW k \in Nat
    PROVE  r * (k + 1) = r * k + r /\ r * k \in Nat
  OBVIOUS

LEMMA UsageIsTyped ==
    ASSUME DispatchInv
    PROVE  /\ usage \in [dispatches : 0..MaxCalls, reserved : Int, settled : Int, released : Int]
           /\ usage.reserved \in Int /\ usage.settled \in Int /\ usage.released \in Int
  BY DEF DispatchInv, Typed, LedgerTyped

\* Steps that turn an attempt within its reservation.
LEMMA CountStays ==
    ASSUME DispatchInv, UsageCounts, UNCHANGED usage,
           \/ UNCHANGED attempts
           \/ \E a \in DOMAIN attempts, state \in HeldStates : \E claim :
                Turned(a, state, claim) /\ attempts[a].state \in HeldStates
    PROVE  UsageCounts'
<1> DEFINE Settled == InState({"settled"})
           Same == \A a \in Settled : a \in DOMAIN attempts' /\ attempts'[a] = attempts[a]
<1>1. Held' = Held /\ Over' = Over /\ Settled' = Settled /\ Same
  <2>1. CASE UNCHANGED attempts
    BY <2>1 DEF Held, Over, InState
  <2>2. ASSUME NEW a \in DOMAIN attempts, NEW state \in HeldStates, NEW claim,
               Turned(a, state, claim), attempts[a].state \in HeldStates
        PROVE  Held' = Held /\ Over' = Over /\ Settled' = Settled /\ Same
    <3>1. /\ DOMAIN attempts' = DOMAIN attempts /\ attempts'[a].state = state
          /\ \A b \in DOMAIN attempts : b # a => attempts'[b] = attempts[b]
      BY <2>2 DEF Turned
    <3>2. HeldStates \cap OverStates = {}
      BY DEF HeldStates, OverStates
    <3>3. \A b \in DOMAIN attempts : /\ attempts'[b].state \in HeldStates <=>
                                          attempts[b].state \in HeldStates
                                     /\ attempts'[b].state \in OverStates <=>
                                          attempts[b].state \in OverStates
      BY <2>2, <3>1, <3>2
    <3>4. state # "settled" /\ attempts[a].state # "settled"
      BY <2>2, <3>2 DEF OverStates
    <3> QED BY <3>1, <3>3, <3>4 DEF Held, Over, InState
  <2> QED BY <2>1, <2>2
<1>2. Charged' = Charged
  BY <1>1, ChargesStay
<1> QED BY <1>1, <1>2 DEF UsageCounts

\* An attempt's reservation is given up: some of it is settled, the rest released.
LEMMA CountReleases ==
    ASSUME DispatchInv, UsageCounts, NEW a \in DOMAIN attempts, NEW state \in OverStates,
           NEW claim, Turned(a, state, claim), attempts[a].state \in HeldStates,
           \/ state # "settled" /\ Released
           \/ state = "settled" /\ SettledUsage(a)
    PROVE  UsageCounts'
<1>1. /\ DOMAIN attempts' = DOMAIN attempts /\ attempts'[a].state = state
      /\ \A b \in DOMAIN attempts : b # a => attempts'[b] = attempts[b]
  BY DEF Turned
<1>2. HeldStates \cap OverStates = {}
  BY DEF HeldStates, OverStates
<1>3. a \in Held /\ a \notin Over /\ Held' = Held \ {a} /\ Over' = Over \cup {a}
  BY <1>1, <1>2 DEF Held, Over, InState
<1>4. PICK before, after : before = Cardinality(Held') /\ after = Cardinality(Over)
  OBVIOUS
<1>5. /\ IsFiniteSet(Held') /\ IsFiniteSet(Over') /\ before \in Nat /\ after \in Nat
      /\ Cardinality(Held) = before + 1 /\ Cardinality(Over') = after + 1
  <2>1. IsFiniteSet(Held) /\ IsFiniteSet(Over)
    BY DEF UsageCounts
  <2>2. IsFiniteSet(Held') /\ Cardinality(Held') = Cardinality(Held) - 1
        /\ Cardinality(Held) \in Nat /\ Cardinality(Held') \in Nat
    BY <1>3, <2>1, FS_RemoveElement, FS_CardinalityType
  <2>3. IsFiniteSet(Over') /\ Cardinality(Over') = Cardinality(Over) + 1
        /\ Cardinality(Over) \in Nat
    BY <1>3, <2>1, FS_AddElement, FS_CardinalityType
  <2> QED BY <1>4, <2>2, <2>3
<1>6. PICK cost \in 0..Reserve :
        /\ IF state = "settled" THEN attempts'[a].actual = cost ELSE cost = 0
        /\ usage'.reserved = usage.reserved - Reserve
        /\ usage'.settled = usage.settled + cost
        /\ usage'.released = usage.released + (Reserve - cost)
  <2>1. CASE state # "settled" /\ Released
    <3>1. /\ usage'.reserved = usage.reserved - Reserve /\ usage'.settled = usage.settled
          /\ usage'.released = usage.released + Reserve
      BY <2>1, UsageIsTyped DEF Released
    <3>2. 0 \in 0..Reserve /\ usage.settled + 0 = usage.settled /\ Reserve - 0 = Reserve
      BY UsageIsTyped, BoundsAreNumbers
    <3> QED BY <2>1, <3>1, <3>2
  <2>2. CASE state = "settled" /\ SettledUsage(a)
    <3> PICK cost \in 0..Reserve :
          /\ attempts'[a].actual = cost
          /\ usage' = [usage EXCEPT !.reserved = @ - Reserve, !.settled = @ + cost,
                                    !.released = @ + (Reserve - cost)]
      BY <2>2 DEF SettledUsage
    <3> QED BY <2>2, UsageIsTyped
  <2> QED BY <2>1, <2>2
<1>7. /\ Reserve \in Nat /\ CostCap \in Nat
      /\ Reserve * (before + 1) = Reserve * before + Reserve /\ Reserve * before \in Nat
      /\ Reserve * (after + 1) = Reserve * after + Reserve /\ Reserve * after \in Nat
  BY <1>5, OneMore, BoundsAreNumbers
<1>8. /\ usage.reserved = Reserve * before + Reserve
      /\ usage.released + usage.settled = Reserve * after
      /\ usage.settled \in Nat /\ usage.released \in Nat
      /\ usage.reserved + usage.settled <= CostCap
  BY <1>4, <1>5, <1>7 DEF UsageCounts
<1>9. usage'.reserved = Reserve * before
  <2> PICK x : x = Reserve * before
    OBVIOUS
  <2> QED BY <1>6, <1>7, <1>8
<1>10. usage'.released + usage'.settled = Reserve * (after + 1)
  <2> PICK x : x = Reserve * after
    OBVIOUS
  <2> QED BY <1>6, <1>7, <1>8
<1>11. usage'.settled \in Nat /\ usage'.released \in Nat
  BY <1>6, <1>7, <1>8
<1>12. usage'.reserved + usage'.settled <= CostCap
  <2> PICK x : x = Reserve * before
    OBVIOUS
  <2> QED BY <1>6, <1>7, <1>8
<1>13. usage'.settled = Charged'
  <2>1. attempts[a].state # "settled" /\ cost \in Int /\ usage.settled = Charged
    BY <1>2, <1>7 DEF OverStates, UsageCounts
  <2>2. CASE state = "settled"
    <3>1. attempts'[a].actual = cost
      BY <1>6, <2>2
    <3>2. Charged' = Charged + cost
      BY <1>1, <2>1, <2>2, <3>1, ChargesAdd
    <3> QED BY <1>6, <2>1, <3>2
  <2>3. CASE state # "settled"
    <3>1. cost = 0 /\ usage'.settled = usage.settled
      BY <1>6, <1>8, <2>3
    <3>2. InState({"settled"})' = InState({"settled"})
      BY <1>1, <2>1, <2>3 DEF InState
    <3>3. \A b \in InState({"settled"}) : b \in DOMAIN attempts' /\ attempts'[b] = attempts[b]
      BY <1>1, <2>1 DEF InState
    <3>4. Charged' = Charged
      BY <3>2, <3>3, ChargesStay
    <3> QED BY <2>1, <3>1, <3>4
  <2> QED BY <2>2, <2>3
<1> QED BY <1>4, <1>5, <1>9, <1>10, <1>11, <1>12, <1>13 DEF UsageCounts

\* Another attempt makes its reservation where the grant has room.
LEMMA CountReserves ==
    ASSUME DispatchInv, UsageCounts, NEW s, NEW c, Room, NewAttempt(s, c), Added(s, c)
    PROVE  UsageCounts'
<1> PICK n : n = Len(attempts')
  OBVIOUS
<1>1. /\ DOMAIN attempts' = DOMAIN attempts \cup {n} /\ n \notin DOMAIN attempts
      /\ attempts'[n].state = "reserved"
      /\ \A b \in DOMAIN attempts : attempts'[b] = attempts[b]
  <2>1. attempts \in Seq(AttemptRow) /\ attempts' \in Seq(AttemptRow)
    BY DEF Added, DispatchInv, Typed, LedgerTyped
  <2>2. n = Len(attempts) + 1 /\ attempts'[n].state = "reserved"
        /\ \A b \in DOMAIN attempts : attempts'[b] = attempts[b]
    BY DEF Added
  <2>3. DOMAIN attempts = 1..Len(attempts) /\ DOMAIN attempts' = 1..n /\ Len(attempts) \in Nat
    BY <2>1
  <2> QED BY <2>2, <2>3
<1>2. Held' = Held \cup {n} /\ n \notin Held /\ Over' = Over
  BY <1>1 DEF Held, Over, InState, HeldStates, OverStates
<1>3. PICK before : before = Cardinality(Held)
  OBVIOUS
<1>4. /\ IsFiniteSet(Held') /\ IsFiniteSet(Over') /\ before \in Nat
      /\ Cardinality(Held') = before + 1
  BY <1>2, <1>3, FS_AddElement, FS_CardinalityType DEF UsageCounts
<1>5. /\ usage'.reserved = usage.reserved + Reserve /\ usage'.settled = usage.settled
      /\ usage'.released = usage.released
  BY UsageIsTyped DEF NewAttempt
<1>6. /\ Reserve \in Nat /\ CostCap \in Nat
      /\ Reserve * (before + 1) = Reserve * before + Reserve /\ Reserve * before \in Nat
  BY <1>4, OneMore, BoundsAreNumbers
<1>7. usage'.reserved = Reserve * (before + 1)
  BY <1>3, <1>5, <1>6 DEF UsageCounts
<1>8. usage'.reserved + usage'.settled <= CostCap
  BY <1>5, <1>6, UsageIsTyped DEF Room
<1>9. Charged' = Charged
  <2>1. InState({"settled"})' = InState({"settled"})
    BY <1>1 DEF InState
  <2>2. \A b \in InState({"settled"}) : b \in DOMAIN attempts' /\ attempts'[b] = attempts[b]
    BY <1>1 DEF InState
  <2> QED BY <2>1, <2>2, ChargesStay
<1> QED BY <1>2, <1>3, <1>4, <1>5, <1>7, <1>8, <1>9 DEF UsageCounts

LEMMA UsageStep ==
    ASSUME DispatchInv, UsageCounts, [Next]_vars
    PROVE  UsageCounts'
<1> USE DEF DispatchInv
<1>1. ASSUME UNCHANGED <<attempts, usage>>
      PROVE  UsageCounts'
  BY <1>1, CountStays
<1>2. CASE UNCHANGED vars
  BY <1>1, <1>2 DEF vars, ledgerVars
<1>3. CASE Tick \/ Administer \/ \E s \in Sessions, ttl \in 1..LeaseTtl : TakeLease(s, ttl)
  BY <1>1, <1>3
     DEF Tick, Administer, TakeLease, Pause, Resume, IssueGrant, ConsumeGrant, CloseGrant,
         DecideRetry, IssueAuth, RevokeBundle, EndAuth, CreateBundle, ledgerVars
<1>4. ASSUME NEW w \in Workers, Work(w)
      PROVE  UsageCounts'
  <2> PICK a : a = worker[w].attempt
    OBVIOUS
  <2>0. worker[w].pc # "idle" => a \in DOMAIN attempts
    BY WorkerHasAttempt
  <2>1. ASSUME NEW c \in Calls, Claim(w, c) \/ Prepare(w, c)
        PROVE  UsageCounts'
    <3>1. /\ Room /\ NewAttempt(worker[w].session, c) /\ Alive(lease.expires)
          /\ worker[w].session \in Sessions
      BY <2>1, WorkerIsTyped DEF Claim, Prepare, ClaimNew, ClaimRetry, Holds
    <3>2. Added(worker[w].session, c)
      BY <3>1, AddsAttempt DEF OrderTells
    <3> QED BY <3>1, <3>2, CountReserves
  <2>2. CASE Start(w) \/ StartLive(w)
    <3>1. worker[w].pc # "idle"
      BY <2>2 DEF Start, StartLive
    <3> QED BY <2>0, <2>2, <3>1, StartStep, CountStays DEF HeldStates
  <2>3. CASE MarkUnknown(w)
    <3>1. worker[w].pc # "idle" /\ UNCHANGED usage
      BY <2>3 DEF MarkUnknown
    <3> QED BY <2>0, <2>3, <3>1, UnknownStep, CountStays DEF HeldStates
  <2>4. CASE RecordFailed(w) \/ RecordSuccess(w)
    <3>1. worker[w].pc # "idle"
      BY <2>4 DEF RecordFailed, RecordSuccess
    <3> QED BY <2>0, <2>4, <3>1, RecordStep, CountStays, CountReleases
            DEF HeldStates, OverStates
  <2>5. CASE Attest(w)
    <3>1. worker[w].pc # "idle"
      BY <2>5 DEF Attest
    <3> QED BY <2>0, <2>5, <3>1, AttestStep, CountStays, CountReleases
            DEF HeldStates, OverStates
  <2>6. CASE AbortBeforeSend(w)
    <3>1. worker[w].pc # "idle"
      BY <2>6 DEF AbortBeforeSend
    <3> QED BY <2>0, <2>6, <3>1, AbortStep, CountReleases DEF HeldStates, OverStates
  <2>7. CASE \/ Cross(w) \/ SendFails(w) \/ PauseDisputed(w) \/ MarkOutcome(w) \/ Restart(w)
             \/ RecordRefused(w)
             \/ \E answer \in {"known_failure", "bad_reply", "unknown"} \cup Costs :
                  Send(w, answer)
    BY <1>1, <2>7
       DEF Cross, SendFails, PauseDisputed, MarkOutcome, Restart, RecordRefused, Send, ledgerVars
  <2>8. ASSUME NEW c \in Calls, ClaimReserved(w, c) \/ Assign(w, c) \/ PrepareAgain(w, c)
        PROVE  UsageCounts'
    BY <1>1, <2>8 DEF ClaimReserved, Assign, PrepareAgain, ledgerVars
  <2>9. LiveCalls \subseteq Calls
    BY CallsAssumption
  <2> QED BY <1>4, <2>1, <2>2, <2>3, <2>4, <2>5, <2>6, <2>7, <2>8, <2>9 DEF Work
<1> QED BY <1>2, <1>3, <1>4 DEF Next

LEMMA CountedHolds == Spec => [](DispatchInv /\ UsageCounts)
<1>1. Init => UsageCounts
  <2> SUFFICES ASSUME Init
               PROVE  UsageCounts
    OBVIOUS
  <2>1. Held = {} /\ Over = {}
    BY DEF Init, Held, Over, InState
  <2>2. IsFiniteSet({}) /\ Cardinality({}) = 0 /\ Reserve * 0 = 0
    BY FS_EmptySet, BoundsAreNumbers
  <2>3. Charged = 0
    <3>1. InState({"settled"}) = {}
      BY DEF Init, InState
    <3> QED BY <3>1, SumOfNothing DEF Charged
  <2> QED BY <2>1, <2>2, <2>3, BoundsAreNumbers DEF Init, UsageCounts
<1>2. DispatchInv /\ UsageCounts /\ [Next]_vars => UsageCounts'
  BY UsageStep
<1> QED BY <1>1, <1>2, DispatchInvHolds, PTL DEF Spec

\* The types follow from what the usage counts.
LEMMA TypesHold ==
    ASSUME DispatchInv, UsageCounts
    PROVE  TypeOK
<1>1. usage.reserved \in Nat
  <2>1. Cardinality(Held) \in Nat
    BY FS_CardinalityType DEF UsageCounts
  <2> QED BY <2>1, OneMore, BoundsAreNumbers DEF UsageCounts
<1>2. usage.reserved \in 0..CostCap /\ usage.settled \in 0..CostCap /\ usage.released \in Nat
  BY <1>1, BoundsAreNumbers DEF UsageCounts
<1>3. /\ usage \in [dispatches : 0..MaxCalls, reserved : 0..CostCap, settled : 0..CostCap,
                    released : Nat]
      /\ usage.reserved + usage.settled <= CostCap
  BY <1>2, UsageIsTyped DEF UsageCounts
<1>4. \A a \in DOMAIN attempts :
        attempts[a] \in [call : Calls, owner : Sessions, token : 1..MaxTakes,
                         state : AttemptStates, at : Nat, actual : Nat]
  BY AttemptIsTyped DEF AttemptRow, DispatchInv
<1>5. /\ \A n \in DOMAIN auths :
           auths[n] \in [state : {"active", "consumed", "revoked", "expired"}, expires : Nat]
      /\ assigned \in [Calls -> 0..MaxAuths]
  <2>1. /\ auths \in Seq(AuthRow) /\ Len(auths) <= MaxAuths
        /\ assigned \in [Calls -> 0..Len(auths)]
    BY DEF DispatchInv, Typed, LiveTyped
  <2>2. /\ \A n \in DOMAIN auths : auths[n] \in AuthRow
        /\ \A c \in Calls : assigned[c] \in 0..MaxAuths
    BY <2>1, BoundsAreNumbers
  <2> QED BY <2>1, <2>2 DEF AuthRow
<1> QED BY <1>3, <1>4, <1>5
        DEF TypeOK, DispatchInv, Typed, RunTyped, LedgerTyped, LiveTyped, WorkersTyped,
            PermitRow, WorkerRow

\* Every variable keeps its type.
THEOREM TypeCorrect == Spec => []TypeOK
  BY TypesHold, CountedHolds, PTL

\* The grant's usage is what its attempts add up to: what is reserved, charged and given
\* back are those of its attempts, through retries, failures, disputes and aborts.
THEOREM UsageAddsUp == Spec => []UsageReconstructs
<1>1. ASSUME DispatchInv, UsageCounts
      PROVE  UsageReconstructs
  <2>1. TypeOK
    BY <1>1, TypesHold
  <2>2. usage.dispatches = Len(attempts) /\ usage.released \in Int /\ usage.settled \in Int
    BY <1>1 DEF DispatchInv, Typed, LedgerTyped
  <2>3. Cardinality(Over) \in Nat /\ Reserve * Cardinality(Over) \in Int
    BY <1>1, FS_CardinalityType, OneMore, BoundsAreNumbers DEF UsageCounts
  <2>4. /\ usage.settled = Charged
        /\ usage.reserved = Reserve * Cardinality(Held)
        /\ usage.released + usage.settled = Reserve * Cardinality(Over)
    BY <1>1 DEF UsageCounts
  <2>5. usage.released = Reserve * Cardinality(Over) - Charged
    BY <2>2, <2>3, <2>4
  <2> QED BY <2>1, <2>2, <2>4, <2>5
          DEF UsageReconstructs, Held, Over, HeldStates, OverStates
<1> QED BY <1>1, CountedHolds, PTL
=============================================================================
