--------------------------- MODULE LongRunProofs ---------------------------
(***************************************************************************)
(* Proofs about LongRun, for any sessions, caps, commands, lengths and     *)
(* bounds.                                                                 *)
(***************************************************************************)
EXTENDS LongRun, Integers, FiniteSetTheorems, SequenceTheorems, WellFoundedInduction, TLAPS

(***************************************************************************)
(* The invariant                                                           *)
(***************************************************************************)
IterationRow == [in : Nat, out : Nat, state : {"open", "completed", "failed"},
                 calls : 0..CallsPerIteration]

WindowRow == [state : WindowStates, session : Sessions, token : 1..MaxTakes, expires : Nat,
              cap : Caps, pool : BOOLEAN, hash : Nat, next : 1..(MaxIterations + 1),
              permit : 0..MaxIterations, consumed : BOOLEAN, cost : Nat, idle : 0..IdleCap]

PermitRow == [window : 1..MaxWindows, session : Sessions, token : 1..MaxTakes, hash : Nat,
              expires : Nat, consumed : BOOLEAN]

SettledRow == [in : Nat, out : Nat, cost : Nat]

ApprovalRow == [state : {"none", "issued", "consumed"}, hash : Nat,
                session : Sessions \cup {NoOne}, token : 0..MaxTakes, expires : Nat]

WorkerRow == [at : Places, window : 0..MaxWindows, permit : 0..MaxIterations]

PacketStates == {"none", "issued", "consumed"}

\* The run, its lease and what is not a window's.
RunTyped ==
    /\ clock \in 1..MaxTime
    /\ lease \in [session : Sessions \cup {NoOne}, token : 0..MaxTakes, expires : Nat]
    /\ lease.session # NoOne => lease.token > 0
    /\ run \in [hash : Nat, open : 0..Len(iterations)]
    /\ iterations \in Seq(IterationRow)
    /\ approvals \in [Numbers -> ApprovalRow]
    /\ used \in 0..Members
    /\ commands \in 0..MaxCommands

\* What the settled iterations cost, and how many of the first changed nothing.
CostsOf(record) == [n \in Numbers |-> IF n \in DOMAIN record THEN record[n].cost ELSE 0]
IdleUpTo(record, last) == {n \in 1..last : n \in DOMAIN record /\ record[n].in = record[n].out}

\* All iterations before a window's next one are settled, it waits at the end of the last
\* of them, and has used what they used.
Accounts(window, record) ==
    /\ 1..(window.next - 1) \subseteq DOMAIN record
    /\ window.next # 1 => record[window.next - 1].out = window.hash
    /\ window.cost = Spent(CostsOf(record))[window.next - 1]
    /\ window.idle = Cardinality(IdleUpTo(record, window.next - 1))

\* A window's permit is for its next iteration, and a window with a consumed one is open.
Awaits(window, minted) ==
    /\ window.cost <= window.cap
    /\ window.permit \in {0, window.next}
    /\ window.permit # 0 => window.permit \in DOMAIN minted /\ window.idle < IdleCap
    /\ window.consumed => /\ window.permit # 0 /\ minted[window.permit].consumed
                          /\ window.state = "active"

WindowsTell ==
    /\ windows \in Seq(WindowRow) /\ Len(windows) <= MaxWindows
    /\ \A w \in DOMAIN windows :
         Accounts(windows[w], settled) /\ Awaits(windows[w], permits)

PermitsTell ==
    /\ permits \in [DOMAIN permits -> PermitRow] /\ DOMAIN permits \subseteq Numbers
    /\ \A n \in DOMAIN permits : /\ permits[n].window \in DOMAIN windows
                                 /\ 1..(n - 1) \subseteq DOMAIN settled
    /\ packets \in [DOMAIN permits -> PacketStates]

\* Each settled iteration began where the one before it ended.
Chained(record) ==
    \A n \in DOMAIN record \ {1} : n - 1 \in DOMAIN record /\ record[n - 1].out = record[n].in

SettledTells ==
    /\ settled \in [DOMAIN settled -> SettledRow] /\ DOMAIN settled \subseteq DOMAIN permits
    /\ Chained(settled)

\* An executor's permit is of its window.
WorkerTells(s) ==
    worker[s].at # "idle" =>
      /\ worker[s].permit \in DOMAIN permits
      /\ worker[s].window = permits[worker[s].permit].window
      /\ worker[s].at \in {"running", "done"} => worker[s].permit \in DOMAIN iterations

WorkersTell ==
    /\ worker \in [Sessions -> WorkerRow]
    /\ \A s \in Sessions : WorkerTells(s)

LongRunInv == RunTyped /\ WindowsTell /\ PermitsTell /\ SettledTells /\ WorkersTell

(***************************************************************************)
(* What the iterations cost, one after the other                           *)
(***************************************************************************)
LEMMA BoundsAreNumbers ==
    /\ Caps \subseteq Nat
    /\ PacketCap \in Nat /\ Members \in Nat /\ MaxTakes \in Nat /\ MaxCommands \in Nat
    /\ IdleCap \in Nat \ {0} /\ CallsPerIteration \in Nat \ {0} /\ MaxIterations \in Nat \ {0}
    /\ LeaseTtl \in Nat \ {0} /\ WindowTtl \in Nat \ {0} /\ PermitTtl \in Nat \ {0}
    /\ ApprovalTtl \in Nat \ {0} /\ MaxTime \in Nat \ {0} /\ MaxWindows \in Nat \ {0}
  BY LongRunBoundsAssumption

\* Some numbers have a least one.
LEMMA LeastNumber ==
    ASSUME NEW S \in SUBSET Nat, S # {}
    PROVE  \E n \in S : \A m \in S : n <= m
<1>1. PICK n \in S : \A m \in S : ~(<<m, n>> \in OpToRel(<, Nat))
  BY NatLessThanWellFounded, WFMin
<1>2. \A m \in S : ~(m < n)
  BY <1>1 DEF OpToRel
<1> QED BY <1>2

\* The recursion of Spent has the solution it asks for, shown by the least number up to
\* which there is none.
LEMMA SpentAddsUp ==
    ASSUME NEW costs \in [Numbers -> Int]
    PROVE  /\ Spent(costs) \in [0..MaxIterations -> Int]
           /\ Spent(costs)[0] = 0
           /\ \A n \in Numbers : Spent(costs)[n] = Spent(costs)[n - 1] + costs[n]
<1> DEFINE UpTo(f, k) == /\ f \in [0..MaxIterations -> Int] /\ f[0] = 0
                         /\ \A n \in Numbers : n <= k => f[n] = f[n - 1] + costs[n]
           Missing == {k \in Nat : ~ \E f : UpTo(f, k)}
           Solves(f) == f = [n \in 0..MaxIterations |->
                               IF n = 0 THEN 0 ELSE f[n - 1] + costs[n]]
<1>1. MaxIterations \in Nat /\ Numbers = 1..MaxIterations
  BY BoundsAreNumbers DEF Numbers
<1>2. UpTo([n \in 0..MaxIterations |-> 0], 0)
  BY <1>1
<1>3. ASSUME NEW k \in Nat, NEW f, UpTo(f, k)
      PROVE  \E g : UpTo(g, k + 1)
  <2> DEFINE g == [n \in 0..MaxIterations |-> IF n <= k THEN f[n]
                                              ELSE IF n = k + 1 THEN f[k] + costs[n] ELSE 0]
  <2>1. g \in [0..MaxIterations -> Int] /\ g[0] = 0
    BY <1>1, <1>3
  <2>2. \A n \in Numbers : n <= k + 1 => g[n] = g[n - 1] + costs[n]
    BY <1>1, <1>3
  <2> HIDE DEF g
  <2> QED BY <2>1, <2>2
<1>4. Missing = {}
  <2> SUFFICES ASSUME Missing # {} PROVE FALSE
    OBVIOUS
  <2>1. PICK k \in Missing : \A j \in Missing : k <= j
    BY LeastNumber
  <2> HIDE DEF UpTo
  <2>2. k \in Nat /\ ~ \E f : UpTo(f, k)
    OBVIOUS
  <2>3. k - 1 \in Nat /\ k - 1 \notin Missing
    BY <1>2, <2>1, <2>2
  <2>4. \E g : UpTo(g, (k - 1) + 1)
    BY <1>3, <2>3
  <2> QED BY <2>2, <2>4
<1>5. PICK f : UpTo(f, MaxIterations)
  BY <1>1, <1>4
<1>6. Solves(f)
  <2>1. \A n \in 0..MaxIterations : f[n] = IF n = 0 THEN 0 ELSE f[n - 1] + costs[n]
    BY <1>1, <1>5
  <2> QED BY <1>5, <2>1
<1>7. Spent(costs) = CHOOSE g : Solves(g)
  BY DEF Spent
<1>8. Solves(Spent(costs))
  <2> HIDE DEF Solves
  <2> QED BY <1>6, <1>7
<1> PICK g : g = Spent(costs)
  OBVIOUS
<1>9. \A n \in 0..MaxIterations : g[n] = IF n = 0 THEN 0 ELSE g[n - 1] + costs[n]
  BY <1>8
<1> DEFINE Differ == {n \in 0..MaxIterations : g[n] # f[n]}
<1>10. Differ = {}
  <2> SUFFICES ASSUME Differ # {} PROVE FALSE
    OBVIOUS
  <2>1. Differ \in SUBSET Nat
    BY <1>1
  <2>2. PICK n \in Differ : \A m \in Differ : n <= m
    BY <2>1, LeastNumber
  <2>3. n \in Numbers /\ n - 1 \in 0..MaxIterations
    BY <1>1, <1>5, <1>9, <2>2
  <2>4. g[n - 1] = f[n - 1]
    BY <2>1, <2>2, <2>3
  <2>5. n \in 0..MaxIterations /\ n # 0 /\ n <= MaxIterations
    BY <1>1, <2>2, <2>3
  <2>6. f[n] = f[n - 1] + costs[n]
    BY <1>5, <2>3, <2>5
  <2>7. g[n] = g[n - 1] + costs[n]
    BY <1>9, <2>5
  <2> QED BY <2>2, <2>4, <2>6, <2>7
<1>11. DOMAIN g = 0..MaxIterations /\ g = [n \in 0..MaxIterations |-> g[n]]
  BY <1>8
<1>12. g = f
  BY <1>5, <1>10, <1>11
<1> QED BY <1>1, <1>5, <1>12

\* What is spent up to some iteration depends on nothing after it.
LEMMA SpentOfTheSame ==
    ASSUME NEW costs \in [Numbers -> Int], NEW others \in [Numbers -> Int],
           NEW k \in 0..MaxIterations, \A n \in 1..k : costs[n] = others[n]
    PROVE  Spent(costs)[k] = Spent(others)[k]
<1> PICK f, g : f = Spent(costs) /\ g = Spent(others)
  OBVIOUS
<1> DEFINE Differ == {n \in 0..k : f[n] # g[n]}
<1>1. MaxIterations \in Nat /\ Numbers = 1..MaxIterations
  BY BoundsAreNumbers DEF Numbers
<1>2. Differ = {}
  <2> SUFFICES ASSUME Differ # {} PROVE FALSE
    OBVIOUS
  <2>1. Differ \in SUBSET Nat
    BY <1>1
  <2>2. PICK n \in Differ : \A m \in Differ : n <= m
    BY <2>1, LeastNumber
  <2>3. n # 0
    BY <2>2, SpentAddsUp
  <2>4. n \in Numbers /\ n \in 1..k /\ n - 1 \in 0..k
    BY <1>1, <2>2, <2>3
  <2>5. f[n - 1] = g[n - 1]
    BY <2>1, <2>2, <2>4
  <2>6. f[n] = f[n - 1] + costs[n] /\ g[n] = g[n - 1] + others[n]
    BY <2>4, SpentAddsUp
  <2> QED BY <2>2, <2>4, <2>5, <2>6
<1> QED BY <1>1, <1>2

(***************************************************************************)
(* The account of a window                                                 *)
(***************************************************************************)
Record(record) == record \in [DOMAIN record -> SettledRow] /\ DOMAIN record \subseteq Numbers

\* One iteration more is settled.
Grown(record, other, n) ==
    /\ n \notin DOMAIN record /\ DOMAIN other = DOMAIN record \cup {n}
    /\ \A m \in DOMAIN record : other[m] = record[m]

LEMMA CostsAreNumbers ==
    ASSUME NEW record, Record(record)
    PROVE  CostsOf(record) \in [Numbers -> Int]
  BY DEF Record, CostsOf, SettledRow

LEMMA IdleIsFinite ==
    ASSUME NEW record, NEW last \in Nat
    PROVE  IsFiniteSet(IdleUpTo(record, last)) /\ Cardinality(IdleUpTo(record, last)) \in Nat
<1>1. IsFiniteSet(1..last) /\ IdleUpTo(record, last) \in SUBSET (1..last)
  BY FS_Interval DEF IdleUpTo
<1> QED BY <1>1, FS_Subset, FS_CardinalityType

\* An account is of what a window says of its past, and nothing else of it.
LEMMA AccountIsKept ==
    ASSUME NEW window, NEW other, NEW record, Accounts(window, record),
           other.next = window.next, other.hash = window.hash, other.cost = window.cost,
           other.idle = window.idle
    PROVE  Accounts(other, record)
  BY DEF Accounts

\* Another window's settlement is after all that a window has to account for.
LEMMA AccountStands ==
    ASSUME NEW window \in WindowRow, NEW record, NEW other, NEW n \in Numbers,
           Record(record), Record(other), Accounts(window, record), Grown(record, other, n)
    PROVE  Accounts(window, other)
<1> PICK last : last = window.next - 1
  OBVIOUS
<1>1. last \in Nat /\ last \in 0..MaxIterations /\ 1..last \subseteq DOMAIN record
      /\ window.next \in Nat /\ MaxIterations \in Nat
  BY BoundsAreNumbers DEF WindowRow, Accounts
<1>2. \A m \in 1..last : m \in DOMAIN other /\ other[m] = record[m]
  BY <1>1 DEF Grown
<1>3. Spent(CostsOf(other))[last] = Spent(CostsOf(record))[last]
  <2>1. \A m \in 1..last : CostsOf(other)[m] = CostsOf(record)[m]
    BY <1>1, <1>2 DEF CostsOf, Numbers
  <2> QED BY <1>1, <2>1, CostsAreNumbers, SpentOfTheSame
<1>4. IdleUpTo(other, last) = IdleUpTo(record, last)
  BY <1>1, <1>2 DEF IdleUpTo
<1>5. window.next # 1 => last \in 1..last
  BY <1>1
<1> QED BY <1>1, <1>2, <1>3, <1>4, <1>5 DEF Accounts

\* The window that settles accounts for one iteration more.
LEMMA AccountGrows ==
    ASSUME NEW window \in WindowRow, NEW after \in WindowRow, NEW record, NEW other,
           NEW n \in Numbers, Record(record), Record(other), Accounts(window, record),
           Grown(record, other, n), n = window.next, after.next = n + 1,
           after.hash = other[n].out, after.cost = window.cost + other[n].cost,
           after.idle = window.idle + IF other[n].out = other[n].in THEN 1 ELSE 0
    PROVE  Accounts(after, other)
<1> PICK last : last = n - 1
  OBVIOUS
<1>1. last \in Nat /\ last \in 0..MaxIterations /\ 1..last \subseteq DOMAIN record
      /\ n \in Nat /\ n = last + 1 /\ MaxIterations \in Nat /\ n \in DOMAIN other
      /\ 1..n = (1..last) \cup {n}
  BY BoundsAreNumbers DEF Numbers, Accounts, Grown
<1>2. \A m \in 1..last : m \in DOMAIN other /\ other[m] = record[m]
  BY <1>1 DEF Grown
<1>3. after.cost = Spent(CostsOf(other))[n]
  <2>1. \A m \in 1..last : CostsOf(other)[m] = CostsOf(record)[m]
    BY <1>1, <1>2 DEF CostsOf, Numbers
  <2>2. Spent(CostsOf(other))[last] = Spent(CostsOf(record))[last]
    BY <1>1, <2>1, CostsAreNumbers, SpentOfTheSame
  <2>3. Spent(CostsOf(other))[n] = Spent(CostsOf(other))[last] + CostsOf(other)[n]
    BY CostsAreNumbers, SpentAddsUp
  <2>4. CostsOf(other)[n] = other[n].cost
    BY <1>1 DEF CostsOf
  <2>5. window.cost = Spent(CostsOf(record))[last]
    BY DEF Accounts
  <2> QED BY <2>2, <2>3, <2>4, <2>5
<1>4. after.idle = Cardinality(IdleUpTo(other, n))
  <2>1. IdleUpTo(other, last) = IdleUpTo(record, last) /\ n \notin IdleUpTo(record, last)
    BY <1>1, <1>2 DEF IdleUpTo
  <2>2. window.idle = Cardinality(IdleUpTo(record, last))
    BY DEF Accounts
  <2>3. IsFiniteSet(IdleUpTo(record, last)) /\ Cardinality(IdleUpTo(record, last)) \in Nat
    BY <1>1, IdleIsFinite
  <2>4. CASE other[n].in = other[n].out
    <3>1. IdleUpTo(other, n) = IdleUpTo(record, last) \cup {n}
      BY <1>1, <2>1, <2>4 DEF IdleUpTo
    <3>2. Cardinality(IdleUpTo(other, n)) = window.idle + 1
      <4> PICK S : S = IdleUpTo(record, last)
        OBVIOUS
      <4>1. IsFiniteSet(S) /\ n \notin S /\ window.idle = Cardinality(S)
        BY <2>1, <2>2, <2>3
      <4>2. Cardinality(S \cup {n}) = Cardinality(S) + 1
        BY <4>1, FS_AddElement
      <4> QED BY <3>1, <4>1, <4>2
    <3>3. after.idle = window.idle + 1
      BY <2>4
    <3> QED BY <3>2, <3>3
  <2>5. CASE other[n].in # other[n].out
    <3>1. IdleUpTo(other, n) = IdleUpTo(record, last)
      BY <1>1, <2>1, <2>5 DEF IdleUpTo
    <3> QED BY <2>2, <2>3, <2>5, <3>1
  <2> QED BY <2>4, <2>5
<1>5. after.next - 1 = n /\ 1..n \subseteq DOMAIN other
  BY <1>1, <1>2
<1> QED BY <1>3, <1>4, <1>5 DEF Accounts

\* And continues the chain where it waited.
LEMMA ChainGrows ==
    ASSUME NEW window \in WindowRow, NEW record, NEW other, NEW n \in Numbers,
           Record(record), Chained(record), Accounts(window, record), Grown(record, other, n),
           n = window.next, other[n].in = window.hash
    PROVE  Chained(other)
<1> SUFFICES ASSUME NEW m \in DOMAIN other \ {1}
             PROVE  m - 1 \in DOMAIN other /\ other[m - 1].out = other[m].in
  BY DEF Chained
<1>1. CASE m \in DOMAIN record
  BY <1>1 DEF Chained, Grown
<1>2. CASE m = n
  <2>1. n # 1 /\ n \in Nat /\ n > 0 /\ n - 1 \in 1..(n - 1)
    BY <1>2, BoundsAreNumbers DEF Numbers
  <2>2. n - 1 \in DOMAIN record /\ record[n - 1].out = window.hash
    BY <2>1 DEF Accounts
  <2> QED BY <1>2, <2>2 DEF Grown
<1> QED BY <1>1, <1>2 DEF Grown

(***************************************************************************)
(* What the parts of a step change                                         *)
(***************************************************************************)
\* A permit, a packet or a settlement of another number.
LEMMA FilesTyped ==
    ASSUME NEW T, NEW rows, rows \in [DOMAIN rows -> T], NEW n, NEW row \in T,
           NEW other, other = Filed(rows, n, row)
    PROVE  other \in [DOMAIN other -> T]
  BY DEF Filed

\* Permits keep their windows, and iterations stay.
PermitsStay ==
    \A n \in DOMAIN permits : n \in DOMAIN permits' /\ permits'[n].window = permits[n].window
IterationsStay == DOMAIN iterations \subseteq DOMAIN iterations'

LEMMA WindowsStand ==
    ASSUME WindowsTell, UNCHANGED <<windows, permits, settled>>
    PROVE  WindowsTell'
  BY DEF WindowsTell

LEMMA PermitsStand ==
    ASSUME PermitsTell, SettledTells, UNCHANGED <<permits, packets, settled>>,
           DOMAIN windows \subseteq DOMAIN windows'
    PROVE  PermitsTell' /\ SettledTells' /\ PermitsStay
  BY DEF PermitsTell, SettledTells, PermitsStay

LEMMA WorkersStand ==
    ASSUME WorkersTell, UNCHANGED worker, PermitsStay, IterationsStay
    PROVE  WorkersTell'
  BY DEF WorkersTell, WorkerTells, PermitsStay, IterationsStay

\* One executor turns to something else.
LEMMA WorkerTurns ==
    ASSUME WorkersTell, NEW s \in Sessions, NEW row \in WorkerRow,
           worker' = [worker EXCEPT ![s] = row], PermitsStay, IterationsStay,
           row.at # "idle" => /\ row.permit \in DOMAIN permits'
                              /\ row.window = permits'[row.permit].window
                              /\ row.at \in {"running", "done"} =>
                                   row.permit \in DOMAIN iterations'
    PROVE  WorkersTell'
<1>1. worker' \in [Sessions -> WorkerRow] /\ worker'[s] = row
      /\ \A r \in Sessions : r # s => worker'[r] = worker[r]
  BY DEF WorkersTell
<1>2. ASSUME NEW r \in Sessions
      PROVE  WorkerTells(r)'
  <2>1. CASE r = s
    BY <1>1, <2>1 DEF WorkerTells
  <2>2. CASE r # s
    BY <1>1, <2>2 DEF WorkersTell, WorkerTells, PermitsStay, IterationsStay
  <2> QED BY <2>1, <2>2
<1> QED BY <1>1, <1>2 DEF WorkersTell

LEMMA WorkerIsTyped ==
    ASSUME WorkersTell, NEW s \in Sessions
    PROVE  worker[s] \in WorkerRow /\ WorkerTells(s)
  BY DEF WorkersTell

\* It goes on, or is done.
LEMMA WorkerGoes ==
    ASSUME WorkersTell, NEW s \in Sessions, NEW from \in Places, NEW to \in Places,
           Goes(s, from, to), from # "idle", PermitsStay, IterationsStay,
           to \in {"running", "done"} => worker[s].permit \in DOMAIN iterations'
    PROVE  WorkersTell'
<1> DEFINE row == [worker[s] EXCEPT !.at = to]
<1>1. /\ row \in WorkerRow /\ row.at = to /\ row.permit = worker[s].permit
      /\ row.window = worker[s].window
  BY WorkerIsTyped DEF WorkerRow
<1>2. worker' = [worker EXCEPT ![s] = row] /\ worker[s].at = from
  BY DEF Goes
<1>3. worker[s].permit \in DOMAIN permits /\ worker[s].window = permits[worker[s].permit].window
  BY <1>2, WorkerIsTyped DEF WorkerTells
<1>4. row.permit \in DOMAIN permits' /\ row.window = permits'[row.permit].window
  BY <1>1, <1>3 DEF PermitsStay
<1> HIDE DEF row
<1> QED BY <1>1, <1>2, <1>4, WorkerTurns

LEMMA WorkerEnds ==
    ASSUME WorkersTell, NEW s \in Sessions, worker' = [worker EXCEPT ![s] = Idle],
           PermitsStay, IterationsStay
    PROVE  WorkersTell'
<1>1. Idle \in WorkerRow /\ Idle.at = "idle"
  BY BoundsAreNumbers DEF Idle, WorkerRow, Places
<1> QED BY <1>1, WorkerTurns

\* One window turns, with what it may account for and wait for.
LEMMA WindowTurns ==
    ASSUME WindowsTell, NEW w \in DOMAIN windows, NEW row \in WindowRow,
           windows' = [windows EXCEPT ![w] = row],
           Accounts(row, settled'), Awaits(row, permits'),
           \A v \in DOMAIN windows : v # w =>
             Accounts(windows[v], settled') /\ Awaits(windows[v], permits')
    PROVE  WindowsTell' /\ DOMAIN windows' = DOMAIN windows
<1>1. windows \in Seq(WindowRow) /\ Len(windows) <= MaxWindows
  BY DEF WindowsTell
<1>2. /\ windows' \in Seq(WindowRow) /\ Len(windows') = Len(windows)
      /\ DOMAIN windows' = DOMAIN windows /\ windows'[w] = row
      /\ \A v \in DOMAIN windows : v # w => windows'[v] = windows[v]
  BY <1>1
<1> QED BY <1>1, <1>2 DEF WindowsTell

\* Nothing settled and no permit minted.
LEMMA WindowTurnsAlone ==
    ASSUME WindowsTell, NEW w \in DOMAIN windows, NEW row \in WindowRow,
           windows' = [windows EXCEPT ![w] = row], UNCHANGED <<settled, permits>>,
           Accounts(row, settled), Awaits(row, permits)
    PROVE  WindowsTell' /\ DOMAIN windows' = DOMAIN windows
<1>1. \A v \in DOMAIN windows : Accounts(windows[v], settled) /\ Awaits(windows[v], permits)
  BY DEF WindowsTell
<1>2. settled' = settled /\ permits' = permits
  OBVIOUS
<1>3. Accounts(row, settled') /\ Awaits(row, permits')
  BY <1>2
<1>4. \A v \in DOMAIN windows : v # w =>
        Accounts(windows[v], settled') /\ Awaits(windows[v], permits')
  BY <1>1, <1>2
<1> QED BY <1>3, <1>4, WindowTurns

\* One window more.
LEMMA WindowOpens ==
    ASSUME WindowsTell, NEW row \in WindowRow, windows' = Append(windows, row),
           Len(windows) < MaxWindows, UNCHANGED <<settled, permits>>,
           Accounts(row, settled), Awaits(row, permits)
    PROVE  WindowsTell' /\ DOMAIN windows \subseteq DOMAIN windows'
<1>1. windows \in Seq(WindowRow) /\ Len(windows) \in Nat
  BY DEF WindowsTell
<1>2. /\ windows' \in Seq(WindowRow) /\ Len(windows') = Len(windows) + 1
      /\ windows'[Len(windows) + 1] = row
      /\ \A v \in DOMAIN windows : windows'[v] = windows[v]
      /\ DOMAIN windows' = DOMAIN windows \cup {Len(windows) + 1}
  BY <1>1
<1> QED BY <1>1, <1>2, BoundsAreNumbers DEF WindowsTell

LEMMA WindowIsTyped ==
    ASSUME WindowsTell, NEW w \in DOMAIN windows
    PROVE  windows[w] \in WindowRow /\ Accounts(windows[w], settled) /\ Awaits(windows[w], permits)
  BY DEF WindowsTell

\* A row of its kind: forgotten, new, or carried on.
LEMMA ForgottenTells ==
    ASSUME NEW window \in WindowRow, NEW state \in WindowStates, NEW record, NEW minted,
           Accounts(window, record), Awaits(window, minted)
    PROVE  /\ Forgotten(window, state) \in WindowRow
           /\ Accounts(Forgotten(window, state), record)
           /\ Awaits(Forgotten(window, state), minted)
<1> PICK row : row = Forgotten(window, state)
  OBVIOUS
<1>1. 0 \in 0..MaxIterations /\ FALSE \in BOOLEAN
  BY BoundsAreNumbers
<1>2. row \in WindowRow
  BY <1>1 DEF WindowRow, Forgotten
<1>3. /\ row.next = window.next /\ row.hash = window.hash /\ row.cost = window.cost
      /\ row.idle = window.idle /\ row.cap = window.cap /\ row.permit = 0 /\ row.consumed = FALSE
  BY DEF WindowRow, Forgotten
<1> QED BY <1>2, <1>3, AccountIsKept DEF Awaits

LEMMA NewWindowTells ==
    ASSUME RunTyped, Context, NEW cap \in Caps, SettledTells, PermitsTell
    PROVE  /\ NewWindow(cap) \in WindowRow
           /\ Accounts(NewWindow(cap), settled)
           /\ Awaits(NewWindow(cap), permits)
<1> PICK row : row = NewWindow(cap)
  OBVIOUS
<1>1. /\ lease.session \in Sessions /\ lease.token \in 1..MaxTakes /\ clock + WindowTtl \in Nat
      /\ run.hash \in Nat /\ cap \in Nat
  BY BoundsAreNumbers DEF RunTyped, Context
<1>2. /\ "active" \in WindowStates /\ 1 \in 1..(MaxIterations + 1) /\ 0 \in 0..MaxIterations
      /\ 0 \in 0..IdleCap
  BY BoundsAreNumbers DEF WindowStates
<1>3. row \in WindowRow
  BY <1>1, <1>2 DEF NewWindow, WindowRow
<1>4. /\ row.next = 1 /\ row.cost = 0 /\ row.idle = 0 /\ row.cap = cap /\ row.permit = 0
      /\ row.consumed = FALSE
  BY DEF NewWindow
<1>5. Record(settled)
  BY DEF Record, SettledTells, PermitsTell
<1>6. Spent(CostsOf(settled))[0] = 0
  BY <1>5, CostsAreNumbers, SpentAddsUp
<1>7. IdleUpTo(settled, 0) = {} /\ Cardinality({}) = 0
  BY FS_EmptySet DEF IdleUpTo
<1>8. Accounts(row, settled)
  BY <1>4, <1>6, <1>7 DEF Accounts
<1>9. Awaits(row, permits)
  BY <1>1, <1>4 DEF Awaits
<1> QED BY <1>3, <1>8, <1>9

LEMMA CarriedTells ==
    ASSUME RunTyped, Context, NEW cap \in Caps, SettledTells, PermitsTell,
           NEW window \in WindowRow, Accounts(window, settled), window.cost <= cap
    PROVE  /\ Carried(window, cap) \in WindowRow
           /\ Accounts(Carried(window, cap), settled)
           /\ Awaits(Carried(window, cap), permits)
<1> PICK new, row : new = NewWindow(cap) /\ row = Carried(window, cap)
  OBVIOUS
<1>1. new \in WindowRow
  BY NewWindowTells
<1>2. row = [new EXCEPT !.hash = window.hash, !.next = window.next,
                        !.cost = window.cost, !.idle = window.idle]
  BY DEF Carried
<1>3. /\ window.hash \in Nat /\ window.next \in 1..(MaxIterations + 1) /\ window.cost \in Nat
      /\ window.idle \in 0..IdleCap
  BY DEF WindowRow
<1>4. row \in WindowRow
  BY <1>1, <1>2, <1>3 DEF WindowRow
<1>5. /\ row.next = window.next /\ row.hash = window.hash /\ row.cost = window.cost
      /\ row.idle = window.idle
  BY <1>1, <1>2 DEF WindowRow
<1>6. row.cap = cap /\ row.permit = 0 /\ row.consumed = FALSE
  BY DEF Carried, NewWindow
<1> QED BY <1>4, <1>5, <1>6, AccountIsKept DEF Awaits

(***************************************************************************)
(* The steps                                                               *)
(***************************************************************************)

\* Steps that leave windows, permits, settlements and executors alone.
LEMMA AuthorityStands ==
    ASSUME LongRunInv, UNCHANGED <<authorityVars, worker>>, IterationsStay, RunTyped'
    PROVE  LongRunInv'
<1>1. UNCHANGED <<windows, permits, packets, settled>>
  BY DEF authorityVars
<1>2. WindowsTell'
  BY <1>1, WindowsStand DEF LongRunInv
<1>3. PermitsTell' /\ SettledTells' /\ PermitsStay
  BY <1>1, PermitsStand DEF LongRunInv
<1>4. WorkersTell'
  BY <1>3, WorkersStand DEF LongRunInv
<1> QED BY <1>2, <1>3, <1>4 DEF LongRunInv

LEMMA RunIsTyped ==
    ASSUME RunTyped
    PROVE  /\ clock \in Nat /\ lease.session \in Sessions \cup {NoOne}
           /\ lease.token \in 0..MaxTakes /\ run.hash \in Nat /\ run.open \in 0..Len(iterations)
           /\ Len(iterations) \in Nat /\ DOMAIN iterations = 1..Len(iterations)
           /\ \A n \in DOMAIN iterations : iterations[n] \in IterationRow
           /\ \A n \in Numbers : approvals[n] \in ApprovalRow
  BY BoundsAreNumbers DEF RunTyped

LEMMA RunStands ==
    ASSUME RunTyped, UNCHANGED <<clock, lease, runnerVars, approvals>>,
           commands' \in 0..MaxCommands
    PROVE  RunTyped' /\ IterationsStay
  BY DEF RunTyped, runnerVars, IterationsStay

LEMMA TickStep ==
    ASSUME LongRunInv, Tick
    PROVE  LongRunInv'
<1>1. clock' \in 1..MaxTime
  BY BoundsAreNumbers DEF Tick, LongRunInv, RunTyped
<1>2. RunTyped' /\ IterationsStay
  BY <1>1 DEF Tick, LongRunInv, RunTyped, runnerVars, IterationsStay
<1> QED BY <1>2, AuthorityStands DEF Tick

LEMMA TakeLeaseStep ==
    ASSUME LongRunInv, NEW s \in Sessions, TakeLease(s)
    PROVE  LongRunInv'
<1>1. lease.token + 1 \in 0..MaxTakes /\ lease.token + 1 > 0 /\ clock + LeaseTtl \in Nat
  BY RunIsTyped, BoundsAreNumbers DEF TakeLease, LongRunInv
<1>2. RunTyped' /\ IterationsStay
  BY <1>1 DEF TakeLease, LongRunInv, RunTyped, runnerVars, IterationsStay
<1> QED BY <1>2, AuthorityStands DEF TakeLease

(***************************************************************************)
(* The administrator's steps                                               *)
(***************************************************************************)
\* Steps of windows alone.
LEMMA WindowsMove ==
    ASSUME LongRunInv, WindowsTell', DOMAIN windows \subseteq DOMAIN windows',
           UNCHANGED <<clock, lease, runnerVars, permits, packets, settled, approvals, worker>>,
           commands' \in 0..MaxCommands
    PROVE  LongRunInv'
<1>1. RunTyped' /\ IterationsStay
  BY RunStands DEF LongRunInv
<1>2. PermitsTell' /\ SettledTells' /\ PermitsStay
  BY PermitsStand DEF LongRunInv
<1>3. WorkersTell'
  BY <1>1, <1>2, WorkersStand DEF LongRunInv
<1> QED BY <1>1, <1>2, <1>3 DEF LongRunInv

LEMMA AuthorizeStep ==
    ASSUME LongRunInv, NEW cap \in Caps, Authorize(cap)
    PROVE  LongRunInv'
<1>1. Context /\ windows = <<>>
      /\ UNCHANGED <<clock, lease, runnerVars, permits, packets, settled, approvals, worker,
                     commands>>
  BY DEF Authorize
<1>2. /\ NewWindow(cap) \in WindowRow /\ Accounts(NewWindow(cap), settled)
      /\ Awaits(NewWindow(cap), permits)
  BY <1>1, NewWindowTells DEF LongRunInv
<1>3. windows' = Append(windows, NewWindow(cap)) /\ Len(windows) < MaxWindows
  <2> PICK row : row = NewWindow(cap)
    OBVIOUS
  <2>1. Append(<<>>, row) = <<row>> /\ Len(<<>>) = 0
    OBVIOUS
  <2>2. windows' = <<row>>
    BY DEF Authorize
  <2> QED BY <1>1, <2>1, <2>2, BoundsAreNumbers
<1>4. WindowsTell' /\ DOMAIN windows \subseteq DOMAIN windows'
  BY <1>1, <1>2, <1>3, WindowOpens DEF LongRunInv
<1>5. commands' \in 0..MaxCommands
  BY <1>1 DEF LongRunInv, RunTyped
<1> QED BY <1>1, <1>4, <1>5, WindowsMove

LEMMA BindPoolStep ==
    ASSUME LongRunInv, NEW w \in DOMAIN windows, BindPool(w)
    PROVE  LongRunInv'
<1> DEFINE row == [windows[w] EXCEPT !.pool = TRUE]
<1>1. windows' = [windows EXCEPT ![w] = row]
      /\ UNCHANGED <<clock, lease, runnerVars, permits, packets, settled, approvals, worker,
                     commands>>
  BY DEF BindPool
<1>2. windows[w] \in WindowRow /\ Accounts(windows[w], settled) /\ Awaits(windows[w], permits)
  BY WindowIsTyped DEF LongRunInv
<1>3. row \in WindowRow
  BY <1>2 DEF WindowRow
<1>4. /\ row.next = windows[w].next /\ row.hash = windows[w].hash /\ row.cost = windows[w].cost
      /\ row.idle = windows[w].idle /\ row.cap = windows[w].cap
      /\ row.permit = windows[w].permit /\ row.consumed = windows[w].consumed
      /\ row.state = windows[w].state
  BY <1>2 DEF WindowRow
<1> HIDE DEF row
<1>5. Accounts(row, settled)
  BY <1>2, <1>4, AccountIsKept
<1>6. Awaits(row, permits)
  BY <1>2, <1>4 DEF Awaits
<1>7. WindowsTell' /\ DOMAIN windows' = DOMAIN windows
  BY <1>1, <1>3, <1>5, <1>6, WindowTurnsAlone DEF LongRunInv
<1>8. commands' \in 0..MaxCommands
  BY <1>1 DEF LongRunInv, RunTyped
<1> QED BY <1>1, <1>7, <1>8, WindowsMove

LEMMA ControlStep ==
    ASSUME LongRunInv, NEW w \in DOMAIN windows, NEW command \in Commands, Control(w, command)
    PROVE  LongRunInv'
<1> PICK row : row = Forgotten(windows[w], Target[command])
  OBVIOUS
<1>1. windows' = [windows EXCEPT ![w] = row] /\ commands' = commands + 1
      /\ commands < MaxCommands
      /\ UNCHANGED <<clock, lease, runnerVars, permits, packets, settled, approvals, worker>>
  BY DEF Control
<1>2. windows[w] \in WindowRow /\ Accounts(windows[w], settled) /\ Awaits(windows[w], permits)
  BY WindowIsTyped DEF LongRunInv
<1>3. Target[command] \in WindowStates
  BY CommandsAssumption DEF Target, WindowStates
<1>4. row \in WindowRow /\ Accounts(row, settled) /\ Awaits(row, permits)
  BY <1>2, <1>3, ForgottenTells
<1>5. WindowsTell' /\ DOMAIN windows' = DOMAIN windows
  BY <1>1, <1>4, WindowTurnsAlone DEF LongRunInv
<1>6. commands' \in 0..MaxCommands
  <2>1. commands \in 0..MaxCommands
    BY DEF LongRunInv, RunTyped
  <2> QED BY <1>1, <2>1, BoundsAreNumbers
<1> QED BY <1>1, <1>5, <1>6, WindowsMove

LEMMA RenewStep ==
    ASSUME LongRunInv, NEW w \in DOMAIN windows, NEW cap \in Caps, Renew(w, cap)
    PROVE  LongRunInv'
<1> PICK prior, old, new : /\ prior = windows[w] /\ old = Forgotten(prior, "superseded")
                           /\ new = Carried(prior, cap)
  OBVIOUS
<1> DEFINE closed == [windows EXCEPT ![w] = old]
<1>1. /\ windows' = Append(closed, new) /\ Len(windows) < MaxWindows /\ Context
      /\ prior.cost <= cap
      /\ UNCHANGED <<clock, lease, runnerVars, permits, packets, settled, approvals, worker,
                     commands>>
  BY DEF Renew
<1>2. prior \in WindowRow /\ Accounts(prior, settled) /\ Awaits(prior, permits)
  BY WindowIsTyped DEF LongRunInv
<1>3. old \in WindowRow /\ Accounts(old, settled) /\ Awaits(old, permits)
  BY <1>2, ForgottenTells DEF WindowStates
<1>4. new \in WindowRow /\ Accounts(new, settled) /\ Awaits(new, permits)
  BY <1>1, <1>2, CarriedTells DEF LongRunInv
<1>5. windows \in Seq(WindowRow) /\ Len(windows) \in Nat
  BY DEF LongRunInv, WindowsTell
<1>6. /\ closed \in Seq(WindowRow) /\ Len(closed) = Len(windows)
      /\ \A v \in DOMAIN windows : closed[v] = IF v = w THEN old ELSE windows[v]
  BY <1>3, <1>5
<1> HIDE DEF closed
<1>7. /\ windows' \in Seq(WindowRow) /\ Len(windows') = Len(windows) + 1
      /\ DOMAIN windows' = DOMAIN windows \cup {Len(windows) + 1}
      /\ windows'[Len(windows) + 1] = new
      /\ \A v \in DOMAIN windows : windows'[v] = IF v = w THEN old ELSE windows[v]
  BY <1>1, <1>4, <1>5, <1>6
<1>8. ASSUME NEW v \in DOMAIN windows'
      PROVE  Accounts(windows'[v], settled) /\ Awaits(windows'[v], permits)
  <2>1. v \in DOMAIN windows =>
          Accounts(windows[v], settled) /\ Awaits(windows[v], permits)
    BY WindowIsTyped DEF LongRunInv
  <2> QED BY <1>3, <1>4, <1>7, <2>1
<1>9. settled' = settled /\ permits' = permits
  BY <1>1
<1>10. WindowsTell'
  BY <1>1, <1>5, <1>7, <1>8, <1>9, BoundsAreNumbers DEF WindowsTell
<1>11. commands' \in 0..MaxCommands
  BY <1>1 DEF LongRunInv, RunTyped
<1> QED BY <1>1, <1>7, <1>10, <1>11, WindowsMove

LEMMA ApproveLiveStep ==
    ASSUME LongRunInv, ApproveLive
    PROVE  LongRunInv'
<1> DEFINE row == [state |-> "issued", hash |-> run.hash, session |-> lease.session,
                   token |-> lease.token, expires |-> clock + ApprovalTtl]
<1>1. /\ NextNumber \in Numbers /\ approvals' = [approvals EXCEPT ![NextNumber] = row]
      /\ UNCHANGED <<clock, lease, runnerVars, authorityVars, worker, commands>>
  BY DEF ApproveLive
<1>2. row \in ApprovalRow
  BY RunIsTyped, BoundsAreNumbers DEF LongRunInv, ApprovalRow
<1> HIDE DEF row
<1>3. approvals' \in [Numbers -> ApprovalRow]
  BY <1>1, <1>2 DEF LongRunInv, RunTyped
<1>4. RunTyped' /\ IterationsStay
  BY <1>1, <1>3 DEF LongRunInv, RunTyped, runnerVars, IterationsStay
<1> QED BY <1>1, <1>4, AuthorityStands

(***************************************************************************)
(* The executor's steps                                                    *)
(***************************************************************************)
LEMMA PermitIsTyped ==
    ASSUME PermitsTell, NEW n \in DOMAIN permits
    PROVE  /\ permits[n] \in PermitRow /\ n \in Numbers /\ n \in Nat /\ n # 0
           /\ n \in 0..MaxIterations /\ permits[n].window \in DOMAIN windows
           /\ 1..(n - 1) \subseteq DOMAIN settled
  BY BoundsAreNumbers DEF PermitsTell, Numbers

\* A working executor's permit and window.
LEMMA WorkerHasPermit ==
    ASSUME LongRunInv, NEW s \in Sessions, worker[s].at # "idle"
    PROVE  /\ worker[s].permit \in DOMAIN permits
           /\ worker[s].window \in DOMAIN windows
           /\ worker[s].window = permits[worker[s].permit].window
           /\ worker[s].at \in {"running", "done"} => worker[s].permit \in DOMAIN iterations
  BY PermitIsTyped, WorkerIsTyped DEF LongRunInv, WorkerTells

LEMMA MintStep ==
    ASSUME LongRunInv, NEW s \in Sessions, NEW w \in DOMAIN windows, Mint(s, w)
    PROVE  LongRunInv'
<1> PICK window, n : window = windows[w] /\ n = window.next
  OBVIOUS
<1> DEFINE permit == [window |-> w, session |-> s, token |-> window.token,
                      hash |-> window.hash, expires |-> clock + PermitTtl, consumed |-> FALSE]
           row == [window EXCEPT !.permit = n]
           turned == [at |-> "minted", window |-> w, permit |-> n]
<1>1. /\ Open(window) /\ window.permit = 0 /\ n \notin DOMAIN permits
      /\ permits' = Filed(permits, n, permit) /\ packets' = Filed(packets, n, "none")
      /\ windows' = [windows EXCEPT ![w] = row] /\ worker' = [worker EXCEPT ![s] = turned]
      /\ UNCHANGED <<clock, lease, runnerVars, settled, approvals, commands>>
  BY DEF Mint
<1>2. window \in WindowRow /\ Accounts(window, settled) /\ Awaits(window, permits)
  BY WindowIsTyped DEF LongRunInv
<1>3. /\ n \in Numbers /\ n \in 0..MaxIterations /\ n # 0 /\ window.idle < IdleCap
      /\ window.consumed = FALSE
  <2>1. n \in Nat /\ n >= 1 /\ n <= MaxIterations /\ window.idle \in 0..IdleCap
    BY <1>1, <1>2, BoundsAreNumbers DEF Open, WindowRow
  <2>2. ~(window.idle >= IdleCap)
    BY <1>1 DEF Open, Exhausted
  <2>3. window.consumed = FALSE
    BY <1>1, <1>2 DEF Awaits, WindowRow
  <2> QED BY <2>1, <2>2, <2>3, BoundsAreNumbers DEF Numbers
<1>4. w \in 1..MaxWindows
  BY BoundsAreNumbers DEF LongRunInv, WindowsTell
<1>5. permit \in PermitRow
  <2>1. clock + PermitTtl \in Nat /\ FALSE \in BOOLEAN
    BY RunIsTyped, BoundsAreNumbers DEF LongRunInv
  <2>2. window.token \in 1..MaxTakes /\ window.hash \in Nat
    BY <1>2 DEF WindowRow
  <2> QED BY <1>4, <2>1, <2>2 DEF PermitRow
<1>6. permit.window = w
  OBVIOUS
<1> HIDE DEF permit
<1>7. row \in WindowRow
  BY <1>2, <1>3 DEF WindowRow
<1>8. /\ row.next = window.next /\ row.hash = window.hash /\ row.cost = window.cost
      /\ row.idle = window.idle /\ row.cap = window.cap /\ row.permit = n
      /\ row.consumed = FALSE
  BY <1>2, <1>3 DEF WindowRow
<1> HIDE DEF row
<1>9. /\ DOMAIN permits' = DOMAIN permits \cup {n} /\ permits'[n] = permit
      /\ \A m \in DOMAIN permits : permits'[m] = permits[m]
      /\ permits' \in [DOMAIN permits' -> PermitRow]
  <2>1. permits \in [DOMAIN permits -> PermitRow]
    BY DEF LongRunInv, PermitsTell
  <2>2. permits' \in [DOMAIN permits' -> PermitRow]
    BY <1>1, <1>5, <2>1, FilesTyped
  <2> QED BY <1>1, <2>2 DEF Filed
<1>10. packets' \in [DOMAIN permits' -> PacketStates]
  <2>1. packets \in [DOMAIN packets -> PacketStates] /\ DOMAIN packets = DOMAIN permits
    BY DEF LongRunInv, PermitsTell
  <2>2. "none" \in PacketStates
    BY DEF PacketStates
  <2>3. packets' \in [DOMAIN packets' -> PacketStates]
    BY <1>1, <2>1, <2>2, FilesTyped
  <2>4. DOMAIN packets' = DOMAIN permits'
    BY <1>1, <1>9, <2>1 DEF Filed
  <2> QED BY <2>3, <2>4
<1>11. WindowsTell' /\ DOMAIN windows' = DOMAIN windows
  <2>1. Accounts(row, settled')
    BY <1>1, <1>2, <1>8, AccountIsKept
  <2>2. Awaits(row, permits')
    BY <1>2, <1>3, <1>8, <1>9 DEF Awaits
  <2>3. ASSUME NEW v \in DOMAIN windows
        PROVE  Accounts(windows[v], settled') /\ Awaits(windows[v], permits')
    <3>1. Accounts(windows[v], settled) /\ Awaits(windows[v], permits)
      BY WindowIsTyped DEF LongRunInv
    <3> QED BY <1>1, <1>9, <3>1 DEF Awaits
  <2> QED BY <1>1, <1>7, <2>1, <2>2, <2>3, WindowTurns DEF LongRunInv
<1>12. PermitsTell'
  <2>1. 1..(n - 1) \subseteq DOMAIN settled
    BY <1>2 DEF Accounts
  <2>2. ASSUME NEW m \in DOMAIN permits'
        PROVE  permits'[m].window \in DOMAIN windows' /\ 1..(m - 1) \subseteq DOMAIN settled'
    <3>1. CASE m \in DOMAIN permits
      BY <1>1, <1>9, <1>11, <3>1, PermitIsTyped DEF LongRunInv
    <3>2. CASE m = n
      BY <1>1, <1>6, <1>9, <1>11, <2>1, <3>2
    <3> QED BY <1>9, <3>1, <3>2
  <2>3. DOMAIN permits' \subseteq Numbers
    BY <1>3, <1>9 DEF LongRunInv, PermitsTell
  <2> QED BY <1>9, <1>10, <2>2, <2>3 DEF PermitsTell
<1>13. SettledTells'
  BY <1>1, <1>9 DEF LongRunInv, SettledTells
<1>14. WorkersTell'
  <2>1. turned \in WorkerRow
    BY <1>3, <1>4 DEF WorkerRow, Places
  <2>2. PermitsStay /\ IterationsStay
    BY <1>1, <1>9 DEF PermitsStay, IterationsStay, runnerVars
  <2>3. turned.permit \in DOMAIN permits' /\ turned.window = permits'[turned.permit].window
        /\ turned.at \notin {"running", "done"}
    BY <1>6, <1>9
  <2> HIDE DEF turned
  <2> QED BY <1>1, <2>1, <2>2, <2>3, WorkerTurns DEF LongRunInv
<1>15. RunTyped'
  <2>1. commands' \in 0..MaxCommands
    BY <1>1 DEF LongRunInv, RunTyped
  <2> QED BY <1>1, <2>1, RunStands DEF LongRunInv
<1> QED BY <1>11, <1>12, <1>13, <1>14, <1>15 DEF LongRunInv

LEMMA ConsumeStep ==
    ASSUME LongRunInv, NEW s \in Sessions, Consume(s)
    PROVE  LongRunInv'
<1> PICK w, n : w = worker[s].window /\ n = worker[s].permit
  OBVIOUS
<1> DEFINE permit == [permits[n] EXCEPT !.consumed = TRUE]
           row == [windows[w] EXCEPT !.consumed = TRUE]
<1>1. /\ Goes(s, "minted", "consumed") /\ windows[w].state = "active" /\ windows[w].permit = n
      /\ permits' = [permits EXCEPT ![n] = permit] /\ windows' = [windows EXCEPT ![w] = row]
      /\ UNCHANGED <<clock, lease, runnerVars, packets, settled, approvals, commands>>
  BY DEF Consume, Open
<1>2. n \in DOMAIN permits /\ w \in DOMAIN windows
  BY <1>1, WorkerHasPermit DEF Goes
<1>3. permits[n] \in PermitRow /\ n # 0
  BY <1>2, PermitIsTyped DEF LongRunInv
<1>4. permit \in PermitRow /\ permit.window = permits[n].window /\ permit.consumed = TRUE
  BY <1>3 DEF PermitRow
<1>5. windows[w] \in WindowRow /\ Accounts(windows[w], settled) /\ Awaits(windows[w], permits)
  BY <1>2, WindowIsTyped DEF LongRunInv
<1>6. row \in WindowRow
  BY <1>5 DEF WindowRow
<1>7. /\ row.next = windows[w].next /\ row.hash = windows[w].hash /\ row.cost = windows[w].cost
      /\ row.idle = windows[w].idle /\ row.cap = windows[w].cap /\ row.permit = n
      /\ row.state = "active"
  BY <1>1, <1>5 DEF WindowRow
<1> HIDE DEF permit, row
<1>8. /\ DOMAIN permits' = DOMAIN permits /\ permits'[n] = permit
      /\ \A m \in DOMAIN permits : m # n => permits'[m] = permits[m]
      /\ permits' \in [DOMAIN permits' -> PermitRow]
  BY <1>1, <1>2, <1>4 DEF LongRunInv, PermitsTell
<1>9. PermitsStay /\ IterationsStay
  BY <1>1, <1>4, <1>8 DEF PermitsStay, IterationsStay, runnerVars
<1>10. WindowsTell' /\ DOMAIN windows' = DOMAIN windows
  <2>1. Accounts(row, settled')
    BY <1>1, <1>5, <1>7, AccountIsKept
  <2>2. Awaits(row, permits')
    BY <1>1, <1>2, <1>3, <1>4, <1>5, <1>7, <1>8 DEF Awaits
  <2>3. ASSUME NEW v \in DOMAIN windows
        PROVE  Accounts(windows[v], settled') /\ Awaits(windows[v], permits')
    <3>1. Accounts(windows[v], settled) /\ Awaits(windows[v], permits)
      BY WindowIsTyped DEF LongRunInv
    <3> QED BY <1>1, <1>4, <1>8, <3>1 DEF Awaits
  <2> QED BY <1>1, <1>2, <1>6, <2>1, <2>2, <2>3, WindowTurns DEF LongRunInv
<1>11. PermitsTell'
  <2>1. ASSUME NEW m \in DOMAIN permits'
        PROVE  permits'[m].window \in DOMAIN windows' /\ 1..(m - 1) \subseteq DOMAIN settled'
    BY <1>1, <1>8, <1>9, <1>10, PermitIsTyped DEF LongRunInv, PermitsStay
  <2> QED BY <1>1, <1>8, <2>1 DEF LongRunInv, PermitsTell
<1>12. SettledTells'
  BY <1>1, <1>8 DEF LongRunInv, SettledTells
<1>13. WorkersTell'
  BY <1>1, <1>9, WorkerGoes DEF LongRunInv, Places
<1>14. RunTyped'
  <2>1. commands' \in 0..MaxCommands
    BY <1>1 DEF LongRunInv, RunTyped
  <2> QED BY <1>1, <2>1, RunStands DEF LongRunInv
<1> QED BY <1>10, <1>11, <1>12, <1>13, <1>14 DEF LongRunInv

LEMMA PacketStep ==
    ASSUME LongRunInv, NEW s \in Sessions, IssuePacket(s) \/ ConsumeReceipt(s)
    PROVE  LongRunInv'
<1> PICK n : n = worker[s].permit
  OBVIOUS
<1>1. /\ \/ Goes(s, "consumed", "issued") /\ packets' = [packets EXCEPT ![n] = "issued"]
         \/ Goes(s, "issued", "ready") /\ packets' = [packets EXCEPT ![n] = "consumed"]
      /\ UNCHANGED <<clock, lease, runnerVars, windows, permits, settled, approvals, commands>>
  BY DEF IssuePacket, ConsumeReceipt
<1>2. packets' \in [DOMAIN permits -> PacketStates]
  BY <1>1 DEF LongRunInv, PermitsTell, PacketStates
<1>3. PermitsTell' /\ SettledTells' /\ PermitsStay /\ IterationsStay
  BY <1>1, <1>2
     DEF LongRunInv, PermitsTell, SettledTells, PermitsStay, IterationsStay, runnerVars
<1>4. WindowsTell'
  BY <1>1, WindowsStand DEF LongRunInv
<1>5. WorkersTell'
  BY <1>1, <1>3, WorkerGoes DEF LongRunInv, Places
<1>6. RunTyped'
  <2>1. commands' \in 0..MaxCommands
    BY <1>1 DEF LongRunInv, RunTyped
  <2> QED BY <1>1, <2>1, RunStands DEF LongRunInv
<1> QED BY <1>3, <1>4, <1>5, <1>6 DEF LongRunInv

\* Steps of the runner, whose iterations stay and which leave the authority alone.
LEMMA IterationsMove ==
    ASSUME LongRunInv, UNCHANGED <<clock, lease, authorityVars, approvals, commands>>,
           NEW rows \in Seq(IterationRow), iterations' = rows, Len(rows) >= Len(iterations),
           run' \in [hash : Nat, open : 0..Len(iterations')], used' \in 0..Members
    PROVE  /\ RunTyped' /\ IterationsStay /\ PermitsStay
           /\ WindowsTell' /\ PermitsTell' /\ SettledTells'
<1>1. iterations \in Seq(IterationRow) /\ iterations' \in Seq(IterationRow)
  BY DEF LongRunInv, RunTyped
<1>2. IterationsStay
  BY <1>1 DEF IterationsStay
<1>3. UNCHANGED <<windows, permits, packets, settled>>
  BY DEF authorityVars
<1>4. PermitsTell' /\ SettledTells' /\ PermitsStay
  BY <1>3, PermitsStand DEF LongRunInv
<1>5. WindowsTell'
  BY <1>3, WindowsStand DEF LongRunInv
<1>6. RunTyped'
  BY <1>1 DEF LongRunInv, RunTyped
<1> QED BY <1>2, <1>4, <1>5, <1>6

LEMMA BeginStep ==
    ASSUME LongRunInv, NEW s \in Sessions, Begin(s)
    PROVE  LongRunInv'
<1> PICK n : n = worker[s].permit
  OBVIOUS
<1> DEFINE row == [in |-> run.hash, out |-> 0, state |-> "open", calls |-> 0]
<1>1. /\ Goes(s, "ready", "running") /\ Len(iterations) + 1 = n
      /\ iterations' = Append(iterations, row) /\ run' = [run EXCEPT !.open = n]
      /\ UNCHANGED <<clock, lease, used, authorityVars, approvals, commands>>
  BY DEF Begin
<1>2. run \in [hash : Nat, open : 0..Len(iterations)] /\ iterations \in Seq(IterationRow)
      /\ used \in 0..Members /\ Len(iterations) \in Nat
  BY DEF LongRunInv, RunTyped
<1>3. row \in IterationRow
  BY <1>2, BoundsAreNumbers DEF IterationRow
<1> HIDE DEF row
<1>4. /\ Append(iterations, row) \in Seq(IterationRow)
      /\ Len(Append(iterations, row)) = Len(iterations) + 1
  BY <1>2, <1>3
<1>5. n \in DOMAIN iterations' /\ n \in 0..Len(iterations')
  BY <1>1, <1>2, <1>4
<1>6. run' \in [hash : Nat, open : 0..Len(iterations')] /\ used' \in 0..Members
  BY <1>1, <1>2, <1>5
<1>7. /\ RunTyped' /\ IterationsStay /\ PermitsStay
      /\ WindowsTell' /\ PermitsTell' /\ SettledTells'
  <2> PICK rows : rows = Append(iterations, row)
    OBVIOUS
  <2>1. rows \in Seq(IterationRow) /\ Len(rows) >= Len(iterations) /\ iterations' = rows
    BY <1>1, <1>2, <1>4
  <2> QED BY <1>1, <1>6, <2>1, IterationsMove
<1>8. WorkersTell'
  BY <1>1, <1>5, <1>7, WorkerGoes DEF LongRunInv, Places
<1> QED BY <1>7, <1>8 DEF LongRunInv

\* The iteration that an executor is working on.
LEMMA WorkersIteration ==
    ASSUME LongRunInv, NEW s \in Sessions, worker[s].at \in {"running", "done"}
    PROVE  /\ worker[s].permit \in DOMAIN iterations
           /\ iterations[worker[s].permit] \in IterationRow
           /\ iterations \in Seq(IterationRow)
<1>1. worker[s].permit \in DOMAIN iterations /\ RunTyped
  BY WorkerHasPermit DEF LongRunInv
<1>2. iterations \in Seq(IterationRow)
  BY DEF LongRunInv, RunTyped
<1> QED BY <1>1, <1>2, RunIsTyped

LEMMA CallStep ==
    ASSUME LongRunInv, NEW s \in Sessions, Call(s)
    PROVE  LongRunInv'
<1> PICK n : n = worker[s].permit
  OBVIOUS
<1> DEFINE row == [iterations[n] EXCEPT !.calls = @ + 1]
           rows == [iterations EXCEPT ![n] = row]
<1>1. /\ worker[s].at = "running" /\ used < Members /\ iterations[n].calls < CallsPerIteration
      /\ iterations' = rows /\ used' = used + 1
      /\ UNCHANGED <<clock, lease, run, authorityVars, approvals, worker, commands>>
  BY DEF Call
<1>2. n \in DOMAIN iterations /\ iterations[n] \in IterationRow /\ iterations \in Seq(IterationRow)
  BY <1>1, WorkersIteration
<1>3. iterations[n].calls + 1 \in 0..CallsPerIteration
  <2> PICK calls : calls = iterations[n].calls
    OBVIOUS
  <2>1. calls \in 0..CallsPerIteration
    BY <1>2 DEF IterationRow
  <2> QED BY <1>1, <2>1, BoundsAreNumbers
<1>4. row \in IterationRow
  BY <1>2, <1>3 DEF IterationRow
<1> HIDE DEF row
<1>5. rows \in Seq(IterationRow) /\ Len(rows) = Len(iterations) /\ Len(iterations) \in Nat
  BY <1>2, <1>4
<1> HIDE DEF rows
<1>6. run' \in [hash : Nat, open : 0..Len(iterations')]
  BY <1>1, <1>5 DEF LongRunInv, RunTyped
<1>7. used' \in 0..Members
  <2>1. used < Members /\ used' = used + 1 /\ used \in 0..Members
    BY <1>1 DEF LongRunInv, RunTyped
  <2> QED BY <2>1, BoundsAreNumbers
<1>8. /\ RunTyped' /\ IterationsStay /\ PermitsStay
      /\ WindowsTell' /\ PermitsTell' /\ SettledTells'
  BY <1>1, <1>5, <1>6, <1>7, IterationsMove
<1>9. WorkersTell'
  BY <1>1, <1>8, WorkersStand DEF LongRunInv
<1> QED BY <1>8, <1>9 DEF LongRunInv

LEMMA FinishStep ==
    ASSUME LongRunInv, NEW s \in Sessions, NEW hash, Finish(s, hash)
    PROVE  LongRunInv'
<1> PICK n : n = worker[s].permit
  OBVIOUS
<1> DEFINE row == [iterations[n] EXCEPT !.out = hash, !.state = "completed"]
           rows == [iterations EXCEPT ![n] = row]
<1>1. n \in DOMAIN iterations /\ iterations[n] \in IterationRow /\ iterations \in Seq(IterationRow)
  BY WorkersIteration DEF Finish, Goes
<1>2. [iterations EXCEPT ![n].out = hash, ![n].state = "completed"] = rows
  BY <1>1
<1>3. /\ Goes(s, "running", "done") /\ hash \in {run.hash, run.hash + 1}
      /\ iterations' = rows /\ run' = [hash |-> hash, open |-> 0]
      /\ UNCHANGED <<clock, lease, used, authorityVars, approvals, commands>>
  BY <1>2 DEF Finish
<1>4. hash \in Nat
  BY <1>3, RunIsTyped DEF LongRunInv
<1>5. row \in IterationRow
  BY <1>1, <1>4 DEF IterationRow
<1> HIDE DEF row
<1>6. rows \in Seq(IterationRow) /\ Len(rows) = Len(iterations) /\ Len(iterations) \in Nat
      /\ DOMAIN rows = DOMAIN iterations
  BY <1>1, <1>5
<1> HIDE DEF rows
<1>7. run' \in [hash : Nat, open : 0..Len(iterations')] /\ used' \in 0..Members
  BY <1>3, <1>4, <1>6 DEF LongRunInv, RunTyped
<1>8. /\ RunTyped' /\ IterationsStay /\ PermitsStay
      /\ WindowsTell' /\ PermitsTell' /\ SettledTells'
  BY <1>3, <1>6, <1>7, IterationsMove
<1>9. WorkersTell'
  BY <1>1, <1>3, <1>6, <1>8, WorkerGoes DEF LongRunInv, Places
<1> QED BY <1>8, <1>9 DEF LongRunInv

LEMMA ThrowStep ==
    ASSUME LongRunInv, NEW s \in Sessions, Throw(s)
    PROVE  LongRunInv'
<1> PICK n : n = worker[s].permit
  OBVIOUS
<1> DEFINE row == [iterations[n] EXCEPT !.state = "failed"]
           rows == IF worker[s].at = "running" THEN [iterations EXCEPT ![n] = row]
                   ELSE iterations
<1>1. /\ worker' = [worker EXCEPT ![s] = Idle]
      /\ UNCHANGED <<clock, lease, used, authorityVars, approvals, commands>>
      /\ worker[s].at = "running" =>
           /\ iterations' = [iterations EXCEPT ![n].state = "failed"]
           /\ run' = [run EXCEPT !.open = 0]
      /\ worker[s].at # "running" => UNCHANGED <<iterations, run>>
  BY DEF Throw
<1>2. run \in [hash : Nat, open : 0..Len(iterations)] /\ iterations \in Seq(IterationRow)
      /\ used \in 0..Members /\ Len(iterations) \in Nat
  BY DEF LongRunInv, RunTyped
<1>3. worker[s].at = "running" => n \in DOMAIN iterations /\ iterations[n] \in IterationRow
  BY WorkersIteration
<1>4. worker[s].at = "running" => row \in IterationRow
  BY <1>3 DEF IterationRow
<1>5. iterations' = rows
  BY <1>1
<1>6. rows \in Seq(IterationRow) /\ Len(rows) = Len(iterations)
  <2> HIDE DEF row
  <2> QED BY <1>2, <1>3, <1>4
<1> HIDE DEF rows
<1>7. run' \in [hash : Nat, open : 0..Len(iterations')] /\ used' \in 0..Members
  <2>1. 0 \in 0..Len(iterations)
    BY <1>2
  <2>2. run' \in [hash : Nat, open : 0..Len(iterations)]
    BY <1>1, <1>2, <2>1
  <2> QED BY <1>1, <1>2, <1>5, <1>6, <2>2
<1>8. /\ RunTyped' /\ IterationsStay /\ PermitsStay
      /\ WindowsTell' /\ PermitsTell' /\ SettledTells'
  BY <1>1, <1>2, <1>5, <1>6, <1>7, IterationsMove
<1>9. WorkersTell'
  BY <1>1, <1>8, WorkerEnds DEF LongRunInv
<1> QED BY <1>8, <1>9 DEF LongRunInv

(***************************************************************************)
(* Settlement                                                              *)
(***************************************************************************)
\* What the settled window says, if it was waiting for this iteration.
LEMMA SettledWindowTells ==
    ASSUME NEW window \in WindowRow, NEW n \in Numbers, n = window.next,
           window.idle < IdleCap, iterations[n] \in IterationRow, run.hash \in Nat,
           Within(window, iterations[n].calls)
    PROVE  /\ Settled(window, n) \in WindowRow
           /\ Settled(window, n).next = n + 1 /\ Settled(window, n).hash = run.hash
           /\ Settled(window, n).cost = window.cost + iterations[n].calls
           /\ Settled(window, n).idle =
                window.idle + IF iterations[n].out = permits[n].hash THEN 1 ELSE 0
           /\ Settled(window, n).permit = 0 /\ Settled(window, n).consumed = FALSE
           /\ Settled(window, n).cap = window.cap
           /\ Settled(window, n).cost <= window.cap
<1> PICK row, calls, idle, cost :
           /\ row = Settled(window, n) /\ calls = iterations[n].calls
           /\ idle = window.idle + IF iterations[n].out = permits[n].hash THEN 1 ELSE 0
           /\ cost = window.cost + calls
  OBVIOUS
<1> PICK state : state = IF idle >= IdleCap THEN "failed"
                         ELSE IF n = MaxIterations \/ Exhausted(window.cap, cost, idle)
                              THEN "exhausted" ELSE "active"
  OBVIOUS
<1>1. row = [window EXCEPT !.state = state, !.hash = run.hash, !.next = n + 1, !.permit = 0,
                           !.consumed = FALSE, !.cost = cost, !.idle = idle]
  BY DEF Settled
<1>2. state \in WindowStates
  BY DEF WindowStates
<1>3. n + 1 \in 1..(MaxIterations + 1) /\ 0 \in 0..MaxIterations
  BY BoundsAreNumbers DEF Numbers
<1>4. window.cost \in Nat /\ window.idle \in 0..IdleCap /\ calls \in Nat
  BY BoundsAreNumbers DEF WindowRow, IterationRow
<1>5. cost \in Nat /\ idle \in 0..IdleCap
  BY <1>4, BoundsAreNumbers
<1>6. row \in WindowRow
  <2> PICK next : next = n + 1
    OBVIOUS
  <2>1. next \in 1..(MaxIterations + 1) /\ FALSE \in BOOLEAN
    BY <1>3
  <2>2. row = [window EXCEPT !.state = state, !.hash = run.hash, !.next = next, !.permit = 0,
                             !.consumed = FALSE, !.cost = cost, !.idle = idle]
    BY <1>1
  <2> QED BY <1>2, <1>3, <1>5, <2>1, <2>2 DEF WindowRow
<1>7. /\ row.next = n + 1 /\ row.hash = run.hash /\ row.cost = cost /\ row.idle = idle
      /\ row.permit = 0 /\ row.consumed = FALSE /\ row.cap = window.cap
  BY <1>1 DEF WindowRow
<1>8. cost <= window.cap
  BY DEF Within
<1> QED BY <1>6, <1>7, <1>8

LEMMA SettleStep ==
    ASSUME LongRunInv, NEW s \in Sessions, Settle(s)
    PROVE  LongRunInv'
<1> PICK w, n : w = worker[s].window /\ n = worker[s].permit
  OBVIOUS
<1> PICK window, bill, row :
      /\ window = windows[w] /\ row = Settled(window, n)
      /\ bill = [in |-> permits[n].hash, out |-> run.hash, cost |-> iterations[n].calls]
  OBVIOUS
<1>1. /\ worker[s].at = "done" /\ worker' = [worker EXCEPT ![s] = Idle]
      /\ window.permit = n /\ window.consumed /\ permits[n].hash = window.hash
      /\ n \notin DOMAIN settled /\ Evidence(n) /\ Within(window, iterations[n].calls)
      /\ settled' = Filed(settled, n, bill) /\ windows' = [windows EXCEPT ![w] = row]
      /\ UNCHANGED <<clock, lease, runnerVars, permits, packets, approvals, commands>>
  BY DEF Settle, Pending
<1>2. n \in DOMAIN permits /\ w \in DOMAIN windows /\ iterations[n] \in IterationRow
  BY <1>1, WorkerHasPermit, WorkersIteration
<1>3. n \in Numbers /\ n # 0 /\ permits[n].hash \in Nat /\ run.hash \in Nat
      /\ iterations[n].calls \in Nat
  BY <1>2, PermitIsTyped, RunIsTyped, BoundsAreNumbers DEF LongRunInv, PermitRow, IterationRow
<1>4. window \in WindowRow /\ Accounts(window, settled) /\ Awaits(window, permits)
  BY <1>2, WindowIsTyped DEF LongRunInv
<1>5. n = window.next /\ window.idle < IdleCap
  BY <1>1, <1>3, <1>4 DEF Awaits
<1>6. /\ row \in WindowRow /\ row.next = n + 1 /\ row.hash = run.hash
      /\ row.cost = window.cost + iterations[n].calls
      /\ row.idle = window.idle + IF iterations[n].out = permits[n].hash THEN 1 ELSE 0
      /\ row.permit = 0 /\ row.consumed = FALSE /\ row.cap = window.cap
      /\ row.cost <= window.cap
  <2>1. /\ window \in WindowRow /\ n \in Numbers /\ n = window.next /\ window.idle < IdleCap
        /\ iterations[n] \in IterationRow /\ run.hash \in Nat
        /\ Within(window, iterations[n].calls)
    BY <1>1, <1>2, <1>3, <1>4, <1>5
  <2>2. row = Settled(window, n)
    OBVIOUS
  <2>3. /\ Settled(window, n) \in WindowRow
        /\ Settled(window, n).next = n + 1 /\ Settled(window, n).hash = run.hash
        /\ Settled(window, n).cost = window.cost + iterations[n].calls
        /\ Settled(window, n).idle =
             window.idle + IF iterations[n].out = permits[n].hash THEN 1 ELSE 0
        /\ Settled(window, n).permit = 0 /\ Settled(window, n).consumed = FALSE
        /\ Settled(window, n).cap = window.cap /\ Settled(window, n).cost <= window.cap
    BY <2>1, SettledWindowTells, Zenon
  <2> QED BY <2>2, <2>3
<1>7. /\ bill \in SettledRow /\ bill.in = window.hash /\ bill.out = run.hash
      /\ bill.cost = iterations[n].calls /\ bill.in = permits[n].hash
      /\ bill.out = iterations[n].out
  BY <1>1, <1>3 DEF SettledRow, Evidence
<1>8. /\ DOMAIN settled' = DOMAIN settled \cup {n} /\ settled'[n] = bill
      /\ \A m \in DOMAIN settled : settled'[m] = settled[m]
  BY <1>1 DEF Filed
<1>9. Grown(settled, settled', n)
  BY <1>1, <1>8 DEF Grown
<1>10. settled \in [DOMAIN settled -> SettledRow] /\ DOMAIN settled \subseteq DOMAIN permits
       /\ Chained(settled) /\ DOMAIN permits \subseteq Numbers
  BY DEF LongRunInv, SettledTells, PermitsTell
<1>11. settled' \in [DOMAIN settled' -> SettledRow]
  BY <1>1, <1>7, <1>10, FilesTyped
<1>12. Record(settled) /\ Record(settled')
  BY <1>3, <1>8, <1>10, <1>11 DEF Record
<1>13. Accounts(row, settled')
  <2>1. /\ row.hash = settled'[n].out /\ row.cost = window.cost + settled'[n].cost
        /\ row.idle = window.idle + IF settled'[n].out = settled'[n].in THEN 1 ELSE 0
    <3>1. settled'[n].out = run.hash /\ settled'[n].cost = iterations[n].calls
          /\ settled'[n].in = permits[n].hash /\ settled'[n].out = iterations[n].out
      BY <1>7, <1>8
    <3> QED BY <1>6, <3>1
  <2> QED BY <1>3, <1>4, <1>5, <1>6, <1>9, <1>12, <2>1, AccountGrows
<1>14. Awaits(row, permits')
  BY <1>6 DEF Awaits
<1>15. ASSUME NEW v \in DOMAIN windows
       PROVE  Accounts(windows[v], settled') /\ Awaits(windows[v], permits')
  <2>1. windows[v] \in WindowRow /\ Accounts(windows[v], settled) /\ Awaits(windows[v], permits)
    BY WindowIsTyped DEF LongRunInv
  <2>2. permits' = permits
    BY <1>1
  <2>3. Accounts(windows[v], settled')
    BY <1>3, <1>9, <1>12, <2>1, AccountStands
  <2> QED BY <2>1, <2>2, <2>3
<1>16. WindowsTell' /\ DOMAIN windows' = DOMAIN windows
  BY <1>1, <1>2, <1>6, <1>13, <1>14, <1>15, WindowTurns DEF LongRunInv
<1>17. Chained(settled')
  <2>1. settled'[n].in = window.hash
    BY <1>7, <1>8
  <2> QED BY <1>3, <1>4, <1>5, <1>9, <1>10, <1>12, <2>1, ChainGrows
<1>18. SettledTells'
  BY <1>1, <1>2, <1>8, <1>10, <1>11, <1>17 DEF SettledTells
<1>19. PermitsTell' /\ PermitsStay
  BY <1>1, <1>8, <1>16 DEF LongRunInv, PermitsTell, PermitsStay
<1>20. RunTyped' /\ IterationsStay
  <2>1. commands' \in 0..MaxCommands
    BY <1>1 DEF LongRunInv, RunTyped
  <2> QED BY <1>1, <2>1, RunStands DEF LongRunInv
<1>21. WorkersTell'
  BY <1>1, <1>19, <1>20, WorkerEnds DEF LongRunInv
<1> QED BY <1>16, <1>18, <1>19, <1>20, <1>21 DEF LongRunInv

(***************************************************************************)
(* The live runner's steps                                                 *)
(***************************************************************************)
LEMMA ConsumeApprovalStep ==
    ASSUME LongRunInv, NEW s \in Sessions, NEW n \in Numbers, ConsumeApproval(s, n)
    PROVE  LongRunInv'
<1> DEFINE row == [approvals[n] EXCEPT !.state = "consumed"]
<1>1. /\ approvals' = [approvals EXCEPT ![n] = row]
      /\ UNCHANGED <<clock, lease, runnerVars, authorityVars, worker, commands>>
  BY DEF ConsumeApproval
<1>2. row \in ApprovalRow
  BY RunIsTyped DEF LongRunInv, ApprovalRow
<1> HIDE DEF row
<1>3. approvals' \in [Numbers -> ApprovalRow]
  BY <1>1, <1>2 DEF LongRunInv, RunTyped
<1>4. RunTyped' /\ IterationsStay
  BY <1>1, <1>3 DEF LongRunInv, RunTyped, runnerVars, IterationsStay
<1> QED BY <1>1, <1>4, AuthorityStands

LEMMA LiveIterationStep ==
    ASSUME LongRunInv, NEW s \in Sessions, NEW n \in Numbers, LiveIteration(s, n)
    PROVE  LongRunInv'
<1> DEFINE row == [in |-> run.hash, out |-> run.hash + 1, state |-> "completed", calls |-> 1]
<1>1. /\ used < Members /\ used' = used + 1 /\ iterations' = Append(iterations, row)
      /\ run' = [run EXCEPT !.hash = @ + 1]
      /\ UNCHANGED <<clock, lease, authorityVars, approvals, worker, commands>>
  BY DEF LiveIteration
<1>2. run \in [hash : Nat, open : 0..Len(iterations)] /\ iterations \in Seq(IterationRow)
      /\ used \in 0..Members /\ Len(iterations) \in Nat
  BY DEF LongRunInv, RunTyped
<1>3. row \in IterationRow
  BY <1>2, BoundsAreNumbers DEF IterationRow
<1> HIDE DEF row
<1>4. /\ Append(iterations, row) \in Seq(IterationRow)
      /\ Len(Append(iterations, row)) = Len(iterations) + 1
  BY <1>2, <1>3
<1>5. run' \in [hash : Nat, open : 0..Len(iterations')]
  BY <1>1, <1>2, <1>4
<1>6. used' \in 0..Members
  <2>1. used < Members /\ used' = used + 1 /\ used \in 0..Members
    BY <1>1, <1>2
  <2> QED BY <2>1, BoundsAreNumbers
<1>7. /\ RunTyped' /\ IterationsStay /\ PermitsStay
      /\ WindowsTell' /\ PermitsTell' /\ SettledTells'
  <2> PICK rows : rows = Append(iterations, row)
    OBVIOUS
  <2>1. rows \in Seq(IterationRow) /\ Len(rows) >= Len(iterations) /\ iterations' = rows
    BY <1>1, <1>2, <1>4
  <2> QED BY <1>1, <1>5, <1>6, <2>1, IterationsMove
<1>8. WorkersTell'
  BY <1>1, <1>7, WorkersStand DEF LongRunInv
<1> QED BY <1>7, <1>8 DEF LongRunInv

(***************************************************************************)
(* The theorems                                                            *)
(***************************************************************************)
LEMMA InitTells ==
    ASSUME Init
    PROVE  LongRunInv
<1>1. RunTyped
  <2>1. iterations = <<>> /\ iterations \in Seq(IterationRow) /\ Len(iterations) = 0
    BY DEF Init
  <2>2. approvals \in [Numbers -> ApprovalRow]
    <3>1. NoApproval \in ApprovalRow
      BY BoundsAreNumbers DEF NoApproval, ApprovalRow
    <3> QED BY <3>1 DEF Init
  <2>3. lease \in [session : Sessions \cup {NoOne}, token : 0..MaxTakes, expires : Nat]
        /\ lease.session = NoOne
    BY BoundsAreNumbers DEF Init
  <2>4. run \in [hash : Nat, open : 0..Len(iterations)]
    BY <2>1 DEF Init
  <2>5. clock \in 1..MaxTime /\ used \in 0..Members /\ commands \in 0..MaxCommands
    BY BoundsAreNumbers DEF Init
  <2> QED BY <2>1, <2>2, <2>3, <2>4, <2>5 DEF RunTyped
<1>2. WindowsTell
  BY BoundsAreNumbers DEF Init, WindowsTell
<1>3. DOMAIN permits = {} /\ DOMAIN packets = {} /\ DOMAIN settled = {}
      /\ permits = [n \in {} |-> 0] /\ packets = [n \in {} |-> 0] /\ settled = [n \in {} |-> 0]
  BY DEF Init
<1>4. PermitsTell /\ SettledTells
  BY <1>3 DEF PermitsTell, SettledTells, Chained
<1>5. WorkersTell
  <2>1. Idle \in WorkerRow /\ Idle.at = "idle"
    BY BoundsAreNumbers DEF Idle, WorkerRow, Places
  <2> QED BY <2>1 DEF Init, WorkersTell, WorkerTells
<1> QED BY <1>1, <1>2, <1>4, <1>5 DEF LongRunInv

LEMMA NextTells ==
    ASSUME LongRunInv, [Next]_vars
    PROVE  LongRunInv'
<1>1. CASE Tick
  BY <1>1, TickStep
<1>2. CASE Admin
  BY <1>2, AuthorizeStep, BindPoolStep, ControlStep, RenewStep, ApproveLiveStep DEF Admin
<1>3. ASSUME NEW s \in Sessions, TakeLease(s)
      PROVE  LongRunInv'
  BY <1>3, TakeLeaseStep
<1>4. ASSUME NEW s \in Sessions, Executor(s)
      PROVE  LongRunInv'
  BY <1>4, MintStep, ConsumeStep, PacketStep, BeginStep, CallStep, FinishStep, SettleStep,
     ThrowStep DEF Executor
<1>5. ASSUME NEW s \in Sessions, LiveRunner(s)
      PROVE  LongRunInv'
  BY <1>5, ConsumeApprovalStep, LiveIterationStep DEF LiveRunner
<1>6. CASE UNCHANGED vars
  <2>1. UNCHANGED <<clock, lease, runnerVars, authorityVars, approvals, worker, commands>>
    BY <1>6 DEF vars
  <2>2. UNCHANGED <<windows, permits, packets, settled>>
    BY <2>1 DEF authorityVars
  <2>3. commands' \in 0..MaxCommands
    BY <2>1 DEF LongRunInv, RunTyped
  <2>4. WindowsTell' /\ DOMAIN windows \subseteq DOMAIN windows'
    BY <2>2, WindowsStand DEF LongRunInv
  <2> QED BY <2>1, <2>2, <2>3, <2>4, WindowsMove
<1> QED BY <1>1, <1>2, <1>3, <1>4, <1>5, <1>6 DEF Next

\* The invariant holds in every state the run reaches: every window, open or closed,
\* accounts for the settled iterations before its next one, permits are numbered without
\* a gap over the settlements, and a consumed permit pends only in an open window.
THEOREM LongRunInvHolds == Spec => []LongRunInv
<1>1. Init => LongRunInv
  BY InitTells
<1>2. LongRunInv /\ [Next]_vars => LongRunInv'
  BY NextTells
<1> QED BY <1>1, <1>2, PTL DEF Spec

LEMMA TypesFollow ==
    ASSUME LongRunInv
    PROVE  TypeOK
<1>1. /\ clock \in 1..MaxTime
      /\ lease \in [session : Sessions \cup {NoOne}, token : 0..MaxTakes, expires : Nat]
      /\ run \in [hash : Nat, open : 0..Len(iterations)]
      /\ used \in 0..Members /\ commands \in 0..MaxCommands
  BY DEF LongRunInv, RunTyped
<1>2. \A n \in DOMAIN iterations : iterations[n] \in IterationRow
  BY RunIsTyped DEF LongRunInv
<1>3. \A n \in DOMAIN approvals : approvals[n] \in ApprovalRow
  BY DEF LongRunInv, RunTyped
<1>4. Len(windows) <= MaxWindows
  BY DEF LongRunInv, WindowsTell
<1>5. ASSUME NEW w \in DOMAIN windows
      PROVE  /\ windows[w] \in WindowRow
             /\ windows[w].cost <= windows[w].cap
             /\ windows[w].permit \in {0, windows[w].next}
             /\ windows[w].consumed =>
                  windows[w].permit # 0 /\ permits[windows[w].permit].consumed
  BY WindowIsTyped DEF LongRunInv, Awaits
<1>6. ASSUME NEW n \in DOMAIN permits
      PROVE  permits[n] \in [window : DOMAIN windows, session : Sessions, token : 1..MaxTakes,
                             hash : Nat, expires : Nat, consumed : BOOLEAN]
  BY PermitIsTyped DEF LongRunInv, PermitRow
<1>7. /\ DOMAIN permits \subseteq Numbers /\ packets \in [DOMAIN permits -> PacketStates]
      /\ DOMAIN settled \subseteq DOMAIN permits
      /\ \A n \in DOMAIN settled : settled[n] \in SettledRow
  BY DEF LongRunInv, PermitsTell, SettledTells
<1>8. worker \in [Sessions -> WorkerRow]
  BY DEF LongRunInv, WorkersTell
<1> QED BY <1>1, <1>2, <1>3, <1>4, <1>5, <1>6, <1>7, <1>8
     DEF TypeOK, IterationRow, ApprovalRow, WindowRow, SettledRow, WorkerRow, PacketStates

\* Type correctness.
THEOREM TypeCorrect == Spec => []TypeOK
<1>1. LongRunInv => TypeOK
  BY TypesFollow
<1> QED BY <1>1, LongRunInvHolds, PTL

LEMMA AccountsFollow ==
    ASSUME LongRunInv
    PROVE  WindowsAccount
<1>1. ChainUnbroken
  <2>1. ASSUME NEW w \in DOMAIN windows, windows[w].next - 1 \in DOMAIN settled
        PROVE  settled[windows[w].next - 1].out = windows[w].hash
    <3>1. Accounts(windows[w], settled) /\ windows[w].next \in Nat
      BY WindowIsTyped, BoundsAreNumbers DEF LongRunInv, WindowRow
    <3>2. 0 \notin DOMAIN settled
      BY BoundsAreNumbers DEF LongRunInv, SettledTells, PermitsTell, Numbers
    <3>3. windows[w].next # 1
      BY <2>1, <3>1, <3>2
    <3> QED BY <3>1, <3>3 DEF Accounts
  <2> QED BY <2>1 DEF ChainUnbroken, LongRunInv, SettledTells, Chained
<1>2. UsageIsCarried
  <2> SUFFICES ASSUME NEW w \in DOMAIN windows
               PROVE  /\ windows[w].cost = Spent(Costs)[windows[w].next - 1]
                      /\ windows[w].idle =
                           Cardinality({n \in 1..(windows[w].next - 1) : n \in DOMAIN settled
                                          /\ settled[n].in = settled[n].out})
    BY DEF UsageIsCarried
  <2>1. Accounts(windows[w], settled)
    BY WindowIsTyped DEF LongRunInv
  <2>2. Costs = CostsOf(settled)
    BY DEF Costs, CostsOf
  <2> QED BY <2>1, <2>2 DEF Accounts, IdleUpTo
<1>3. OneUnsettled
  BY DEF OneUnsettled, LongRunInv, PermitsTell
<1> QED BY <1>1, <1>2, <1>3, TypesFollow DEF WindowsAccount

\* However the windows of a run were opened, closed, revived and succeeded, its settled
\* iterations are one unbroken chain of states, every window's usage and idle count are
\* those of all settled iterations before its next one, and at most one permit, the last,
\* is without its settlement.
THEOREM WindowsAccountForRun == Spec => []WindowsAccount
<1>1. LongRunInv => WindowsAccount
  BY AccountsFollow
<1> QED BY <1>1, LongRunInvHolds, PTL

LEMMA SettlesWhileOpen ==
    ASSUME LongRunInv, Next
    PROVE  \A n \in DOMAIN settled' \ DOMAIN settled :
             windows[permits[n].window].state = "active"
<1>1. CASE \E s \in Sessions : Settle(s)
  <2> PICK s \in Sessions : Settle(s)
    BY <1>1
  <2> PICK w, n : w = worker[s].window /\ n = worker[s].permit
    OBVIOUS
  <2>1. worker[s].at = "done" /\ windows[w].consumed /\ DOMAIN settled' = DOMAIN settled \cup {n}
    BY DEF Settle, Pending, Filed
  <2>2. w \in DOMAIN windows /\ w = permits[n].window
    BY <2>1, WorkerHasPermit
  <2>3. windows[w].state = "active"
    BY <2>1, <2>2, WindowIsTyped DEF LongRunInv, Awaits
  <2> QED BY <2>1, <2>2, <2>3
<1>2. CASE ~ \E s \in Sessions : Settle(s)
  <2>1. UNCHANGED settled
    BY <1>2 DEF Next, Admin, Executor, LiveRunner, Tick, TakeLease, Authorize, BindPool, Control,
       Renew, ApproveLive, Mint, Consume, IssuePacket, ConsumeReceipt, Begin, Call, Finish,
       Throw, ConsumeApproval, LiveIteration, authorityVars
  <2> QED BY <2>1
<1> QED BY <1>1, <1>2

\* Settlement sets the window's state without reading it, and yet no iteration is settled
\* in a window that a command, an expiry or a successor has closed: each of those takes
\* the pending permit away, and settlement asks for it.
THEOREM SettledWhileOpen == Spec => SettledInOpenWindow
<1>1. LongRunInv /\ [Next]_vars =>
        [\A n \in DOMAIN settled' \ DOMAIN settled :
           windows[permits[n].window].state = "active"]_vars
  BY SettlesWhileOpen
<1> QED BY <1>1, LongRunInvHolds, PTL DEF Spec, SettledInOpenWindow

(***************************************************************************)
(* The round plan                                                          *)
(***************************************************************************)
Rounds == {"rehydration", "attack", "adjudication", "exploration", "source_retrieval",
           "evidence_comparison", "socratic"}

\* How often a plan asks for rehydration and for the two quality branches.
Frequencies == [rehydration : Nat \ 0..2, attack : Nat \ {0}, adjudication : Nat \ {0}]

\* The greatest of some numbers is one of them.
LEMMA GreatestOf ==
    ASSUME NEW n \in Nat, NEW S \in SUBSET (0..n), S # {}
    PROVE  Max(S) \in S /\ \A x \in S : Max(S) >= x
<1> DEFINE Below == {n - x : x \in S}
<1>1. Below \in SUBSET Nat /\ Below # {}
  <2>1. PICK x \in S : TRUE
    OBVIOUS
  <2>2. n - x \in Below
    OBVIOUS
  <2>3. \A y \in S : n - y \in Nat
    OBVIOUS
  <2> QED BY <2>2, <2>3
<1>2. PICK y \in Below : \A z \in Below : y <= z
  <2> HIDE DEF Below
  <2> QED BY <1>1, LeastNumber
<1>3. \A z \in Below : z >= y
  BY <1>1, <1>2
<1>4. PICK m \in S : y = n - m
  OBVIOUS
<1>5. \A x \in S : m >= x
  BY <1>3, <1>4, SMT
<1> QED BY <1>5 DEF Max

\* A kind that was not among the rounds from the i-th on has not been for as many.
LEMMA SinceAtLeast ==
    ASSUME NEW rounds \in Seq(Rounds), NEW first \in Nat \ {0}, NEW kind,
           NEW k \in 1..(Len(rounds) + 1), \A j \in k..Len(rounds) : rounds[j] # kind
    PROVE  /\ Since(rounds, first, kind) \in Int
           /\ Since(rounds, first, kind) >= Len(rounds) - k + 2
<1> DEFINE Had == {j \in DOMAIN rounds : rounds[j] = kind}
           S == {0} \cup {first + i - 1 : i \in Had}
           top == first + k - 2
<1>1. Len(rounds) \in Nat /\ DOMAIN rounds = 1..Len(rounds) /\ top \in Nat
  OBVIOUS
<1>2. \A j \in Had : j \in 1..(k - 1)
  BY <1>1
<1>3. S \in SUBSET (0..top) /\ S # {}
  <2>1. \A j \in 1..(k - 1) : first + j - 1 \in 0..top
    BY <1>1
  <2>2. 0 \in 0..top
    BY <1>1
  <2> HIDE DEF Had, top
  <2> QED BY <1>2, <2>1, <2>2
<1>4. Max(S) \in 0..top
  <2> HIDE DEF S, top
  <2> QED BY <1>1, <1>3, GreatestOf
<1>5. Since(rounds, first, kind) = (first + Len(rounds)) - Max(S)
  BY DEF Since
<1> HIDE DEF S
<1> QED BY <1>1, <1>4, <1>5

LEMMA SinceIsOne ==
    ASSUME NEW rounds \in Seq(Rounds), NEW first \in Nat \ {0}, rounds # <<>>
    PROVE  Since(rounds, first, rounds[Len(rounds)]) = 1
<1> DEFINE kind == rounds[Len(rounds)]
           Had == {j \in DOMAIN rounds : rounds[j] = kind}
           S == {0} \cup {first + i - 1 : i \in Had}
           top == first + Len(rounds) - 1
<1>1. Len(rounds) \in Nat \ {0} /\ DOMAIN rounds = 1..Len(rounds) /\ top \in Nat
  OBVIOUS
<1>2. Len(rounds) \in Had /\ \A j \in Had : j \in 1..Len(rounds)
  BY <1>1
<1>3. S \in SUBSET (0..top) /\ top \in S
  <2>1. \A j \in 1..Len(rounds) : first + j - 1 \in 0..top
    BY <1>1
  <2>2. 0 \in 0..top
    BY <1>1
  <2>3. top = first + Len(rounds) - 1
    OBVIOUS
  <2> HIDE DEF Had, top
  <2> QED BY <1>2, <2>1, <2>2, <2>3
<1>4. Max(S) \in 0..top /\ Max(S) >= top
  <2> HIDE DEF S, top
  <2> QED BY <1>1, <1>3, GreatestOf
<1>5. Since(rounds, first, kind) = (first + Len(rounds)) - Max(S)
  BY DEF Since
<1> HIDE DEF S
<1> QED BY <1>1, <1>4, <1>5

LEMMA CountAppends ==
    ASSUME NEW rounds \in Seq(Rounds), NEW round \in Rounds, NEW kind
    PROVE  /\ Count(rounds, kind) \in Nat
           /\ Count(Append(rounds, round), kind)
               = Count(rounds, kind) + (IF round = kind THEN 1 ELSE 0)
<1> DEFINE n == Len(rounds)
           Had == {j \in DOMAIN rounds : rounds[j] = kind}
           Have == {j \in DOMAIN Append(rounds, round) : Append(rounds, round)[j] = kind}
<1>1. n \in Nat /\ Had \subseteq 1..n /\ n + 1 \notin Had
  OBVIOUS
<1>2. Have = IF round = kind THEN Had \cup {n + 1} ELSE Had
  OBVIOUS
<1>3. IsFiniteSet(Had) /\ Cardinality(Had) \in Nat
  <2>1. IsFiniteSet(1..n)
    BY <1>1, FS_Interval
  <2> HIDE DEF Had, n
  <2>2. IsFiniteSet(Had)
    BY <1>1, <2>1, FS_Subset
  <2> QED BY <2>2, FS_CardinalityType
<1>4. Cardinality(Had \cup {n + 1}) = Cardinality(Had) + 1
  BY <1>1, <1>3, FS_AddElement
<1>5. /\ Count(rounds, kind) = Cardinality(Had)
      /\ Count(Append(rounds, round), kind) = Cardinality(Have)
  BY DEF Count
<1> HIDE DEF Had, Have
<1> QED BY <1>2, <1>3, <1>4, <1>5

\* The next round, with the number it has and what is due.
Rehydrates(rounds, first, every) ==
    first + Len(rounds) > 1 /\ (first + Len(rounds)) % every.rehydration = 0
IsDue(rounds, first, every, kind) == Since(rounds, first, kind) >= every[kind]
Behind(rounds) == Count(rounds, "attack") <= Count(rounds, "adjudication")

LEMMA NextRoundTells ==
    ASSUME NEW rounds \in Seq(Rounds), NEW first \in Nat \ {0}, NEW every \in Frequencies,
           NEW next, next = NextRound(rounds, first, every)
    PROVE  /\ next \in Rounds
           /\ next = "attack" =>
                ~IsDue(rounds, first, every, "adjudication") \/ Behind(rounds)
           /\ next = "adjudication" =>
                ~IsDue(rounds, first, every, "attack") \/ ~Behind(rounds)
           /\ ~Rehydrates(rounds, first, every) =>
                /\ IsDue(rounds, first, every, "attack") /\ next # "attack" =>
                     /\ next = "adjudication" /\ ~Behind(rounds)
                     /\ IsDue(rounds, first, every, "adjudication")
                /\ IsDue(rounds, first, every, "adjudication") /\ next # "adjudication" =>
                     /\ next = "attack" /\ Behind(rounds)
                     /\ IsDue(rounds, first, every, "attack")
<1> DEFINE n == first + Len(rounds)
           cycle == Cycle[((n - 1) % 4) + 1]
<1>1. cycle \in Rounds \ {"attack", "adjudication", "rehydration"}
  <2>1. (n - 1) % 4 \in 0..3
    OBVIOUS
  <2>2. \A i \in 0..3 : Cycle[i + 1] \in Rounds \ {"attack", "adjudication", "rehydration"}
    BY DEF Cycle, Rounds
  <2> HIDE DEF n
  <2> QED BY <2>1, <2>2
<1>2. next = IF Rehydrates(rounds, first, every) THEN "rehydration"
             ELSE IF /\ IsDue(rounds, first, every, "attack")
                     /\ ~IsDue(rounds, first, every, "adjudication") \/ Behind(rounds)
                  THEN "attack"
                  ELSE IF IsDue(rounds, first, every, "adjudication") THEN "adjudication"
                  ELSE cycle
  BY DEF NextRound, Rehydrates, IsDue, Behind, Frequencies
<1> HIDE DEF cycle
<1> QED BY <1>1, <1>2 DEF Rounds

\* Neither quality branch runs away from the other when the other one is always due.
Balanced(rounds, every) ==
    /\ every.adjudication = 1 =>
         Count(rounds, "attack") <= Count(rounds, "adjudication") + 1
    /\ every.attack = 1 => Count(rounds, "adjudication") <= Count(rounds, "attack")

LEMMA StaysBalanced ==
    ASSUME NEW rounds \in Seq(Rounds), NEW first \in Nat \ {0}, NEW every \in Frequencies,
           Balanced(rounds, every)
    PROVE  Balanced(Append(rounds, NextRound(rounds, first, every)), every)
<1> DEFINE attacks == Count(rounds, "attack")
           adjudications == Count(rounds, "adjudication")
<1>1. PICK next \in Rounds : next = NextRound(rounds, first, every)
  BY NextRoundTells
<1>2. /\ attacks \in Nat /\ adjudications \in Nat
      /\ Count(Append(rounds, next), "attack") = attacks + (IF next = "attack" THEN 1 ELSE 0)
      /\ Count(Append(rounds, next), "adjudication")
          = adjudications + (IF next = "adjudication" THEN 1 ELSE 0)
  BY CountAppends
<1>3. /\ every.adjudication = 1 => IsDue(rounds, first, every, "adjudication")
      /\ every.attack = 1 => IsDue(rounds, first, every, "attack")
  <2>1. Len(rounds) + 1 \in 1..(Len(rounds) + 1) /\ Len(rounds) \in Nat
        /\ \A kind : \A j \in (Len(rounds) + 1)..Len(rounds) : rounds[j] # kind
    OBVIOUS
  <2>2. \A kind : Since(rounds, first, kind) >= Len(rounds) - (Len(rounds) + 1) + 2
    BY <2>1, SinceAtLeast
  <2>3. Len(rounds) - (Len(rounds) + 1) + 2 = 1
    BY <2>1
  <2> QED BY <2>2, <2>3 DEF IsDue
<1>4. /\ every.adjudication = 1 /\ next = "attack" => attacks <= adjudications
      /\ every.attack = 1 /\ next = "adjudication" => attacks > adjudications
  <2>1. next = "attack" => ~IsDue(rounds, first, every, "adjudication") \/ Behind(rounds)
    BY <1>1, NextRoundTells
  <2>2. next = "adjudication" => ~IsDue(rounds, first, every, "attack") \/ ~Behind(rounds)
    BY <1>1, NextRoundTells
  <2> QED BY <1>2, <1>3, <2>1, <2>2 DEF Behind
<1>5. /\ every.adjudication = 1 => attacks <= adjudications + 1
      /\ every.attack = 1 => adjudications <= attacks
  BY DEF Balanced
<1> HIDE DEF attacks, adjudications
<1>6. Balanced(Append(rounds, next), every)
  BY <1>2, <1>4, <1>5 DEF Balanced
<1> QED BY <1>1, <1>6

\* Of four numbers in a row two that follow each other are no multiples.
LEMMA TwoInARow ==
    ASSUME NEW n \in Nat, NEW r \in Nat \ 0..2
    PROVE  \E i \in 0..2 : (n + i) % r # 0 /\ (n + i + 1) % r # 0
<1>1. ASSUME NEW m \in Nat, NEW d \in {1, 2}, m % r = 0 PROVE (m + d) % r # 0
  <2> SUFFICES ASSUME (m + d) % r = 0 PROVE FALSE
    OBVIOUS
  <2>1. r \in Nat /\ r > 2 /\ m + d \in Nat
    OBVIOUS
  <2>2. \A x \in Nat : x % r = 0 => x = r * (x \div r) /\ x \div r \in Int
    BY <2>1
  <2>3. PICK j \in Int, k \in Int : m = r * j /\ m + d = r * k
    BY <1>1, <2>1, <2>2
  <2>4. r * (k - j) = d
    BY <2>1, <2>3
  <2>5. PICK i \in Int : r * i = d
    BY <2>4
  <2>6. i <= 0 => r * i <= 0
    BY <2>1
  <2>7. i >= 1 => r * i >= r
    BY <2>1
  <2> QED BY <2>1, <2>5, <2>6, <2>7
<1> QED BY <1>1

\* The plans of 0, 1, ... rounds, each one round longer than the one before.
OneMore(plans, first, every, n) ==
    plans[n] = Append(plans[n - 1], NextRound(plans[n - 1], first, every))

Grows(plans, first, every, length) ==
    /\ plans \in [0..length -> Seq(Rounds)] /\ plans[0] = <<>>
    /\ \A n \in 1..length : OneMore(plans, first, every, n)

\* The recursion of Planned has the solution it asks for.
LEMMA PlannedGrows ==
    ASSUME NEW first \in Nat \ {0}, NEW every \in Frequencies, NEW length \in Nat
    PROVE  \E plans : /\ Grows(plans, first, every, length)
                      /\ Planned(first, every, length) = plans[length]
<1> DEFINE UpTo(f, k) == /\ f \in [0..length -> Seq(Rounds)] /\ f[0] = <<>>
                         /\ \A n \in 1..length : n <= k => OneMore(f, first, every, n)
           Missing == {k \in Nat : ~ \E f : UpTo(f, k)}
           Solves(f) == f = [n \in 0..length |->
                               IF n = 0 THEN <<>>
                               ELSE LET before == f[n - 1]
                                    IN  Append(before, NextRound(before, first, every))]
<1>0. \A rounds \in Seq(Rounds) : Append(rounds, NextRound(rounds, first, every)) \in Seq(Rounds)
  <2>1. \A rounds \in Seq(Rounds) : NextRound(rounds, first, every) \in Rounds
    BY NextRoundTells
  <2> QED BY <2>1
<1>1. UpTo([n \in 0..length |-> <<>>], 0)
  OBVIOUS
<1>2. ASSUME NEW k \in Nat, NEW f, UpTo(f, k)
      PROVE  \E g : UpTo(g, k + 1)
  <2> DEFINE next == Append(f[k], NextRound(f[k], first, every))
             g == [n \in 0..length |-> IF n <= k THEN f[n] ELSE IF n = k + 1 THEN next ELSE <<>>]
  <2>1. k < length => next \in Seq(Rounds)
    BY <1>0, <1>2
  <2>2. g \in [0..length -> Seq(Rounds)] /\ g[0] = <<>>
    <3> HIDE DEF next
    <3> QED BY <1>2, <2>1
  <2>3. \A n \in 1..length : n <= k => g[n] = f[n] /\ g[n - 1] = f[n - 1]
    OBVIOUS
  <2>4. k + 1 <= length => g[k + 1] = next /\ g[k] = f[k]
    OBVIOUS
  <2> HIDE DEF g
  <2>5. \A n \in 1..length : n <= k + 1 => OneMore(g, first, every, n)
    <3> SUFFICES ASSUME NEW n \in 1..length, n <= k + 1
                 PROVE  OneMore(g, first, every, n)
      OBVIOUS
    <3>1. CASE n <= k
      BY <1>2, <2>3, <3>1 DEF OneMore
    <3>2. CASE n = k + 1
      <4>1. n - 1 = k /\ k + 1 <= length
        BY <3>2
      <4> QED BY <2>4, <3>2, <4>1 DEF OneMore
    <3> QED BY <3>1, <3>2
  <2> QED BY <2>2, <2>5
<1>3. Missing = {}
  <2> SUFFICES ASSUME Missing # {} PROVE FALSE
    OBVIOUS
  <2>1. PICK k \in Missing : \A j \in Missing : k <= j
    BY LeastNumber
  <2> HIDE DEF UpTo
  <2>2. k \in Nat /\ ~ \E f : UpTo(f, k)
    OBVIOUS
  <2>3. k - 1 \in Nat /\ k - 1 \notin Missing
    BY <1>1, <2>1, <2>2
  <2>4. \E g : UpTo(g, (k - 1) + 1)
    BY <1>2, <2>3
  <2> QED BY <2>2, <2>4
<1>4. PICK f : UpTo(f, length)
  BY <1>3
<1>5. Solves(f)
  <2>1. \A n \in 0..length : f[n] = IF n = 0 THEN <<>>
                                    ELSE Append(f[n - 1], NextRound(f[n - 1], first, every))
    <3> SUFFICES ASSUME NEW n \in 0..length, n # 0
                 PROVE  f[n] = Append(f[n - 1], NextRound(f[n - 1], first, every))
      BY <1>4
    <3>1. n \in 1..length /\ n <= length
      OBVIOUS
    <3>2. OneMore(f, first, every, n)
      BY <1>4, <3>1
    <3> QED BY <3>2 DEF OneMore
  <2> QED BY <1>4, <2>1
<1>6. Planned(first, every, length) = (CHOOSE g : Solves(g))[length]
  BY DEF Planned
<1>7. PICK g : Solves(g) /\ Planned(first, every, length) = g[length]
  <2> HIDE DEF Solves
  <2> QED BY <1>5, <1>6
<1>8. /\ DOMAIN g = 0..length /\ g[0] = <<>> /\ g = [n \in 0..length |-> g[n]]
      /\ \A n \in 1..length : OneMore(g, first, every, n)
  <2>1. \A n \in 0..length : g[n] = IF n = 0 THEN <<>>
                                    ELSE Append(g[n - 1], NextRound(g[n - 1], first, every))
    BY <1>7
  <2>2. \A n \in 1..length : n \in 0..length /\ n # 0
    OBVIOUS
  <2>3. \A n \in 1..length : OneMore(g, first, every, n)
    BY <2>1, <2>2 DEF OneMore
  <2>4. 0 \in 0..length
    OBVIOUS
  <2>5. DOMAIN g = 0..length /\ g = [n \in 0..length |-> g[n]]
    BY <1>7
  <2> QED BY <2>1, <2>3, <2>4, <2>5
<1> DEFINE Wrong == {n \in 0..length : g[n] \notin Seq(Rounds)}
<1>9. Wrong = {}
  <2> SUFFICES ASSUME Wrong # {} PROVE FALSE
    OBVIOUS
  <2>1. Wrong \in SUBSET Nat
    OBVIOUS
  <2>2. PICK n \in Wrong : \A m \in Wrong : n <= m
    BY <2>1, LeastNumber
  <2>3. /\ n # 0 /\ n \in 1..length /\ n - 1 \in 0..length /\ n - 1 \in Nat
        /\ ~(n <= n - 1)
    <3>1. n # 0
      BY <1>8, <2>2
    <3> QED BY <2>2, <3>1
  <2>4. g[n - 1] \in Seq(Rounds)
    BY <2>2, <2>3
  <2> QED BY <1>0, <1>8, <2>2, <2>3, <2>4 DEF OneMore
<1> QED BY <1>7, <1>8, <1>9 DEF Grows

\* The plans are the beginnings of the last one, and none is out of balance.
LEMMA PlansTell ==
    ASSUME NEW first \in Nat \ {0}, NEW every \in Frequencies, NEW length \in Nat, NEW plans,
           Grows(plans, first, every, length)
    PROVE  /\ \A n \in 0..length : Len(plans[n]) = n /\ Balanced(plans[n], every)
           /\ \A n \in 0..length : \A k \in 1..n : plans[n][k] = plans[length][k]
<1> DEFINE Sound(n) == Len(plans[n]) = n /\ Balanced(plans[n], every)
           Unsound == {n \in 0..length : ~Sound(n)}
<1>1. plans \in [0..length -> Seq(Rounds)]
  BY DEF Grows
<1>2. \A n \in 1..length : /\ n - 1 \in 0..length /\ n \in 0..length
                           /\ plans[n] = Append(plans[n - 1], NextRound(plans[n - 1], first, every))
                           /\ NextRound(plans[n - 1], first, every) \in Rounds
  <2> SUFFICES ASSUME NEW n \in 1..length
               PROVE  /\ n - 1 \in 0..length /\ n \in 0..length
                      /\ plans[n] = Append(plans[n - 1], NextRound(plans[n - 1], first, every))
                      /\ NextRound(plans[n - 1], first, every) \in Rounds
    OBVIOUS
  <2>1. n - 1 \in 0..length /\ n \in 0..length
    OBVIOUS
  <2>2. plans[n - 1] \in Seq(Rounds)
    BY <1>1, <2>1
  <2>3. NextRound(plans[n - 1], first, every) \in Rounds
    BY <2>2, NextRoundTells
  <2>4. OneMore(plans, first, every, n)
    BY DEF Grows
  <2> QED BY <2>1, <2>3, <2>4 DEF OneMore
<1>3. Sound(0)
  <2>1. plans[0] = <<>> /\ Len(<<>>) = 0
    BY DEF Grows
  <2>2. \A kind : Count(<<>>, kind) = 0
    BY FS_EmptySet DEF Count
  <2> QED BY <2>1, <2>2 DEF Balanced
<1>4. ASSUME NEW n \in 1..length, Sound(n - 1)
      PROVE  Sound(n)
  <2>1. plans[n - 1] \in Seq(Rounds)
    BY <1>1, <1>2
  <2>2. Balanced(plans[n], every)
    BY <1>2, <1>4, <2>1, StaysBalanced
  <2>3. Len(plans[n]) = Len(plans[n - 1]) + 1
    BY <1>2, <2>1
  <2> QED BY <1>4, <2>2, <2>3
<1> HIDE DEF Sound
<1>5. Unsound = {}
  <2> SUFFICES ASSUME Unsound # {} PROVE FALSE
    OBVIOUS
  <2>1. Unsound \in SUBSET Nat
    OBVIOUS
  <2>2. PICK n \in Unsound : \A m \in Unsound : n <= m
    BY <2>1, LeastNumber
  <2>3. n \in 1..length /\ n - 1 \in 0..length /\ ~(n <= n - 1)
    BY <1>3, <2>2
  <2> QED BY <1>4, <2>2, <2>3
<1>6. \A n \in 0..length : Len(plans[n]) = n /\ Balanced(plans[n], every)
  BY <1>5 DEF Sound
<1>7. ASSUME NEW n \in 0..length, NEW k \in 1..n
      PROVE  plans[n][k] = plans[length][k]
  <2> DEFINE Changed == {m \in n..length : plans[m][k] # plans[n][k]}
  <2>1. Changed = {}
    <3> SUFFICES ASSUME Changed # {} PROVE FALSE
      OBVIOUS
    <3>1. Changed \in SUBSET Nat
      OBVIOUS
    <3>2. PICK m \in Changed : \A j \in Changed : m <= j
      BY <3>1, LeastNumber
    <3>3. m # n /\ m \in 1..length /\ m - 1 \in n..length /\ ~(m <= m - 1) /\ m - 1 \in 0..length
      BY <3>2
    <3>4. plans[m - 1][k] = plans[n][k]
      BY <3>2, <3>3
    <3>5. PICK before \in Seq(Rounds) : before = plans[m - 1]
      BY <1>1, <3>3
    <3>6. k \in 1..Len(before)
      <4>1. Len(before) = m - 1
        BY <1>6, <3>3, <3>5
      <4>2. k \in 1..(m - 1)
        BY <3>3
      <4> QED BY <4>1, <4>2
    <3>7. plans[m][k] = before[k]
      <4>1. PICK next \in Rounds : plans[m] = Append(before, next)
        BY <1>2, <3>3, <3>5
      <4> QED BY <3>6, <4>1
    <3> QED BY <3>2, <3>4, <3>5, <3>7
  <2>2. length \in n..length
    OBVIOUS
  <2> QED BY <2>1, <2>2
<1> QED BY <1>6, <1>7

\* A kind that is missing from the i-th round on is due at the n-th, if that is long enough.
LEMMA MissingIsDue ==
    ASSUME NEW first \in Nat \ {0}, NEW every \in Frequencies, NEW length \in Nat, NEW plans,
           Grows(plans, first, every, length), NEW kind \in {"attack", "adjudication"},
           NEW i \in 1..length, NEW n \in 1..length, n >= i + every[kind] - 1,
           \A j \in i..(n - 1) : plans[length][j] # kind
    PROVE  IsDue(plans[n - 1], first, every, kind)
<1>1. /\ n - 1 \in 0..length /\ every[kind] \in Nat \ {0} /\ i \in Nat
  BY DEF Frequencies
<1>2. Len(plans[n - 1]) = n - 1 /\ plans[n - 1] \in Seq(Rounds)
  <2>1. plans \in [0..length -> Seq(Rounds)]
    BY DEF Grows
  <2>2. \A m \in 0..length : Len(plans[m]) = m
    BY PlansTell
  <2> QED BY <1>1, <2>1, <2>2
<1>3. \A j \in 1..(n - 1) : plans[n - 1][j] = plans[length][j]
  BY <1>1, PlansTell
<1>4. i \in 1..(Len(plans[n - 1]) + 1)
  BY <1>1, <1>2
<1>5. \A j \in i..Len(plans[n - 1]) : plans[n - 1][j] # kind
  <2>1. \A j \in i..Len(plans[n - 1]) : j \in 1..(n - 1) /\ j \in i..(n - 1)
    BY <1>1, <1>2
  <2> QED BY <1>3, <2>1
<1>6. /\ Since(plans[n - 1], first, kind) \in Int
      /\ Since(plans[n - 1], first, kind) >= (n - 1) - i + 2
  BY <1>2, <1>4, <1>5, SinceAtLeast
<1>7. (n - 1) - i + 2 >= every[kind]
  BY <1>1
<1> QED BY <1>1, <1>6, <1>7 DEF IsDue

\* What a round of a plan is, and the plan before it.
RoundTells(plans, first, every, length, n) ==
    /\ plans[n - 1] \in Seq(Rounds) /\ Len(plans[n - 1]) = n - 1
    /\ Balanced(plans[n - 1], every)
    /\ plans[length][n] \in Rounds
    /\ plans[length][n] = NextRound(plans[n - 1], first, every)
    /\ plans[n] = Append(plans[n - 1], plans[length][n])
    /\ Len(plans[n]) = n

LEMMA RoundIsNext ==
    ASSUME NEW first \in Nat \ {0}, NEW every \in Frequencies, NEW length \in Nat, NEW plans,
           Grows(plans, first, every, length), NEW n \in 1..length
    PROVE  RoundTells(plans, first, every, length, n)
<1>1. n - 1 \in 0..length /\ n \in 0..length /\ n \in 1..n
  OBVIOUS
<1>2. plans \in [0..length -> Seq(Rounds)] /\ OneMore(plans, first, every, n)
  BY DEF Grows
<1>3. PICK before \in Seq(Rounds) : before = plans[n - 1]
  BY <1>1, <1>2
<1>4. Len(before) = n - 1 /\ Balanced(before, every)
  <2>1. \A m \in 0..length : Len(plans[m]) = m /\ Balanced(plans[m], every)
    BY PlansTell
  <2> QED BY <1>1, <1>3, <2>1
<1>5. PICK next \in Rounds : next = NextRound(before, first, every)
  BY NextRoundTells
<1>6. plans[n] = Append(before, next)
  BY <1>2, <1>3, <1>5 DEF OneMore
<1>7. plans[n][n] = next
  BY <1>4, <1>6
<1>8. plans[n][n] = plans[length][n]
  BY <1>1, PlansTell
<1>9. Len(plans[n]) = n
  BY <1>4, <1>6
<1> QED BY <1>3, <1>4, <1>5, <1>6, <1>7, <1>8, <1>9 DEF RoundTells

\* Of two rounds in a row that are no rehydration, a branch that is due gets one.
LEMMA DueIsNext ==
    ASSUME NEW first \in Nat \ {0}, NEW every \in Frequencies, NEW length \in Nat, NEW plans,
           Grows(plans, first, every, length), NEW kind \in {"attack", "adjudication"},
           NEW n \in 1..length, n + 1 \in 1..length,
           ~Rehydrates(plans[n - 1], first, every), ~Rehydrates(plans[n], first, every),
           IsDue(plans[n - 1], first, every, kind), IsDue(plans[n], first, every, kind)
    PROVE  plans[length][n] = kind \/ plans[length][n + 1] = kind
<1> SUFFICES ASSUME plans[length][n] # kind, plans[length][n + 1] # kind
             PROVE  FALSE
  OBVIOUS
<1>1. PICK before \in Seq(Rounds), round \in Rounds :
        /\ before = plans[n - 1] /\ Balanced(before, every) /\ round = plans[length][n]
        /\ round = NextRound(before, first, every) /\ plans[n] = Append(before, round)
  <2>1. RoundTells(plans, first, every, length, n)
    BY RoundIsNext
  <2> QED BY <2>1 DEF RoundTells
<1>2. PICK after \in Seq(Rounds), next \in Rounds :
        /\ after = plans[n] /\ next = plans[length][n + 1]
        /\ next = NextRound(after, first, every)
  <2>1. PICK m \in 1..length : m = n + 1 /\ m - 1 = n
    OBVIOUS
  <2>2. RoundTells(plans, first, every, length, m)
    BY RoundIsNext
  <2> QED BY <2>1, <2>2 DEF RoundTells
<1>3. after = Append(before, round) /\ after # <<>> /\ after[Len(after)] = round
  BY <1>1, <1>2
<1>4. Since(after, first, round) = 1
  BY <1>3, SinceIsOne
<1>5. /\ Count(before, "attack") \in Nat /\ Count(before, "adjudication") \in Nat
      /\ Count(after, "attack") = Count(before, "attack") + (IF round = "attack" THEN 1 ELSE 0)
      /\ Count(after, "adjudication")
          = Count(before, "adjudication") + (IF round = "adjudication" THEN 1 ELSE 0)
  BY <1>3, CountAppends
<1>6. every.attack \in Nat \ {0} /\ every.adjudication \in Nat \ {0}
  BY DEF Frequencies
<1>7. CASE kind = "attack"
  <2>1. round = "adjudication" /\ ~Behind(before)
    BY <1>1, <1>7, NextRoundTells
  <2>2. ~Behind(after) /\ IsDue(after, first, every, "adjudication")
    BY <1>2, <1>7, NextRoundTells
  <2>3. every.adjudication = 1
    BY <1>4, <1>6, <2>1, <2>2 DEF IsDue
  <2> QED BY <1>1, <1>5, <2>1, <2>2, <2>3 DEF Behind, Balanced
<1>8. CASE kind = "adjudication"
  <2>1. round = "attack" /\ Behind(before)
    BY <1>1, <1>8, NextRoundTells
  <2>2. Behind(after) /\ IsDue(after, first, every, "attack")
    BY <1>2, <1>8, NextRoundTells
  <2>3. every.attack = 1
    BY <1>4, <1>6, <2>1, <2>2 DEF IsDue
  <2> QED BY <1>1, <1>5, <2>1, <2>2, <2>3 DEF Behind, Balanced
<1> QED BY <1>7, <1>8

LEMMA BranchRecurs ==
    ASSUME NEW first \in Nat \ {0}, NEW every \in Frequencies, NEW length \in Nat, NEW plans,
           Grows(plans, first, every, length), NEW kind \in {"attack", "adjudication"}
    PROVE  Recurs(plans[length], kind, every[kind])
<1> DEFINE often == every[kind]
<1>1. often \in Nat \ {0} /\ every.rehydration \in Nat \ 0..2
  BY DEF Frequencies
<1>2. Len(plans[length]) = length
  BY PlansTell
<1> HIDE DEF often
<1> SUFFICES ASSUME NEW i \in 1..(length - often - 2),
                    \A j \in i..(i + often + 2) : plans[length][j] # kind
             PROVE  FALSE
  BY <1>2 DEF Recurs, often
<1>3. PICK k \in 0..2 : /\ (first + i + often - 2 + k) % every.rehydration # 0
                        /\ (first + i + often - 2 + k + 1) % every.rehydration # 0
  <2>1. first + i + often - 2 \in Nat
    BY <1>1
  <2> QED BY <1>1, <2>1, TwoInARow
<1>4. PICK n \in 1..length : n = i + often - 1 + k
  BY <1>1
<1>5. n + 1 \in 1..length /\ n \in i..(i + often + 2) /\ n + 1 \in i..(i + often + 2)
  BY <1>1, <1>4
<1>5a. RoundTells(plans, first, every, length, n)
  BY RoundIsNext
<1>6. ~Rehydrates(plans[n - 1], first, every)
  <2>1. Len(plans[n - 1]) = n - 1
    BY <1>5a DEF RoundTells
  <2>2. first + (n - 1) = first + i + often - 2 + k
    BY <1>1, <1>4
  <2> QED BY <1>3, <2>1, <2>2 DEF Rehydrates
<1>7. ~Rehydrates(plans[n], first, every)
  <2>1. Len(plans[n]) = n
    BY <1>5a DEF RoundTells
  <2>2. first + n = first + i + often - 2 + k + 1
    BY <1>1, <1>4
  <2> QED BY <1>3, <2>1, <2>2 DEF Rehydrates
<1>8. IsDue(plans[n - 1], first, every, kind)
  <2>1. i \in 1..length /\ n >= i + often - 1
    BY <1>1, <1>4
  <2>2. \A j \in i..(n - 1) : plans[length][j] # kind
    BY <1>1, <1>4
  <2> QED BY <2>1, <2>2, MissingIsDue DEF often
<1>9. IsDue(plans[n], first, every, kind)
  <2>1. i \in 1..length /\ n + 1 >= i + often - 1 /\ (n + 1) - 1 = n
    BY <1>1, <1>4
  <2>2. \A j \in i..((n + 1) - 1) : plans[length][j] # kind
    BY <1>1, <1>4
  <2> QED BY <1>5, <2>1, <2>2, MissingIsDue DEF often
<1>10. plans[length][n] = kind \/ plans[length][n + 1] = kind
  BY <1>5, <1>6, <1>7, <1>8, <1>9, DueIsNext
<1> QED BY <1>5, <1>10

\* However long a plan is and wherever its numbering begins, each quality branch comes back
\* within three rounds over its frequency, for any frequencies of the two, if rehydration
\* is no more often than at every third round: neither ties nor rehydration starve one.
THEOREM NoBranchStarves ==
    \A first \in Nat \ {0}, every \in Frequencies, length \in Nat :
      /\ Recurs(Planned(first, every, length), "attack", every.attack)
      /\ Recurs(Planned(first, every, length), "adjudication", every.adjudication)
<1> SUFFICES ASSUME NEW first \in Nat \ {0}, NEW every \in Frequencies, NEW length \in Nat
             PROVE  /\ Recurs(Planned(first, every, length), "attack", every.attack)
                    /\ Recurs(Planned(first, every, length), "adjudication", every.adjudication)
  OBVIOUS
<1>1. PICK plans : /\ Grows(plans, first, every, length)
                   /\ Planned(first, every, length) = plans[length]
  BY PlannedGrows
<1>2. \A kind \in {"attack", "adjudication"} : Recurs(plans[length], kind, every[kind])
  BY <1>1, BranchRecurs
<1> QED BY <1>1, <1>2

LEMMA RoundsFollow ==
    ASSUME LongRunInv
    PROVE  RoundsRecur
<1> DEFINE Tried == [rehydration : 3..5, attack : 1..3, adjudication : 1..3]
<1>1. Tried \subseteq Frequencies
  BY DEF Frequencies
<1>2. \A first \in Nat \ {0}, every \in Tried :
        /\ Recurs(Planned(first, every, 18), "attack", every.attack)
        /\ Recurs(Planned(first, every, 18), "adjudication", every.adjudication)
  BY <1>1, NoBranchStarves
<1>3. \A first \in 1..(MaxIterations + 1) : first \in Nat \ {0}
  BY BoundsAreNumbers
<1>4. \A first \in 1..(MaxIterations + 1) : RecursFrom[first]
  BY <1>2, <1>3 DEF RecursFrom
<1>5. \A w \in DOMAIN windows : windows[w].next \in 1..(MaxIterations + 1)
  BY WindowIsTyped DEF LongRunInv, WindowRow
<1> QED BY <1>4, <1>5 DEF RoundsRecur

\* Wherever a window's numbering has come to, the planner comes back from there to both
\* quality branches.
THEOREM PlansRecur == Spec => []RoundsRecur
<1>1. LongRunInv => RoundsRecur
  BY RoundsFollow
<1> QED BY <1>1, LongRunInvHolds, PTL
=============================================================================
