-------------------------- MODULE SchemaMigrations --------------------------
(***************************************************************************)
(* Processes that start on one Max control database: the preflight, the    *)
(* migrations with their backfills, the check of the result, and the       *)
(* marker of a fixture.  A database may be absent, or left by an earlier   *)
(* release at any version with what that version's history holds.  The     *)
(* migrations are one transaction; what apply_migrations reads before it   *)
(* may be stale in it.                                                     *)
(***************************************************************************)
EXTENDS Integers, FiniteSets

CONSTANTS
    Starters,
    Fixtures,       \* the starters with fixture=True
    Objects,        \* canonical object versions of schema 1
    Runs,
    Previews        \* execution previews of schema 25

Current == 32       \* CONTROL_SCHEMA_VERSION

VARIABLES
    db,         \* the file and its tables, as far as migrations read them
    starter,    \* the progress of each initialize_control_db
    promised    \* history variable: a caller was told that it is initialized

migrationVars == <<db, starter, promised>>

None == "none"

\* What the constants are assumed to be, where the module stands beside others.
MigrationsAssumption == None \notin Runs /\ Fixtures \subseteq Starters

ClaimStates == {"claimed", "dispatching", "dispatched", "attested", "settled", "failed",
                "unknown", "disputed", "released"}

Stages == {"idle", "preflighted", "opened", "migrated", "verified", "marked",
           "initialized", "refused", "crashed"}
Connected == {"opened", "migrated", "verified", "marked"}

MigrationsTypeOK ==
    /\ db \in [exists : BOOLEAN, ledger : SUBSET (1..(Current + 1)), sound : BOOLEAN, exact : BOOLEAN,
               appended : [Objects -> SUBSET Runs], members : [Objects -> Runs \cup {None}],
               runner : BOOLEAN, claim : ClaimStates \cup {"odd", None},
               attempt : {"reserved", "dispatching", "succeeded", "settled", "failed",
                          "unknown", "disputed", "cancelled", None},
               previews : SUBSET Previews, projected : SUBSET Previews, marked : BOOLEAN]
    /\ \A p \in Starters :
         /\ starter[p].at \in Stages
         /\ starter[p].before \subseteq 1..Current
    /\ promised \in BOOLEAN

Absent == [exists |-> FALSE, ledger |-> {}, sound |-> TRUE, exact |-> TRUE,
           appended |-> [o \in Objects |-> {}], members |-> [o \in Objects |-> None],
           runner |-> FALSE, claim |-> None, attempt |-> None,
           previews |-> {}, projected |-> {}, marked |-> FALSE]

Left(versions) == [Absent EXCEPT !.exists = TRUE, !.ledger = versions]

\* What earlier releases leave: event payloads that bind an object to no run,
\* to one or to several, runner history, a claim in some state, previews; a
\* ledger with a gap or of a later release, and tables that have drifted so far
\* that a shape is not met, or only from what the schema manifest lists.
Databases ==
    {Absent, Left(1..Current), Left(1..(Current + 1)), Left((1..Current) \ {31}),
     [Left(1..Current) EXCEPT !.sound = FALSE], [Left(1..24) EXCEPT !.exact = FALSE]}
      \cup {[Left({1}) EXCEPT !.appended = a] : a \in [Objects -> SUBSET Runs]}
      \cup {[Left(1..3) EXCEPT !.runner = b] : b \in BOOLEAN}
      \cup {[Left(1..7) EXCEPT !.claim = c] : c \in ClaimStates \cup {"odd", None}}
      \cup {[Left(1..25) EXCEPT !.previews = s] : s \in SUBSET Previews}

Idle == [at |-> "idle", created |-> FALSE, before |-> {}, snapshot |-> {},
         orphan |-> FALSE, why |-> None]

MigrationsInit ==
    /\ db \in Databases
    /\ starter = [p \in Starters |-> Idle]
    /\ promised = FALSE

Moves(p, from, to) ==
    /\ starter[p].at = from
    /\ starter' = [starter EXCEPT ![p].at = to]

\* The file this invocation created is removed again, and other connections
\* are left with what no path leads to.
Refuse(p, why) ==
    LET unlinks == starter[p].created /\ db.exists
    IN /\ starter' = [q \in Starters |->
            IF q = p THEN [starter[p] EXCEPT !.at = "refused", !.why = why]
            ELSE [starter[q] EXCEPT !.orphan =
                    @ \/ (unlinks /\ starter[q].at \in Connected)]]
       /\ db' = IF unlinks THEN Absent ELSE db
       /\ UNCHANGED promised

(***************************************************************************)
(* The ledger                                                              *)
(***************************************************************************)

ValidLedger(ledger) == \E v \in 0..Current : ledger = 1..v

(***************************************************************************)
(* The migrations' backfills                                               *)
(***************************************************************************)

\* Schema 2: an object belongs to the one run whose events appended it.
Backfill2(d) ==
    IF 1 \in d.ledger
    THEN {[d EXCEPT !.members = m] : m \in {m \in [Objects -> Runs] :
            \A o \in Objects : d.appended[o] = {m[o]}}}
    ELSE {d}

\* Schema 4 refuses to guess the manifests of schema 3's runner history.
Backfill4(d) == IF d.runner THEN {} ELSE {d}

Attempted == [claimed |-> "reserved", dispatching |-> "dispatching", dispatched |-> "succeeded",
              attested |-> "settled", settled |-> "settled", failed |-> "failed",
              unknown |-> "unknown", disputed |-> "disputed", released |-> "cancelled"]

\* Schema 8: one physical attempt for each claim.
Backfill8(d) ==
    IF d.claim = None THEN {d}
    ELSE IF d.claim \in ClaimStates THEN {[d EXCEPT !.attempt = Attempted[d.claim]]} ELSE {}

\* Schema 26: a current projection and an event for every preview.
Backfill26(d) == [d EXCEPT !.projected = d.previews]

Rebuilds(p) == 26 \notin starter[p].before /\ 25 \in starter[p].before

\* Mutant: the ledger as it was read before the transaction.
AppliedBefore(p) == starter[p].before

Applied(p) == db.ledger

\* The databases that the missing migrations, in their order, make of this one:
\* none if one of them refuses.
Migrated(p) ==
    LET missing == (1..Current) \ Applied(p)
        after(d, v, step) == IF v \in missing THEN step ELSE {d}
        two == after(db, 2, Backfill2(db))
        four == UNION {after(d, 4, Backfill4(d)) : d \in two}
        eight == UNION {after(d, 8, Backfill8(d)) : d \in four}
        all == UNION {after(d, 26, {Backfill26(d)}) : d \in eight}
    IN {[d EXCEPT !.ledger = 1..Current] : d \in all}

(***************************************************************************)
(* initialize_control_db                                                   *)
(***************************************************************************)

\* O_EXCL: a fixture never takes a path that exists.
CreateFixture(p) ==
    /\ p \in Fixtures
    /\ starter[p].at = "idle"
    /\ IF db.exists
       THEN Refuse(p, "exists")
       ELSE /\ starter' = [starter EXCEPT ![p].at = "preflighted", ![p].created = TRUE]
            /\ db' = [Absent EXCEPT !.exists = TRUE]
            /\ UNCHANGED promised

Preflight(p) ==
    /\ p \notin Fixtures /\ starter[p].at = "idle"
    /\ IF db.exists => ValidLedger(db.ledger)
       THEN Moves(p, "idle", "preflighted") /\ UNCHANGED <<db, promised>>
       ELSE Refuse(p, "ledger")

\* Connecting creates the file.  The rebuild of schema 26 is decided, and its
\* rows are captured, before the transaction.
Open(p) ==
    /\ starter[p].at = "preflighted"
    /\ IF ValidLedger(db.ledger)
       THEN /\ starter' = [starter EXCEPT ![p].at = "opened", ![p].before = db.ledger,
                                           ![p].snapshot = db.previews]
            /\ db' = [db EXCEPT !.exists = TRUE]
            /\ UNCHANGED promised
       ELSE Refuse(p, "ledger")

\* The tables, columns, indexes and triggers every schema has to have.
HasShape(d) == d.sound

\* What the transaction is rolled back for: statements for tables that exist,
\* history no backfill can carry over, a shape that is not the release's, and
\* previews other than those captured.
Objections(p) ==
    {why \in {"ledger", "statement", "history", "shape", "rebuild"} :
       CASE why = "ledger" -> ~ValidLedger(db.ledger)
         [] why = "statement" -> ~(db.ledger \subseteq Applied(p))
         [] why = "history" -> Migrated(p) = {}
         [] why = "shape" -> ~HasShape(db)
         [] why = "rebuild" -> Rebuilds(p) /\ starter[p].snapshot # db.previews}

ApplyMigrations(p) ==
    /\ starter[p].at = "opened" /\ ~starter[p].orphan
    /\ \/ /\ Objections(p) = {}
          /\ db' \in Migrated(p)
          /\ Moves(p, "opened", "migrated")
          /\ UNCHANGED promised
       \/ \E why \in Objections(p) : Refuse(p, why)

\* The migrations are committed before the database is compared with the
\* manifest.
VerifyManifest(p) ==
    /\ starter[p].at = "migrated" /\ ~starter[p].orphan
    /\ IF db.exact THEN Moves(p, "migrated", "verified") /\ UNCHANGED <<db, promised>>
                   ELSE Refuse(p, "manifest")

Mark(p) ==
    /\ starter[p].created /\ ~starter[p].orphan
    /\ Moves(p, "verified", "marked")
    /\ db' = [db EXCEPT !.marked = TRUE]
    /\ UNCHANGED promised

\* A connection to a file that was removed goes on.
Orphaned(p) ==
    /\ starter[p].orphan
    /\ \/ Moves(p, "opened", "migrated")
       \/ Moves(p, "migrated", "verified")
       \/ starter[p].created /\ Moves(p, "verified", "marked")
    /\ UNCHANGED <<db, promised>>

Initialized(p) ==
    /\ Moves(p, IF starter[p].created THEN "marked" ELSE "verified", "initialized")
    /\ promised' = TRUE
    /\ UNCHANGED db

\* The lock is not free within busy_timeout, or the disk fails.
Raise(p) ==
    /\ starter[p].at \in {"preflighted"} \cup Connected
    /\ Refuse(p, "io")

Crash(p) ==
    /\ starter[p].at \in {"preflighted"} \cup Connected
    /\ starter' = [starter EXCEPT ![p].at = "crashed"]
    /\ UNCHANGED <<db, promised>>

\* A process of the release before goes on with its work.
EarlierReleaseWrites ==
    /\ db.ledger = 1..25
    /\ \E r \in Previews \ db.previews : db' = [db EXCEPT !.previews = @ \cup {r}]
    /\ UNCHANGED <<starter, promised>>

MigrationsNext ==
    \/ EarlierReleaseWrites
    \/ \E p \in Starters :
         \/ CreateFixture(p) \/ Preflight(p) \/ Open(p) \/ ApplyMigrations(p)
         \/ VerifyManifest(p) \/ Mark(p) \/ Orphaned(p) \/ Initialized(p)
         \/ Raise(p) \/ Crash(p)

MigrationsSpec == MigrationsInit /\ [][MigrationsNext]_migrationVars

(***************************************************************************)
(* Properties                                                              *)
(***************************************************************************)

\* Starting beside others fails for no migration of theirs: none is executed
\* on what has it already.
NoneRunsTwice == \A p \in Starters : starter[p].why # "statement"

\* A database that is current has carried its history over, however starters
\* and the earlier release interleaved: every object belongs to the only run
\* that appended it, a claim has the attempt its state stands for, and every
\* preview has its projection.
Carried ==
    db.exists /\ db.ledger = 1..Current =>
      /\ \A o \in Objects : db.appended[o] = IF db.members[o] = None THEN {} ELSE {db.members[o]}
      /\ db.claim # None => db.attempt # None
      /\ db.claim \in {"dispatched", "attested", "settled"} <=> db.attempt \in {"succeeded", "settled"}
      /\ db.projected = db.previews

\* Both, with the types of every variable.
HistoryIsCarried == MigrationsTypeOK /\ NoneRunsTwice /\ Carried

\* A database whose ledger has a gap or is a later release's is left as it is.
RejectedUntouched ==
    [][(\E v \in db.ledger : v > Current \/ (v > 1 /\ v - 1 \notin db.ledger))
         => UNCHANGED db]_migrationVars

\* The comment of the cleanup: it is recovery for a failed first migration and
\* never targets an existing user database, one that somebody was told is
\* initialized.
NeverRemoved == promised => db.exists
==============================================================================
