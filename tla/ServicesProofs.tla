--------------------------- MODULE ServicesProofs ---------------------------
(***************************************************************************)
(* Proofs about CoreService, for any projects, documents, versions,        *)
(* sessions and bounds, and about ExternalAgent, for any sessions, keys,   *)
(* contents, times and bounds.                                             *)
(*                                                                         *)
(* That a project has one current checkpoint rests on the reviews: a       *)
(* rejected item never becomes current again because its one request has   *)
(* been decided.  So CoreService's invariant has three parts that are      *)
(* proved together: items supersede what is before them and of their kind, *)
(* requests tell the status of what they are for, and evidence has spent   *)
(* its token.                                                              *)
(*                                                                         *)
(* ExternalAgent's says that the packet's claim is the newest there is or  *)
(* none, no other claim is active, and a packet that was submitted keeps   *)
(* the candidate it was submitted with, which no other packet and no later *)
(* claim can take from it.                                                 *)
(*                                                                         *)
(* ResearchContext's invariant is about the places of rows in the order of *)
(* the index: a write only moves its own row to the front, so what lies    *)
(* before a reader's offset stays there.  SchemaMigrations' says, for each *)
(* backfill, what a database of its schema has.                            *)
(***************************************************************************)
EXTENDS CoreService, ExternalAgent, ResearchContext, SchemaMigrations, FiniteSetTheorems,
        SequenceTheorems, WellFoundedInduction, TLAPS

(***************************************************************************)
(* CoreService                                                             *)
(***************************************************************************)
(***************************************************************************)
(* The invariant                                                           *)
(***************************************************************************)
TokenRow == [session : Sessions, project : Projects, document : Documents,
             version : Versions, expired : BOOLEAN, consumed : BOOLEAN]

EvidenceRow == [token : Nat, by : Sessions, document : Documents, version : Versions,
                status : {"candidate"} \cup Decided]

ItemRow == [project : Projects, by : Sessions, kind : Kinds,
            status : {"draft", "candidate", "under_review"} \cup Decided,
            supersedes : Nat, evidence : SUBSET Nat]

RequestRow == [project : Projects, target : {"item", "evidence"}, id : Nat,
               status : {"pending", "approved", "rejected"}]

WorldTyped ==
    /\ active \subseteq Projects
    /\ sources \subseteq Projects \X Documents
    /\ version \in [Documents -> Versions]

RowsTyped ==
    /\ tokens \in Seq(TokenRow)
    /\ evidence \in Seq(EvidenceRow)
    /\ items \in Seq(ItemRow)
    /\ requests \in Seq(RequestRow)

\* An item supersedes nothing, or an earlier item of its project and its kind.
Supersession ==
    \A i \in DOMAIN items : items[i].supersedes # 0 =>
      /\ items[i].supersedes \in DOMAIN items /\ items[i].supersedes < i
      /\ items[items[i].supersedes].project = items[i].project
      /\ items[items[i].supersedes].kind = items[i].kind

OneCurrent == \A p \in Projects : \A i, j \in CurrentCheckpoints(p) : i = j

\* A request is for something there is.
RequestsNamed ==
    \A r \in DOMAIN requests :
      requests[r].id \in IF requests[r].target = "item" THEN DOMAIN items ELSE DOMAIN evidence

\* An item's status is what its one request says.
ItemReviewed(i) ==
    /\ \A q, r \in Requests("item", i) : q = r
    /\ \A r \in Requests("item", i) : items[i].status = Tells(r)
    /\ Requests("item", i) = {} <=> items[i].status \in {"draft", "candidate"}

\* Evidence is a candidate until one of its requests is decided, the only one that
\* ever is, and a project asks for it once.
EvidenceReviewed(e) ==
    /\ \A q, r \in Requests("evidence", e) :
         requests[q].project = requests[r].project => q = r
    /\ \A q, r \in Requests("evidence", e) :
         requests[q].status # "pending" /\ requests[r].status # "pending" => q = r
    /\ \A r \in Requests("evidence", e) :
         requests[r].status # "pending" => evidence[e].status = Tells(r)
    /\ evidence[e].status = "candidate"
         <=> \A r \in Requests("evidence", e) : requests[r].status = "pending"

\* Evidence has spent its own token, and is of the version the token proved.
TokensSpent ==
    /\ \A e \in DOMAIN evidence :
         /\ evidence[e].token \in DOMAIN tokens
         /\ tokens[evidence[e].token].consumed
         /\ tokens[evidence[e].token].version = evidence[e].version
    /\ \A e, f \in DOMAIN evidence : evidence[e].token = evidence[f].token => e = f

ItemsInv == Supersession /\ OneCurrent

ReviewsInv ==
    /\ RequestsNamed
    /\ \A i \in DOMAIN items : ItemReviewed(i)
    /\ \A e \in DOMAIN evidence : EvidenceReviewed(e)

CoreInv == WorldTyped /\ RowsTyped /\ ItemsInv /\ ReviewsInv /\ TokensSpent

\* What a request tells of its target.
LEMMA TellsWhat ==
    ASSUME RowsTyped, NEW r \in DOMAIN requests
    PROVE  /\ requests[r].status = "pending" => Tells(r) = "under_review"
           /\ requests[r].status = "approved" => Tells(r) = "accepted"
           /\ requests[r].status = "rejected" => Tells(r) = "rejected"
           /\ requests[r].status \in {"pending", "approved", "rejected"}
<1>1. requests[r] \in RequestRow
  BY DEF RowsTyped
<1> QED BY <1>1 DEF RequestRow, Tells

LEMMA CoreInvInit ==
    ASSUME VersionAssumption, Init
    PROVE  CoreInv
<1>1. WorldTyped /\ RowsTyped
  BY DEF VersionAssumption, Init, WorldTyped, RowsTyped
<1>2. Supersession /\ OneCurrent
  BY DEF Init, Supersession, OneCurrent, CurrentCheckpoints
<1>3. ReviewsInv /\ TokensSpent
  BY DEF Init, ReviewsInv, RequestsNamed, TokensSpent
<1> QED BY <1>1, <1>2, <1>3 DEF CoreInv, ItemsInv

(***************************************************************************)
(* Projects, sources and tokens                                            *)
(***************************************************************************)

\* What the items and the evidence do not change keeps what is said of them.
LEMMA ItemsKept ==
    ASSUME ItemsInv, items' = items
    PROVE  ItemsInv'
  BY DEF ItemsInv, Supersession, OneCurrent, CurrentCheckpoints, IsCheckpoint, Successors

LEMMA ReviewsKept ==
    ASSUME ReviewsInv, items' = items, evidence' = evidence, requests' = requests
    PROVE  ReviewsInv'
  BY DEF ReviewsInv, RequestsNamed, ItemReviewed, EvidenceReviewed, Requests, Tells

LEMMA CoreWorldStep ==
    ASSUME CoreInv, NEW p \in Projects, NEW d \in Documents, NEW v \in Versions,
           ArchiveProject(p) \/ IngestFile(p, d) \/ MetadataUpdate(p, d, v)
    PROVE  CoreInv'
<1>1. UNCHANGED <<tokens, evidence, items, requests>>
  BY DEF ArchiveProject, IngestFile, MetadataUpdate
<1>2. WorldTyped'
  BY DEF CoreInv, WorldTyped, ArchiveProject, IngestFile, MetadataUpdate
<1>3. RowsTyped' /\ TokensSpent'
  BY <1>1 DEF CoreInv, RowsTyped, TokensSpent
<1> QED BY <1>1, <1>2, <1>3, ItemsKept, ReviewsKept DEF CoreInv

\* A step on the tokens alone that gives no consumed one back.
LEMMA TokensStep ==
    ASSUME CoreInv, tokens' \in Seq(TokenRow), DOMAIN tokens \subseteq DOMAIN tokens',
           \A t \in DOMAIN tokens : /\ tokens[t].consumed => tokens'[t].consumed
                                    /\ tokens'[t].version = tokens[t].version,
           UNCHANGED <<active, sources, version, evidence, items, requests>>
    PROVE  CoreInv'
<1>1. WorldTyped' /\ RowsTyped'
  BY DEF CoreInv, WorldTyped, RowsTyped
<1>2. TokensSpent'
  BY DEF CoreInv, TokensSpent
<1> QED BY <1>1, <1>2, ItemsKept, ReviewsKept DEF CoreInv

LEMMA VerifyStep ==
    ASSUME CoreInv, NEW s \in Sessions, NEW p \in Projects, NEW d \in Documents,
           VerifyQuote(s, p, d)
    PROVE  CoreInv'
<1> DEFINE new == [session |-> s, project |-> p, document |-> d, version |-> version[d],
                   expired |-> FALSE, consumed |-> FALSE]
<1>1. new \in TokenRow
  BY DEF TokenRow, CoreInv, WorldTyped
<1>2. tokens \in Seq(TokenRow) /\ tokens' = Append(tokens, new)
  BY DEF CoreInv, RowsTyped, VerifyQuote
<1> HIDE DEF new
<1>3. /\ tokens' \in Seq(TokenRow) /\ DOMAIN tokens \subseteq DOMAIN tokens'
      /\ \A t \in DOMAIN tokens : tokens'[t] = tokens[t]
  BY <1>1, <1>2
<1> QED BY <1>3, TokensStep DEF VerifyQuote

LEMMA ExpireStep ==
    ASSUME CoreInv, NEW t \in DOMAIN tokens, Expire(t)
    PROVE  CoreInv'
<1> DEFINE new == [tokens[t] EXCEPT !.expired = TRUE]
<1>1. tokens \in Seq(TokenRow) /\ tokens[t] \in TokenRow
  BY DEF CoreInv, RowsTyped
<1>2. new \in TokenRow /\ new.consumed = tokens[t].consumed /\ new.version = tokens[t].version
  BY <1>1 DEF TokenRow
<1>3. tokens' = [tokens EXCEPT ![t] = new]
  BY DEF Expire
<1> HIDE DEF new
<1>4. /\ tokens' \in Seq(TokenRow) /\ DOMAIN tokens' = DOMAIN tokens /\ tokens'[t] = new
      /\ \A u \in DOMAIN tokens : u # t => tokens'[u] = tokens[u]
  BY <1>1, <1>2, <1>3
<1> QED BY <1>2, <1>4, TokensStep DEF Expire

LEMMA CleanupStep ==
    ASSUME CoreInv, CleanupExpiredTokens
    PROVE  CoreInv'
<1>1. tokens \in Seq(TokenRow)
  BY DEF CoreInv, RowsTyped
<1>2. ASSUME NEW t \in DOMAIN tokens
      PROVE  /\ tokens'[t] \in TokenRow
             /\ tokens[t].consumed => tokens'[t].consumed
             /\ tokens'[t].version = tokens[t].version
  <2>1. tokens[t] \in TokenRow
    BY <1>1
  <2>2. tokens'[t] = [tokens[t] EXCEPT !.consumed = @ \/ tokens[t].expired]
    BY DEF CleanupExpiredTokens
  <2>3. PICK b \in BOOLEAN : /\ b = (tokens[t].consumed \/ tokens[t].expired)
                             /\ tokens'[t] = [tokens[t] EXCEPT !.consumed = b]
    BY <2>2
  <2> QED BY <2>1, <2>3 DEF TokenRow
<1>3. tokens' \in [1..Len(tokens) -> TokenRow]
  <2>1. DOMAIN tokens = 1..Len(tokens)
    BY <1>1
  <2>2. tokens' = [t \in DOMAIN tokens |-> tokens'[t]]
    BY DEF CleanupExpiredTokens
  <2> QED BY ONLY <1>2, <2>1, <2>2
<1>4. tokens' \in Seq(TokenRow) /\ DOMAIN tokens' = DOMAIN tokens
  BY <1>1, <1>3, SeqDef
<1> QED BY <1>2, <1>4, TokensStep DEF CleanupExpiredTokens

\* A token that is spendable has made no evidence yet.
LEMMA SubmitEvidenceStep ==
    ASSUME CoreInv, NEW s \in Sessions, NEW t \in DOMAIN tokens, SubmitVerifiedEvidence(s, t)
    PROVE  CoreInv'
<1> DEFINE new == [token |-> t, by |-> s, document |-> tokens[t].document,
                   version |-> tokens[t].version, status |-> "candidate"]
           spent == [tokens[t] EXCEPT !.consumed = TRUE]
<1>0. PICK n \in Nat : n = Len(evidence)
  BY LenProperties DEF CoreInv, RowsTyped
<1>1. /\ tokens \in Seq(TokenRow) /\ tokens[t] \in TokenRow
      /\ evidence \in Seq(EvidenceRow) /\ t \in Nat
  BY DEF CoreInv, RowsTyped
<1>2. new \in EvidenceRow /\ new.token = t /\ new.version = tokens[t].version
      /\ new.status = "candidate"
  BY <1>1 DEF EvidenceRow, TokenRow
<1>3. spent \in TokenRow /\ spent.consumed /\ spent.version = tokens[t].version
  BY <1>1 DEF TokenRow
<1>4. evidence' = Append(evidence, new) /\ tokens' = [tokens EXCEPT ![t] = spent]
  BY DEF SubmitVerifiedEvidence
<1>5. ~tokens[t].consumed
  BY DEF SubmitVerifiedEvidence, Spendable
<1> HIDE DEF new, spent
<1>6. /\ tokens' \in Seq(TokenRow) /\ DOMAIN tokens' = DOMAIN tokens /\ tokens'[t] = spent
      /\ \A u \in DOMAIN tokens : u # t => tokens'[u] = tokens[u]
  BY <1>1, <1>3, <1>4
<1>7. /\ evidence' \in Seq(EvidenceRow) /\ DOMAIN evidence = 1..n
      /\ DOMAIN evidence' = 1..(n + 1) /\ evidence'[n + 1] = new
      /\ \A e \in 1..n : evidence'[e] = evidence[e]
  BY <1>0, <1>1, <1>2, <1>4
<1>8. WorldTyped' /\ RowsTyped' /\ ItemsInv'
  BY <1>6, <1>7, ItemsKept DEF SubmitVerifiedEvidence, CoreInv, WorldTyped, RowsTyped
<1>9. TokensSpent'
  <2>1. \A e \in 1..n : evidence[e].token \in DOMAIN tokens /\ evidence[e].token # t
    BY <1>5, <1>7 DEF CoreInv, TokensSpent
  <2>2. \A e \in 1..n : /\ tokens[evidence[e].token].consumed
                         /\ tokens[evidence[e].token].version = evidence[e].version
                         /\ \A f \in 1..n : evidence[e].token = evidence[f].token => e = f
    BY <1>7 DEF CoreInv, TokensSpent
  <2>3. \A e \in 1..n + 1 : e \in 1..n \/ e = n + 1
    BY <1>0
  <2>4. \A e \in 1..n + 1 :
          /\ evidence'[e].token \in DOMAIN tokens'
          /\ tokens'[evidence'[e].token].consumed
          /\ tokens'[evidence'[e].token].version = evidence'[e].version
    BY <1>2, <1>3, <1>6, <1>7, <2>1, <2>2, <2>3
  <2>5. \A e, f \in 1..n + 1 : evidence'[e].token = evidence'[f].token => e = f
    BY <1>2, <1>7, <2>1, <2>2, <2>3
  <2> QED BY <1>7, <2>4, <2>5 DEF TokensSpent
<1>10. ReviewsInv'
  <2>1. requests' = requests /\ items' = items
    BY DEF SubmitVerifiedEvidence
  <2>2. RequestsNamed'
    BY <1>7, <2>1 DEF CoreInv, ReviewsInv, RequestsNamed
  <2>3. \A i \in DOMAIN items' : ItemReviewed(i)'
    BY <2>1 DEF CoreInv, ReviewsInv, ItemReviewed, Requests, Tells
  <2>4. \A e \in 1..n : EvidenceReviewed(e)'
    BY <1>7, <2>1 DEF CoreInv, ReviewsInv, EvidenceReviewed, Requests, Tells
  <2>5. Requests("evidence", n + 1)' = {}
    BY <1>7, <2>1 DEF CoreInv, ReviewsInv, RequestsNamed, Requests
  <2>6. EvidenceReviewed(n + 1)'
    BY <1>2, <1>7, <2>5 DEF EvidenceReviewed
  <2> QED BY <1>7, <2>2, <2>3, <2>4, <2>6 DEF ReviewsInv
<1> QED BY <1>8, <1>9, <1>10 DEF CoreInv

(***************************************************************************)
(* Items                                                                   *)
(***************************************************************************)

\* What may be superseded is of the project and of the kind.
LEMMA PriorIsAlike ==
    ASSUME RowsTyped, NEW p \in Projects, NEW kind \in Kinds, NEW prior \in Nat, prior # 0,
           IF kind = "checkpoint" THEN ValidCheckpointSuccessor(p, prior)
                                  ELSE ValidSuccessor(p, prior)
    PROVE  prior \in DOMAIN items /\ items[prior].project = p /\ items[prior].kind = kind
<1>1. CASE kind = "checkpoint"
  <2>1. prior \in CurrentCheckpoints(p)
    BY <1>1 DEF ValidCheckpointSuccessor
  <2> QED BY <1>1, <2>1 DEF CurrentCheckpoints, IsCheckpoint
<1>2. CASE kind # "checkpoint"
  <2>1. prior \in DOMAIN items /\ items[prior].project = p /\ items[prior].kind # "checkpoint"
    BY <1>2 DEF ValidSuccessor, IsCheckpoint
  <2>2. items[prior] \in ItemRow
    BY <2>1 DEF RowsTyped
  <2> QED BY <1>2, <2>1, <2>2 DEF ItemRow, Kinds
<1> QED BY <1>1, <1>2

\* A new item keeps the order, and is the one current checkpoint if it is one.
LEMMA CreateStep ==
    ASSUME CoreInv, NEW s \in Sessions, NEW p \in Projects, NEW kind \in Kinds,
           NEW status \in {"draft", "candidate"}, NEW prior \in Nat, NEW links \in SUBSET Nat,
           CreateItem(s, p, kind, status, prior, links)
    PROVE  CoreInv'
<1> DEFINE new == [project |-> p, by |-> s, kind |-> kind, status |-> status,
                   supersedes |-> prior, evidence |-> links]
<1>0. PICK n \in Nat : n = Len(items)
  BY LenProperties DEF CoreInv, RowsTyped
<1>1. items \in Seq(ItemRow) /\ items' = Append(items, new)
  BY DEF CreateItem, CoreInv, RowsTyped
<1>2. /\ new \in ItemRow
      /\ new.project = p /\ new.kind = kind /\ new.status = status /\ new.supersedes = prior
  BY DEF ItemRow
<1> HIDE DEF new
<1>3. /\ items' \in Seq(ItemRow) /\ DOMAIN items = 1..n /\ DOMAIN items' = 1..n + 1
      /\ items'[n + 1] = new
      /\ \A i \in 1..n : items'[i] = items[i]
  BY <1>0, <1>1, <1>2
<1>4. \A i \in 1..n + 1 : i \in 1..n \/ i = n + 1
  BY <1>0
<1>5. n + 1 \in 1..n + 1 /\ n + 1 \notin 1..n /\ 1..n \subseteq 1..n + 1
  BY <1>0
<1>6. IF kind = "checkpoint" THEN ValidCheckpointSuccessor(p, prior)
                             ELSE ValidSuccessor(p, prior)
  BY DEF CreateItem
<1>7. prior # 0 => prior \in 1..n /\ items[prior].project = p /\ items[prior].kind = kind
  BY <1>3, <1>6, PriorIsAlike DEF CoreInv
<1>8. UNCHANGED <<active, sources, version, tokens, evidence, requests>>
  BY DEF CreateItem
<1>9. WorldTyped' /\ RowsTyped' /\ TokensSpent'
  BY <1>3, <1>8 DEF CoreInv, WorldTyped, RowsTyped, TokensSpent
<1>10. Supersession'
  <2>1. ASSUME NEW i \in 1..n, items[i].supersedes # 0
        PROVE  /\ items[i].supersedes \in 1..n /\ items[i].supersedes < i
               /\ items[items[i].supersedes].project = items[i].project
               /\ items[items[i].supersedes].kind = items[i].kind
    BY <1>3, <2>1 DEF CoreInv, ItemsInv, Supersession
  <2>2. ASSUME NEW i \in 1..n + 1, items'[i].supersedes # 0
        PROVE  /\ items'[i].supersedes \in 1..n + 1 /\ items'[i].supersedes < i
               /\ items'[items'[i].supersedes].project = items'[i].project
               /\ items'[items'[i].supersedes].kind = items'[i].kind
    <3>1. CASE i \in 1..n
      BY <1>3, <1>5, <2>1, <2>2, <3>1
    <3>2. CASE i = n + 1
      BY <1>0, <1>2, <1>3, <1>5, <1>7, <2>2, <3>2
    <3> QED BY <1>4, <3>1, <3>2
  <2> QED BY <1>3, <2>2 DEF Supersession
<1>11. OneCurrent'
  <2>1. ASSUME NEW q \in Projects, NEW i \in CurrentCheckpoints(q)'
        PROVE  \/ i \in CurrentCheckpoints(q) /\ i # prior
               \/ i = n + 1 /\ q = p /\ kind = "checkpoint"
    <3>1. /\ i \in 1..n + 1 /\ items'[i].project = q /\ items'[i].kind = "checkpoint"
          /\ items'[i].status # "rejected"
          /\ \A j \in 1..n + 1 : items'[j].supersedes # i
      BY <1>3, <2>1 DEF CurrentCheckpoints, IsCheckpoint, Successors
    <3>2. CASE i \in 1..n
      <4>1. i # prior
        BY <1>2, <1>3, <1>5, <3>1
      <4>2. \A j \in 1..n : items[j].supersedes # i
        BY <1>3, <1>5, <3>1
      <4> QED BY <1>3, <3>1, <3>2, <4>1, <4>2 DEF CurrentCheckpoints, IsCheckpoint, Successors
    <3>3. CASE i = n + 1
      BY <1>2, <1>3, <3>1, <3>3
    <3> QED BY <1>4, <3>1, <3>2, <3>3
  <2>2. kind = "checkpoint" => \A i \in CurrentCheckpoints(p) : i = prior
    BY <1>6 DEF ValidCheckpointSuccessor
  <2> QED BY <2>1, <2>2 DEF OneCurrent, CoreInv, ItemsInv
<1>12. ReviewsInv'
  <2>1. RequestsNamed'
    BY <1>3, <1>5, <1>8 DEF CoreInv, ReviewsInv, RequestsNamed
  <2>2. \A i \in 1..n : ItemReviewed(i)'
    BY <1>3, <1>8 DEF CoreInv, ReviewsInv, ItemReviewed, Requests, Tells
  <2>3. Requests("item", n + 1)' = {}
    BY <1>3, <1>5, <1>8 DEF CoreInv, ReviewsInv, RequestsNamed, Requests
  <2>4. ItemReviewed(n + 1)'
    BY <1>2, <1>3, <2>3 DEF ItemReviewed
  <2>5. \A e \in DOMAIN evidence' : EvidenceReviewed(e)'
    BY <1>8 DEF CoreInv, ReviewsInv, EvidenceReviewed, Requests, Tells
  <2> QED BY <1>3, <1>4, <2>1, <2>2, <2>4, <2>5 DEF ReviewsInv
<1> QED BY <1>9, <1>10, <1>11, <1>12 DEF CoreInv, ItemsInv

LEMMA ItemSteps ==
    ASSUME CoreInv, NEW s \in Sessions, NEW p \in Projects, NEW prior \in 0..Len(items),
           NEW status \in {"draft", "candidate"}, NEW links \in SUBSET DOMAIN evidence,
           \/ SaveResearchNote(s, p, prior)
           \/ SubmitHypothesis(s, p, status, prior)
           \/ SubmitObjection(s, p, status, prior)
           \/ SubmitResearchReport(s, p, status, prior, links)
    PROVE  CoreInv'
<1>1. /\ prior \in Nat /\ 0 \in Nat /\ {} \in SUBSET Nat
      /\ "checkpoint" \in Kinds /\ "other" \in Kinds /\ "draft" \in {"draft", "candidate"}
  BY DEF Kinds
<1>2. links \in SUBSET Nat
  BY DEF CoreInv, RowsTyped
<1> QED BY <1>1, <1>2, CreateStep
        DEF SaveResearchNote, SubmitHypothesis, SubmitObjection, SubmitResearchReport

(***************************************************************************)
(* Reviews                                                                 *)
(***************************************************************************)

\* A change of an item's status that does not bring a rejected one back leaves
\* the items in order.
LEMMA StatusStep ==
    ASSUME RowsTyped, ItemsInv, NEW i \in DOMAIN items, items[i].status # "rejected",
           NEW status \in {"draft", "candidate", "under_review"} \cup Decided,
           items' = [items EXCEPT ![i].status = status]
    PROVE  /\ items' \in Seq(ItemRow) /\ DOMAIN items' = DOMAIN items
           /\ items'[i].status = status
           /\ \A j \in DOMAIN items : j # i => items'[j] = items[j]
           /\ ItemsInv'
<1> DEFINE new == [items[i] EXCEPT !.status = status]
<1>1. items \in Seq(ItemRow) /\ items[i] \in ItemRow
  BY DEF RowsTyped
<1>2. /\ new \in ItemRow /\ new.status = status
      /\ new.project = items[i].project /\ new.kind = items[i].kind
      /\ new.supersedes = items[i].supersedes
  BY <1>1 DEF ItemRow
<1>3. items' = [items EXCEPT ![i] = new]
  OBVIOUS
<1> HIDE DEF new
<1>4. /\ items' \in Seq(ItemRow) /\ DOMAIN items' = DOMAIN items /\ items'[i] = new
      /\ \A j \in DOMAIN items : j # i => items'[j] = items[j]
  BY <1>1, <1>2, <1>3
<1>5. \A j \in DOMAIN items : /\ items'[j].project = items[j].project
                              /\ items'[j].kind = items[j].kind
                              /\ items'[j].supersedes = items[j].supersedes
                              /\ items'[j].status # "rejected" => items[j].status # "rejected"
  BY <1>2, <1>4
<1>6. Supersession'
  BY <1>4, <1>5 DEF ItemsInv, Supersession
<1>7. \A p \in Projects : CurrentCheckpoints(p)' \subseteq CurrentCheckpoints(p)
  BY <1>4, <1>5 DEF CurrentCheckpoints, IsCheckpoint, Successors
<1>8. OneCurrent'
  BY <1>7 DEF ItemsInv, OneCurrent
<1> QED BY <1>2, <1>4, <1>6, <1>8 DEF ItemsInv

\* The requests after a new one: it is pending, and the others are as they were.
RequestAdded(n, p, target, id) ==
    /\ requests' \in Seq(RequestRow)
    /\ DOMAIN requests = 1..n /\ DOMAIN requests' = 1..n \cup {n + 1} /\ n + 1 \notin 1..n
    /\ \A r \in 1..n : requests'[r] = requests[r]
    /\ requests'[n + 1].target = target /\ requests'[n + 1].id = id
    /\ requests'[n + 1].status = "pending" /\ requests'[n + 1].project = p

LEMMA NewRequestStep ==
    ASSUME RowsTyped, NEW p \in Projects, NEW target \in {"item", "evidence"}, NEW id \in Nat,
           NewRequest(p, target, id), NEW n \in Nat, n = Len(requests)
    PROVE  RequestAdded(n, p, target, id)
<1> DEFINE new == [project |-> p, target |-> target, id |-> id, status |-> "pending"]
<1>1. requests \in Seq(RequestRow) /\ requests' = Append(requests, new)
  BY DEF RowsTyped, NewRequest
<1>2. /\ new \in RequestRow
      /\ new.target = target /\ new.id = id /\ new.status = "pending" /\ new.project = p
  BY DEF RequestRow
<1> HIDE DEF new
<1>3. 1..n + 1 = 1..n \cup {n + 1} /\ n + 1 \notin 1..n
  OBVIOUS
<1>4. /\ requests' \in Seq(RequestRow)
      /\ DOMAIN requests = 1..n /\ DOMAIN requests' = 1..n + 1
      /\ \A r \in 1..n : requests'[r] = requests[r]
      /\ requests'[n + 1] = new
  BY <1>1, <1>2
<1> QED BY <1>2, <1>3, <1>4 DEF RequestAdded

\* It is one more for its target, and tells that this is under review.
LEMMA RequestsGrow ==
    ASSUME RowsTyped, NEW p \in Projects, NEW target \in {"item", "evidence"}, NEW id \in Nat,
           NewRequest(p, target, id), NEW n \in Nat, n = Len(requests)
    PROVE  /\ \A t, x : Requests(t, x) \subseteq 1..n
           /\ \A t, x : t # target \/ x # id => Requests(t, x)' = Requests(t, x)
           /\ Requests(target, id)' = Requests(target, id) \cup {n + 1}
           /\ \A r \in 1..n : Tells(r)' = Tells(r)
           /\ Tells(n + 1)' = "under_review"
<1>1. /\ DOMAIN requests = 1..n /\ DOMAIN requests' = 1..n \cup {n + 1}
      /\ \A r \in 1..n : requests'[r] = requests[r]
      /\ requests'[n + 1].target = target /\ requests'[n + 1].id = id
      /\ requests'[n + 1].status = "pending" /\ n + 1 \notin 1..n
  <2>1. RequestAdded(n, p, target, id)
    BY NewRequestStep
  <2> QED BY <2>1 DEF RequestAdded
<1>2. \A t, x : Requests(t, x) \subseteq 1..n
  BY <1>1 DEF Requests
<1>3. \A t, x : t # target \/ x # id => Requests(t, x)' = Requests(t, x)
  BY <1>1 DEF Requests
<1>4. Requests(target, id)' = Requests(target, id) \cup {n + 1}
  BY <1>1 DEF Requests
<1>5. \A r \in 1..n : Tells(r)' = Tells(r)
  BY <1>1 DEF Tells
<1>6. Tells(n + 1)' = "under_review"
  BY <1>1 DEF Tells
<1> QED BY <1>2, <1>3, <1>4, <1>5, <1>6

\* A candidate has no request yet, so that the new one is its only one.
LEMMA RequestItemStep ==
    ASSUME CoreInv, NEW s \in Sessions, NEW i \in DOMAIN items, RequestItemApproval(s, i)
    PROVE  CoreInv'
<1>0. PICK n \in Nat : n = Len(requests)
  BY LenProperties DEF CoreInv, RowsTyped
<1>1. /\ items[i].project \in Projects /\ i \in Nat
      /\ RowsTyped /\ ItemsInv /\ WorldTyped /\ ReviewsInv /\ TokensSpent
  <2>1. items \in Seq(ItemRow)
    BY DEF CoreInv, RowsTyped
  <2>2. items[i] \in ItemRow /\ i \in Nat
    BY <2>1
  <2>3. items[i].project \in Projects
    BY <2>2 DEF ItemRow
  <2> QED BY <2>2, <2>3 DEF CoreInv
<1>2. /\ NewRequest(items[i].project, "item", i)
      /\ items[i].status = "candidate"
      /\ items' = [items EXCEPT ![i].status = "under_review"]
      /\ UNCHANGED <<active, sources, version, tokens, evidence>>
  BY DEF RequestItemApproval
<1>3. /\ requests' \in Seq(RequestRow)
      /\ DOMAIN requests = 1..n /\ DOMAIN requests' = 1..n \cup {n + 1} /\ n + 1 \notin 1..n
      /\ \A r \in 1..n : requests'[r] = requests[r]
      /\ requests'[n + 1].target = "item" /\ requests'[n + 1].id = i
      /\ requests'[n + 1].status = "pending" /\ requests'[n + 1].project = items[i].project
  <2>1. RequestAdded(n, items[i].project, "item", i)
    BY <1>0, <1>1, <1>2, NewRequestStep
  <2> QED BY <2>1 DEF RequestAdded
<1>4. /\ items' \in Seq(ItemRow) /\ DOMAIN items' = DOMAIN items
      /\ items'[i].status = "under_review"
      /\ \A j \in DOMAIN items : j # i => items'[j] = items[j]
      /\ ItemsInv'
  BY <1>1, <1>2, StatusStep
<1>5. /\ \A t, x : Requests(t, x) \subseteq 1..n
      /\ \A t, x : t # "item" \/ x # i => Requests(t, x)' = Requests(t, x)
      /\ Requests("item", i)' = Requests("item", i) \cup {n + 1}
      /\ \A r \in 1..n : Tells(r)' = Tells(r)
      /\ Tells(n + 1)' = "under_review"
  BY <1>0, <1>1, <1>2, RequestsGrow
<1>6. WorldTyped' /\ RowsTyped' /\ TokensSpent'
  BY <1>1, <1>2, <1>3, <1>4 DEF WorldTyped, RowsTyped, TokensSpent
<1>7. RequestsNamed'
  BY <1>1, <1>2, <1>3, <1>4 DEF ReviewsInv, RequestsNamed
<1>8. ASSUME NEW j \in DOMAIN items PROVE ItemReviewed(j)'
  <2>1. ItemReviewed(j)
    BY <1>1 DEF ReviewsInv
  <2>2. CASE j = i
    <3>1. Requests("item", i)' = {n + 1}
      BY <1>2, <1>5, <2>1, <2>2 DEF ItemReviewed
    <3> QED BY <1>4, <1>5, <2>2, <3>1 DEF ItemReviewed
  <2>3. CASE j # i
    <3>1. /\ Requests("item", j)' = Requests("item", j) /\ items'[j] = items[j]
          /\ \A r \in Requests("item", j) : Tells(r)' = Tells(r)
      BY <1>4, <1>5, <2>3
    <3> QED BY <2>1, <3>1 DEF ItemReviewed
  <2> QED BY <2>2, <2>3
<1>9. ASSUME NEW e \in DOMAIN evidence PROVE EvidenceReviewed(e)'
  <2>1. /\ Requests("evidence", e)' = Requests("evidence", e) /\ evidence' = evidence
        /\ \A r \in Requests("evidence", e) : Tells(r)' = Tells(r) /\ requests'[r] = requests[r]
    BY <1>2, <1>3, <1>5
  <2>2. EvidenceReviewed(e)
    BY <1>1 DEF ReviewsInv
  <2> QED BY <2>1, <2>2 DEF EvidenceReviewed
<1>10. ReviewsInv'
  BY <1>2, <1>4, <1>7, <1>8, <1>9 DEF ReviewsInv
<1> QED BY <1>4, <1>6, <1>10 DEF CoreInv

\* Evidence that is still a candidate has pending requests only, and none of the
\* project that asks now.
LEMMA RequestEvidenceStep ==
    ASSUME CoreInv, NEW s \in Sessions, NEW p \in Projects, NEW e \in DOMAIN evidence,
           RequestEvidenceApproval(s, p, e)
    PROVE  CoreInv'
<1>0. PICK n \in Nat : n = Len(requests)
  BY LenProperties DEF CoreInv, RowsTyped
<1>1. RowsTyped /\ ItemsInv /\ WorldTyped /\ ReviewsInv /\ TokensSpent /\ e \in Nat
  BY DEF CoreInv, RowsTyped
<1>2. /\ NewRequest(p, "evidence", e)
      /\ evidence[e].status = "candidate" /\ Pending(p, "evidence", e) = {}
      /\ UNCHANGED <<active, sources, version, tokens, evidence, items>>
  BY DEF RequestEvidenceApproval
<1>3. /\ requests' \in Seq(RequestRow)
      /\ DOMAIN requests = 1..n /\ DOMAIN requests' = 1..n \cup {n + 1} /\ n + 1 \notin 1..n
      /\ \A r \in 1..n : requests'[r] = requests[r]
      /\ requests'[n + 1].target = "evidence" /\ requests'[n + 1].id = e
      /\ requests'[n + 1].status = "pending" /\ requests'[n + 1].project = p
  <2>1. RequestAdded(n, p, "evidence", e)
    BY <1>0, <1>1, <1>2, NewRequestStep
  <2> QED BY <2>1 DEF RequestAdded
<1>4. /\ \A t, x : Requests(t, x) \subseteq 1..n
      /\ \A t, x : t # "evidence" \/ x # e => Requests(t, x)' = Requests(t, x)
      /\ Requests("evidence", e)' = Requests("evidence", e) \cup {n + 1}
      /\ \A r \in 1..n : Tells(r)' = Tells(r)
  BY <1>0, <1>1, <1>2, RequestsGrow
<1>5. WorldTyped' /\ RowsTyped' /\ TokensSpent'
  BY <1>1, <1>2, <1>3 DEF WorldTyped, RowsTyped, TokensSpent
<1>6. RequestsNamed'
  BY <1>1, <1>2, <1>3 DEF ReviewsInv, RequestsNamed
<1>7. ASSUME NEW i \in DOMAIN items PROVE ItemReviewed(i)'
  <2>1. /\ Requests("item", i)' = Requests("item", i) /\ items' = items
        /\ \A r \in Requests("item", i) : Tells(r)' = Tells(r)
    BY <1>2, <1>4
  <2>2. ItemReviewed(i)
    BY <1>1 DEF ReviewsInv
  <2> QED BY <2>1, <2>2 DEF ItemReviewed
<1>8. ASSUME NEW f \in DOMAIN evidence PROVE EvidenceReviewed(f)'
  <2>1. EvidenceReviewed(f)
    BY <1>1 DEF ReviewsInv
  <2>2. CASE f = e
    <3>1. \A r \in Requests("evidence", e) :
            requests'[r].status = "pending" /\ requests'[r].project # p
      <4> TAKE r \in Requests("evidence", e)
      <4>1. requests[r].status = "pending"
        BY <1>2, <2>1, <2>2 DEF EvidenceReviewed
      <4>2. requests[r].project # p
        BY <1>2, <4>1 DEF Pending, Requests
      <4>3. requests'[r] = requests[r]
        BY <1>3, <1>4
      <4> QED BY <4>1, <4>2, <4>3
    <3>2. \A r \in Requests("evidence", e) : requests'[r] = requests[r]
      BY <1>3, <1>4
    <3>3. \A q, r \in Requests("evidence", e)' :
            requests'[q].project = requests'[r].project => q = r
      BY <1>3, <1>4, <2>1, <2>2, <3>1, <3>2 DEF EvidenceReviewed
    <3>4. \A r \in Requests("evidence", e)' : requests'[r].status = "pending"
      BY <1>3, <1>4, <3>1
    <3> QED BY <1>2, <2>2, <3>3, <3>4 DEF EvidenceReviewed
  <2>3. CASE f # e
    <3>1. /\ Requests("evidence", f)' = Requests("evidence", f) /\ evidence' = evidence
          /\ \A r \in Requests("evidence", f) : Tells(r)' = Tells(r) /\ requests'[r] = requests[r]
      BY <1>2, <1>3, <1>4, <2>3
    <3> QED BY <2>1, <3>1 DEF EvidenceReviewed
  <2> QED BY <2>2, <2>3
<1>9. ReviewsInv'
  BY <1>2, <1>6, <1>7, <1>8 DEF ReviewsInv
<1>10. ItemsInv'
  BY <1>1, <1>2, ItemsKept
<1> QED BY <1>5, <1>9, <1>10 DEF CoreInv

\* A decision is the request's alone: no request is for another target after it.
LEMMA DecidedRequest ==
    ASSUME RowsTyped, NEW r \in DOMAIN requests, NEW status \in {"approved", "rejected"},
           requests' = [requests EXCEPT ![r].status = status]
    PROVE  /\ requests' \in Seq(RequestRow) /\ DOMAIN requests' = DOMAIN requests
           /\ \A q \in DOMAIN requests : /\ requests'[q].project = requests[q].project
                                         /\ requests'[q].target = requests[q].target
                                         /\ requests'[q].id = requests[q].id
           /\ \A q \in DOMAIN requests :
                q # r => requests'[q] = requests[q] /\ Tells(q)' = Tells(q)
           /\ requests'[r].status = status
           /\ Tells(r)' = IF status = "approved" THEN "accepted" ELSE "rejected"
           /\ \A t, x : Requests(t, x)' = Requests(t, x)
<1> DEFINE new == [requests[r] EXCEPT !.status = status]
<1>1. requests \in Seq(RequestRow) /\ requests[r] \in RequestRow
  BY DEF RowsTyped
<1>2. /\ new \in RequestRow /\ new.status = status /\ new.project = requests[r].project
      /\ new.target = requests[r].target /\ new.id = requests[r].id
  BY <1>1 DEF RequestRow
<1>3. requests' = [requests EXCEPT ![r] = new]
  OBVIOUS
<1> HIDE DEF new
<1>4. /\ requests' \in Seq(RequestRow) /\ DOMAIN requests' = DOMAIN requests
      /\ requests'[r] = new
      /\ \A q \in DOMAIN requests : q # r => requests'[q] = requests[q]
  BY <1>1, <1>2, <1>3
<1>5. \A q \in DOMAIN requests : /\ requests'[q].project = requests[q].project
                                 /\ requests'[q].target = requests[q].target
                                 /\ requests'[q].id = requests[q].id
  BY <1>2, <1>4
<1>6. \A q \in DOMAIN requests : q # r => Tells(q)' = Tells(q)
  BY <1>4 DEF Tells
<1>7. Tells(r)' = IF status = "approved" THEN "accepted" ELSE "rejected"
  BY <1>2, <1>4 DEF Tells
<1>8. \A t, x : Requests(t, x)' = Requests(t, x)
  BY <1>4, <1>5 DEF Requests
<1> QED BY <1>2, <1>4, <1>5, <1>6, <1>7, <1>8

\* An item under review has the one request that is decided.
LEMMA DecideItemStep ==
    ASSUME CoreInv, NEW r \in DOMAIN requests, NEW approve \in BOOLEAN,
           DecideApproval(r, approve), requests[r].target = "item"
    PROVE  CoreInv'
<1> DEFINE i == requests[r].id
           status == IF approve THEN "approved" ELSE "rejected"
<1>1. RowsTyped /\ ItemsInv /\ WorldTyped /\ ReviewsInv /\ TokensSpent
  BY DEF CoreInv
<1>2. /\ requests[r].status = "pending"
      /\ requests' = [requests EXCEPT ![r].status = status]
      /\ items' = [items EXCEPT ![i].status = NewStatus(approve, @)]
      /\ UNCHANGED <<active, sources, version, tokens, evidence>>
  BY DEF DecideApproval
<1>3. i \in DOMAIN items /\ r \in Requests("item", i)
  BY <1>1 DEF ReviewsInv, RequestsNamed, Requests
<1>4. ItemReviewed(i) /\ items[i].status = "under_review" /\ Requests("item", i) = {r}
  <2>1. ItemReviewed(i)
    BY <1>1, <1>3 DEF ReviewsInv
  <2>2. Tells(r) = "under_review"
    BY <1>1, <1>2, TellsWhat
  <2> QED BY <1>3, <2>1, <2>2 DEF ItemReviewed
<1>5. status \in {"approved", "rejected"}
  OBVIOUS
<1> DEFINE after == IF approve THEN "accepted" ELSE "rejected"
<1>6. items' = [items EXCEPT ![i].status = after] /\ after \in Decided
  BY <1>2 DEF NewStatus, Decided
<1>7. after = (IF status = "approved" THEN "accepted" ELSE "rejected")
  OBVIOUS
<1> HIDE DEF i, status, after
<1>8. /\ requests' \in Seq(RequestRow) /\ DOMAIN requests' = DOMAIN requests
      /\ \A q \in DOMAIN requests : /\ requests'[q].project = requests[q].project
                                    /\ requests'[q].target = requests[q].target
                                    /\ requests'[q].id = requests[q].id
      /\ \A q \in DOMAIN requests : q # r => requests'[q] = requests[q] /\ Tells(q)' = Tells(q)
      /\ Tells(r)' = after
      /\ \A t, x : Requests(t, x)' = Requests(t, x)
  BY <1>1, <1>2, <1>5, <1>7, DecidedRequest
<1>9. /\ items' \in Seq(ItemRow) /\ DOMAIN items' = DOMAIN items
      /\ items'[i].status = after
      /\ \A j \in DOMAIN items : j # i => items'[j] = items[j]
      /\ ItemsInv'
  BY <1>1, <1>3, <1>4, <1>6, StatusStep
<1>10. WorldTyped' /\ RowsTyped' /\ TokensSpent'
  BY <1>1, <1>2, <1>8, <1>9 DEF WorldTyped, RowsTyped, TokensSpent
<1>11. RequestsNamed'
  BY <1>1, <1>2, <1>8, <1>9 DEF ReviewsInv, RequestsNamed
<1>12. ASSUME NEW j \in DOMAIN items PROVE ItemReviewed(j)'
  <2>1. ItemReviewed(j)
    BY <1>1 DEF ReviewsInv
  <2>2. CASE j = i
    BY <1>4, <1>6, <1>8, <1>9, <2>2 DEF ItemReviewed, Decided
  <2>3. CASE j # i
    <3>1. /\ Requests("item", j)' = Requests("item", j) /\ items'[j] = items[j]
          /\ \A q \in Requests("item", j) : Tells(q)' = Tells(q)
      BY <1>8, <1>9, <2>3 DEF Requests, i
    <3> QED BY <2>1, <3>1 DEF ItemReviewed
  <2> QED BY <2>2, <2>3
<1>13. ASSUME NEW e \in DOMAIN evidence PROVE EvidenceReviewed(e)'
  <2>1. /\ Requests("evidence", e)' = Requests("evidence", e) /\ evidence' = evidence
        /\ \A q \in Requests("evidence", e) : Tells(q)' = Tells(q) /\ requests'[q] = requests[q]
    BY <1>2, <1>8 DEF Requests
  <2>2. EvidenceReviewed(e)
    BY <1>1 DEF ReviewsInv
  <2> QED BY <2>1, <2>2 DEF EvidenceReviewed
<1>14. ReviewsInv'
  BY <1>2, <1>9, <1>11, <1>12, <1>13 DEF ReviewsInv
<1> QED BY <1>9, <1>10, <1>14 DEF CoreInv

\* Evidence that is decided was a candidate, so that no request on it was decided.
LEMMA DecideEvidenceStep ==
    ASSUME CoreInv, NEW r \in DOMAIN requests, NEW approve \in BOOLEAN,
           DecideApproval(r, approve), requests[r].target = "evidence"
    PROVE  CoreInv'
<1>0. PICK e : e = requests[r].id
  OBVIOUS
<1> DEFINE status == IF approve THEN "approved" ELSE "rejected"
           after == IF approve THEN "accepted" ELSE "rejected"
           new == [evidence[e] EXCEPT !.status = after]
<1>1. RowsTyped /\ ItemsInv /\ WorldTyped /\ ReviewsInv /\ TokensSpent
  BY DEF CoreInv
<1>2. /\ requests' = [requests EXCEPT ![r].status = status]
      /\ evidence[e].status = "candidate"
      /\ evidence' = [evidence EXCEPT ![e].status = NewStatus(approve, @)]
      /\ UNCHANGED <<active, sources, version, tokens, items>>
  BY <1>0 DEF DecideApproval, Undecided
<1>3. e \in DOMAIN evidence
  BY <1>0, <1>1 DEF ReviewsInv, RequestsNamed
<1>4. evidence \in Seq(EvidenceRow) /\ evidence[e] \in EvidenceRow
  BY <1>1, <1>3 DEF RowsTyped
<1>5. /\ new \in EvidenceRow /\ new.status = after /\ after \in Decided
      /\ new.token = evidence[e].token /\ new.version = evidence[e].version
  BY <1>4 DEF EvidenceRow, Decided
<1>6. evidence' = [evidence EXCEPT ![e] = new]
  BY <1>2 DEF NewStatus
<1>7. /\ status \in {"approved", "rejected"}
      /\ after = (IF status = "approved" THEN "accepted" ELSE "rejected")
  OBVIOUS
<1> HIDE DEF status, after, new
<1>8. /\ requests' \in Seq(RequestRow) /\ DOMAIN requests' = DOMAIN requests
      /\ \A q \in DOMAIN requests : /\ requests'[q].project = requests[q].project
                                    /\ requests'[q].target = requests[q].target
                                    /\ requests'[q].id = requests[q].id
      /\ \A q \in DOMAIN requests : q # r => requests'[q] = requests[q] /\ Tells(q)' = Tells(q)
      /\ requests'[r].status = status
      /\ Tells(r)' = after
      /\ \A t, x : Requests(t, x)' = Requests(t, x)
  BY <1>1, <1>2, <1>7, DecidedRequest
<1>9. /\ evidence' \in Seq(EvidenceRow) /\ DOMAIN evidence' = DOMAIN evidence
      /\ evidence'[e] = new
      /\ \A f \in DOMAIN evidence : f # e => evidence'[f] = evidence[f]
  BY <1>3, <1>4, <1>5, <1>6
<1>10. WorldTyped' /\ RowsTyped'
  BY <1>1, <1>2, <1>8, <1>9 DEF WorldTyped, RowsTyped
<1>11. TokensSpent'
  <2>1. \A f \in DOMAIN evidence : /\ evidence'[f].token = evidence[f].token
                                   /\ evidence'[f].version = evidence[f].version
    BY <1>5, <1>9
  <2> QED BY <1>1, <1>2, <1>9, <2>1 DEF TokensSpent
<1>12. RequestsNamed'
  BY <1>1, <1>2, <1>8, <1>9 DEF ReviewsInv, RequestsNamed
<1>13. ASSUME NEW i \in DOMAIN items PROVE ItemReviewed(i)'
  <2>1. /\ Requests("item", i)' = Requests("item", i) /\ items' = items
        /\ \A q \in Requests("item", i) : Tells(q)' = Tells(q)
    BY <1>2, <1>8 DEF Requests
  <2>2. ItemReviewed(i)
    BY <1>1 DEF ReviewsInv
  <2> QED BY <2>1, <2>2 DEF ItemReviewed
<1>14. ASSUME NEW f \in DOMAIN evidence PROVE EvidenceReviewed(f)'
  <2>1. EvidenceReviewed(f)
    BY <1>1 DEF ReviewsInv
  <2>2. CASE f = e
    <3>1. r \in Requests("evidence", e)
      BY <1>0, <1>8 DEF Requests
    <3>2. \A q \in Requests("evidence", e) :
            q # r => requests'[q].status = "pending" /\ requests'[q].project = requests[q].project
      BY <1>2, <1>8, <2>1, <2>2 DEF EvidenceReviewed, Requests
    <3>3. requests'[r].status # "pending" /\ requests'[r].project = requests[r].project
      BY <1>7, <1>8
    <3>4. evidence'[e].status = after /\ after # "candidate"
      BY <1>5, <1>9 DEF Decided
    <3>5. \A q \in Requests("evidence", e) : requests'[q].project = requests[q].project
      BY <3>2, <3>3
    <3>6. \A p, q \in Requests("evidence", e)' :
            requests'[p].project = requests'[q].project => p = q
      BY <1>8, <2>1, <2>2, <3>5 DEF EvidenceReviewed
    <3>7. \A p, q \in Requests("evidence", e)' :
            requests'[p].status # "pending" /\ requests'[q].status # "pending" => p = q
      BY <1>8, <3>2
    <3>8. \A q \in Requests("evidence", e)' :
            requests'[q].status # "pending" => evidence'[e].status = Tells(q)'
      BY <1>8, <3>2, <3>4
    <3>9. evidence'[e].status # "candidate"
          /\ ~(\A q \in Requests("evidence", e)' : requests'[q].status = "pending")
      BY <1>8, <3>1, <3>3, <3>4
    <3> QED BY <2>2, <3>6, <3>7, <3>8, <3>9 DEF EvidenceReviewed
  <2>3. CASE f # e
    <3>1. /\ Requests("evidence", f)' = Requests("evidence", f) /\ evidence'[f] = evidence[f]
          /\ \A q \in Requests("evidence", f) : Tells(q)' = Tells(q) /\ requests'[q] = requests[q]
      BY <1>0, <1>8, <1>9, <2>3 DEF Requests
    <3> QED BY <2>1, <3>1 DEF EvidenceReviewed
  <2> QED BY <2>2, <2>3
<1>15. ReviewsInv'
  BY <1>2, <1>9, <1>12, <1>13, <1>14 DEF ReviewsInv
<1>16. ItemsInv'
  BY <1>1, <1>2, ItemsKept
<1> QED BY <1>10, <1>11, <1>15, <1>16 DEF CoreInv

LEMMA DecideStep ==
    ASSUME CoreInv, NEW r \in DOMAIN requests, NEW approve \in BOOLEAN,
           DecideApproval(r, approve)
    PROVE  CoreInv'
<1>1. requests[r].target \in {"item", "evidence"}
  BY DEF DecideApproval
<1> QED BY <1>1, DecideItemStep, DecideEvidenceStep

LEMMA CoreInvStep ==
    ASSUME CoreInv, [Next]_vars
    PROVE  CoreInv'
<1>1. CASE UNCHANGED vars
  <2>1. WorldTyped' /\ RowsTyped' /\ TokensSpent'
    BY <1>1 DEF vars, CoreInv, WorldTyped, RowsTyped, TokensSpent
  <2>2. UNCHANGED <<items, evidence, requests>>
    BY <1>1 DEF vars
  <2> QED BY <2>1, <2>2, ItemsKept, ReviewsKept DEF CoreInv
<1>2. CASE CleanupExpiredTokens \/ \E t \in DOMAIN tokens : Expire(t)
  BY <1>2, CleanupStep, ExpireStep
<1>3. CASE \/ \E p \in Projects : ArchiveProject(p)
           \/ \E p \in Projects, d \in Documents :
                IngestFile(p, d) \/ \E v \in Versions : MetadataUpdate(p, d, v)
  <2>1. ASSUME NEW p \in Projects, ArchiveProject(p) PROVE CoreInv'
    <3>1. UNCHANGED <<tokens, evidence, items, requests>>
      BY <2>1 DEF ArchiveProject
    <3>2. WorldTyped' /\ RowsTyped' /\ TokensSpent'
      BY <2>1 DEF ArchiveProject, CoreInv, WorldTyped, RowsTyped, TokensSpent
    <3> QED BY <3>1, <3>2, ItemsKept, ReviewsKept DEF CoreInv
  <2>2. ASSUME NEW p \in Projects, NEW d \in Documents, IngestFile(p, d) PROVE CoreInv'
    <3>1. PICK v \in Versions : v = version[d]
      BY DEF CoreInv, WorldTyped
    <3> QED BY <2>2, <3>1, CoreWorldStep
  <2> QED BY <1>3, <2>1, <2>2, CoreWorldStep
<1>4. CASE \E s \in Sessions :
             \/ \E p \in Projects, d \in Documents : VerifyQuote(s, p, d)
             \/ \E t \in DOMAIN tokens : SubmitVerifiedEvidence(s, t)
             \/ \E i \in DOMAIN items : RequestItemApproval(s, i)
             \/ \E p \in Projects, e \in DOMAIN evidence : RequestEvidenceApproval(s, p, e)
  BY <1>4, VerifyStep, SubmitEvidenceStep, RequestItemStep, RequestEvidenceStep
<1>5. CASE \E s \in Sessions, p \in Projects, prior \in 0..Len(items) :
             \/ SaveResearchNote(s, p, prior)
             \/ \E status \in {"draft", "candidate"} :
                  \/ SubmitHypothesis(s, p, status, prior)
                  \/ SubmitObjection(s, p, status, prior)
                  \/ \E links \in SUBSET DOMAIN evidence :
                       SubmitResearchReport(s, p, status, prior, links)
  <2>1. "draft" \in {"draft", "candidate"} /\ {} \in SUBSET DOMAIN evidence
    OBVIOUS
  <2> QED BY <1>5, <2>1, ItemSteps
<1>6. CASE \E r \in DOMAIN requests, approve \in BOOLEAN : DecideApproval(r, approve)
  BY <1>6, DecideStep
<1> QED BY <1>1, <1>2, <1>3, <1>4, <1>5, <1>6 DEF Next

LEMMA CoreInvHolds == ASSUME VersionAssumption PROVE Spec => []CoreInv
  BY CoreInvInit, CoreInvStep, PTL DEF Spec

(***************************************************************************)
(* What it gives                                                           *)
(***************************************************************************)

\* Every variable has its type in every state.
THEOREM CoreTypeCorrect == ASSUME VersionAssumption PROVE Spec => []TypeOK
<1>1. CoreInv => TypeOK
  BY DEF CoreInv, WorldTyped, RowsTyped, TypeOK, TokenRow, EvidenceRow, ItemRow, RequestRow
<1> QED BY <1>1, CoreInvHolds, PTL

\* A project has one current checkpoint at most, whatever sessions supersede and
\* administrators decide, and no checkpoint is succeeded by what is none.
THEOREM CheckpointsAreOne == ASSUME VersionAssumption PROVE Spec => []OneCurrentCheckpoint
<1>1. ASSUME CoreInv, TypeOK PROVE OneCurrentCheckpoint
  <2> SUFFICES ASSUME NEW p \in Projects
               PROVE  /\ Cardinality(CurrentCheckpoints(p)) <= 1
                      /\ CrossKindSuccessors(p) = {}
    BY <1>1 DEF OneCurrentCheckpoint
  <2>1. Cardinality(CurrentCheckpoints(p)) <= 1
    <3>1. \A i, j \in CurrentCheckpoints(p) : i = j
      BY <1>1 DEF CoreInv, ItemsInv, OneCurrent
    <3>2. CASE CurrentCheckpoints(p) = {}
      BY <3>2, FS_EmptySet
    <3>3. CASE CurrentCheckpoints(p) # {}
      <4>1. PICK i : CurrentCheckpoints(p) = {i}
        BY <3>1, <3>3
      <4>2. Cardinality({i}) = 1
        BY FS_Singleton
      <4> QED BY <4>1, <4>2
    <3> QED BY <3>2, <3>3
  <2>2. CrossKindSuccessors(p) = {}
    <3> SUFFICES ASSUME NEW i \in DOMAIN items, IsCheckpoint(i), NEW j \in Successors(i)
                 PROVE  IsCheckpoint(j)
      BY DEF CrossKindSuccessors
    <3>1. items \in Seq(ItemRow) /\ Supersession
      BY <1>1 DEF CoreInv, RowsTyped, ItemsInv
    <3>2. j \in DOMAIN items /\ items[j].supersedes = i /\ i # 0
      BY <3>1 DEF Successors
    <3> QED BY <3>1, <3>2 DEF Supersession, IsCheckpoint
  <2> QED BY <2>1, <2>2
<1> QED BY <1>1, CoreInvHolds, CoreTypeCorrect, PTL

\* No other step makes evidence.
LEMMA EvidenceIsSubmitted ==
    ASSUME CoreInv, [Next]_vars, DOMAIN evidence' # DOMAIN evidence
    PROVE  \E s \in Sessions, t \in DOMAIN tokens : SubmitVerifiedEvidence(s, t)
<1>1. evidence' # evidence
  OBVIOUS
<1>2. ASSUME NEW k \in DOMAIN requests, NEW approve \in BOOLEAN, DecideApproval(k, approve)
      PROVE  DOMAIN evidence' = DOMAIN evidence
  BY <1>2 DEF DecideApproval
<1>3. ASSUME UNCHANGED vars PROVE FALSE
  BY <1>1, <1>3 DEF vars
<1>4. CASE \/ CleanupExpiredTokens
           \/ \E t \in DOMAIN tokens : Expire(t)
           \/ \E p \in Projects : ArchiveProject(p)
           \/ \E p \in Projects, d \in Documents :
                \/ IngestFile(p, d)
                \/ \E v \in Versions : MetadataUpdate(p, d, v)
  BY <1>1, <1>4 DEF CleanupExpiredTokens, Expire, ArchiveProject, IngestFile, MetadataUpdate
<1>5. CASE \E s \in Sessions :
             \/ \E p \in Projects, d \in Documents : VerifyQuote(s, p, d)
             \/ \E i \in DOMAIN items : RequestItemApproval(s, i)
             \/ \E p \in Projects, e \in DOMAIN evidence : RequestEvidenceApproval(s, p, e)
  BY <1>1, <1>5 DEF VerifyQuote, RequestItemApproval, RequestEvidenceApproval
<1>6. CASE \E s \in Sessions, p \in Projects, prior \in 0..Len(items) :
             \/ SaveResearchNote(s, p, prior)
             \/ \E status \in {"draft", "candidate"} :
                  \/ SubmitHypothesis(s, p, status, prior)
                  \/ SubmitObjection(s, p, status, prior)
                  \/ \E links \in SUBSET DOMAIN evidence :
                       SubmitResearchReport(s, p, status, prior, links)
  <2>1. ASSUME NEW s, NEW p, NEW kind, NEW status, NEW prior, NEW links,
               CreateItem(s, p, kind, status, prior, links)
        PROVE  FALSE
    BY <1>1, <2>1 DEF CreateItem
  <2> QED BY <1>6, <2>1 DEF SaveResearchNote, SubmitHypothesis, SubmitObjection,
                            SubmitResearchReport
<1> QED BY <1>2, <1>3, <1>4, <1>5, <1>6 DEF Next

\* A token makes one piece of evidence at most, for its session, before it
\* expires and of the version that is verified and current.
THEOREM TokensAreSpentOnce == ASSUME VersionAssumption PROVE Spec => OneEvidencePerToken
<1> DEFINE Spends ==
      \A e \in DOMAIN evidence' \ DOMAIN evidence :
         LET made == evidence'[e]
             token == tokens[made.token]
         IN /\ \A f \in DOMAIN evidence : evidence[f].token # made.token
            /\ made.by = token.session /\ ~token.expired
            /\ made.version = token.version /\ made.version = version[made.document]
<1>1. ASSUME CoreInv, [Next]_vars PROVE Spends
  <2> SUFFICES ASSUME NEW e \in DOMAIN evidence' \ DOMAIN evidence
               PROVE  /\ \A f \in DOMAIN evidence : evidence[f].token # evidence'[e].token
                      /\ evidence'[e].by = tokens[evidence'[e].token].session
                      /\ ~tokens[evidence'[e].token].expired
                      /\ evidence'[e].version = tokens[evidence'[e].token].version
                      /\ evidence'[e].version = version[evidence'[e].document]
    OBVIOUS
  <2>1. PICK s \in Sessions, t \in DOMAIN tokens : SubmitVerifiedEvidence(s, t)
    BY <1>1, EvidenceIsSubmitted
  <2>2. /\ evidence \in Seq(EvidenceRow)
        /\ evidence' = Append(evidence, [token |-> t, by |-> s, document |-> tokens[t].document,
                                         version |-> tokens[t].version, status |-> "candidate"])
    BY <1>1, <2>1 DEF CoreInv, RowsTyped, SubmitVerifiedEvidence
  <2>3. evidence'[e] = [token |-> t, by |-> s, document |-> tokens[t].document,
                        version |-> tokens[t].version, status |-> "candidate"]
    BY <2>2
  <2>4. /\ tokens[t].session = s /\ ~tokens[t].expired /\ ~tokens[t].consumed
        /\ version[tokens[t].document] = tokens[t].version
    BY <2>1 DEF SubmitVerifiedEvidence, Spendable
  <2>5. \A f \in DOMAIN evidence : evidence[f].token # t
    BY <1>1, <2>4 DEF CoreInv, TokensSpent
  <2> QED BY <2>3, <2>4, <2>5
<1>2. CoreInv /\ [Next]_vars => [Spends]_vars
  BY <1>1
<1> QED BY <1>2, CoreInvHolds, PTL DEF Spec, OneEvidencePerToken

\* An item's status is what its one request says, and evidence's what the project
\* that decided first said.
THEOREM ReviewsTell == ASSUME VersionAssumption PROVE Spec => []ReviewsAreTold
<1>1. ASSUME CoreInv PROVE ReviewsAreTold
  <2>1. ASSUME NEW i \in DOMAIN items
        PROVE  IF items[i].status \in {"draft", "candidate"}
               THEN Requests("item", i) = {}
               ELSE \E r \in DOMAIN requests :
                      Requests("item", i) = {r} /\ Tells(r) = items[i].status
    <3>1. ItemReviewed(i) /\ Requests("item", i) \subseteq DOMAIN requests
      BY <1>1 DEF CoreInv, ReviewsInv, Requests
    <3>2. CASE Requests("item", i) # {}
      <4>1. PICK r : Requests("item", i) = {r}
        BY <3>1, <3>2 DEF ItemReviewed
      <4> QED BY <3>1, <3>2, <4>1 DEF ItemReviewed
    <3> QED BY <3>1, <3>2 DEF ItemReviewed
  <2>2. ASSUME NEW e \in DOMAIN evidence
        PROVE  LET decided == {r \in Requests("evidence", e) : requests[r].status # "pending"}
                   left == Requests("evidence", e) \ decided
               IN /\ \A r \in decided : decided = {r} /\ Tells(r) = evidence[e].status
                  /\ evidence[e].status = "candidate" <=> decided = {}
                  /\ \A q, r \in left \cup decided :
                       requests[q].project = requests[r].project => q = r
    <3>1. EvidenceReviewed(e)
      BY <1>1 DEF CoreInv, ReviewsInv
    <3> DEFINE decided == {r \in Requests("evidence", e) : requests[r].status # "pending"}
    <3>2. \A r \in decided : decided = {r} /\ Tells(r) = evidence[e].status
      BY <3>1 DEF EvidenceReviewed
    <3>3. evidence[e].status = "candidate" <=> decided = {}
      BY <3>1 DEF EvidenceReviewed
    <3>4. \A q, r \in Requests("evidence", e) :
            requests[q].project = requests[r].project => q = r
      BY <3>1 DEF EvidenceReviewed
    <3> QED BY <3>2, <3>3, <3>4
  <2> QED BY <2>1, <2>2 DEF ReviewsAreTold
<1> QED BY <1>1, CoreInvHolds, PTL

(***************************************************************************)
(* ExternalAgent                                                           *)
(***************************************************************************)
\* What the module assumes of its constants; MCServices assumes the same of their
\* values, which TLC evaluates there.
AgentAssumptions ==
    SessionsAssumption /\ AgentTimesAssumption /\ AgentBoundsAssumption

(***************************************************************************)
(* The operators: the next round, and when a claim ends                    *)
(***************************************************************************)

\* Max of a set of bounded naturals is one of them, and there is no larger.
LEMMA GreatestRound ==
    ASSUME NEW n \in Nat, NEW S \in SUBSET (0..n), S # {}
    PROVE  /\ Max(S) \in S
           /\ \A x \in S : Max(S) >= x
<1> DEFINE T == {n - x : x \in S}
           R == OpToRel(<, Nat)
<1>1. IsWellFoundedOn(R, Nat)
  BY NatLessThanWellFounded
<1>2. T \subseteq Nat /\ T # {}
  <2>1. PICK s \in S : TRUE
    OBVIOUS
  <2>2. n - s \in T
    OBVIOUS
  <2> QED BY <2>2
<1>3. PICK y \in T : \A z \in T : ~(<<z, y>> \in R)
  <2> HIDE DEF T, R
  <2> QED BY <1>1, <1>2, WFMin
<1>4. \A z \in T : z >= y
  <2> TAKE z \in T
  <2>1. z \in Nat /\ y \in Nat
    BY <1>2
  <2>2. <<z, y>> \in R <=> z < y
    <3> HIDE DEF T
    <3> QED BY <2>1 DEF OpToRel
  <2> HIDE DEF T, R
  <2> QED BY <1>3, <2>1, <2>2
<1>5. PICK m \in S : y = n - m
  BY <1>3
<1>6. \A x \in S : m >= x
  BY <1>4, <1>5, SMT
<1> QED BY <1>6 DEF Max

\* The next round is one no packet has.
LEMMA NextRoundIsNew ==
    ASSUME AgentBoundsAssumption, NextRound \in Rounds
    PROVE  NextRound \notin Issued
<1> DEFINE S == {0} \cup Issued
<1>1. S \in SUBSET (0..MaxRound) /\ S # {} /\ MaxRound \in Nat
  BY DEF Issued, Rounds, AgentBoundsAssumption
<1>2. \A x \in S : Max(S) >= x
  <2> HIDE DEF S
  <2> QED BY <1>1, GreatestRound
<1>3. Max(S) \in Nat
  <2> HIDE DEF S
  <2>1. Max(S) \in S
    BY <1>1, GreatestRound
  <2>2. S \subseteq Nat
    BY <1>1
  <2> QED BY <2>1, <2>2
<1>4. Issued \subseteq Nat
  BY <1>1
<1> QED BY <1>2, <1>3, <1>4 DEF NextRound

\* A claim ends at one of three instants, so it ends at an instant.
LEMMA EarliestType ==
    ASSUME NEW a \in Nat, NEW b \in Nat, NEW c \in Nat
    PROVE  Earliest({a, b, c}) \in Nat
<1>1. \E x \in {a, b, c} : \A y \in {a, b, c} : x =< y
  OBVIOUS
<1> QED BY <1>1 DEF Earliest, Min

(***************************************************************************)
(* The invariant                                                           *)
(***************************************************************************)
SessionRow == [state : {"none", "opened", "closed"}, expires : Nat]

PacketRow == [state : {"none", "available", "claimed", "released", "submitted"},
              version : Nat, prior : 0..MaxRound, expires : Nat, generation : Nat,
              claim : Nat, result : SUBSET Candidate]

ClaimRow == [session : AgentSessions, expires : Nat, state : {"active", "released", "expired"}]

Typed ==
    /\ clock \in 1..MaxTime
    /\ run \in [version : 1..MaxVersion, open : BOOLEAN]
    /\ session \in [AgentSessions -> SessionRow]
    /\ packet \in [Rounds -> PacketRow]
    /\ claims \in [Rounds -> Seq(ClaimRow)]
    /\ results \subseteq Candidate
    /\ told \subseteq Candidate

\* The packet's claim is its newest one, if it has one at all.
NewestClaim(r) ==
    /\ packet[r].generation = Len(claims[r])
    /\ packet[r].claim = IF packet[r].state = "claimed" THEN packet[r].generation ELSE 0
    /\ packet[r].state = "claimed" => packet[r].generation > 0
    /\ packet[r].state \in {"none", "available"} => packet[r].generation = 0

\* A claim that is active is the packet's.
OneActiveClaim(r) ==
    \A g \in 1..Len(claims[r]) :
      claims[r][g].state = "active"
        <=> packet[r].state = "claimed" /\ g = packet[r].generation

\* A packet has a candidate when it was submitted, its own.
OwnResult(r) ==
    IF packet[r].state = "submitted"
    THEN \E x \in results : packet[r].result = {x} /\ x.round = r
    ELSE packet[r].result = {}

\* A candidate is the one its packet was submitted with.
ResultsStand ==
    \A x \in results : packet[x.round].state = "submitted" /\ packet[x.round].result = {x}

AgentInv ==
    /\ Typed
    /\ \A r \in Rounds : NewestClaim(r) /\ OneActiveClaim(r) /\ OwnResult(r)
    /\ ResultsStand
    /\ told \subseteq results

LEMMA AgentInvInit ==
    ASSUME AgentAssumptions, AgentInit
    PROVE  AgentInv
<1> USE DEF AgentAssumptions
<1>1. NoPacket \in PacketRow
  BY DEF NoPacket, PacketRow, AgentBoundsAssumption
<1>2. Typed
  BY <1>1 DEF AgentInit, Typed, SessionRow, AgentBoundsAssumption
<1>3. \A r \in Rounds : NewestClaim(r) /\ OneActiveClaim(r) /\ OwnResult(r)
  BY DEF AgentInit, NoPacket, NewestClaim, OneActiveClaim, OwnResult
<1> QED BY <1>2, <1>3 DEF AgentInv, ResultsStand, AgentInit

(***************************************************************************)
(* The actions                                                             *)
(***************************************************************************)

\* A step that does not touch a packet keeps what is said of it.
LEMMA OtherPacket ==
    ASSUME AgentInv, NEW x \in Rounds, packet'[x] = packet[x], claims'[x] = claims[x],
           results \subseteq results'
    PROVE  (NewestClaim(x) /\ OneActiveClaim(x) /\ OwnResult(x))'
<1>1. NewestClaim(x) /\ OneActiveClaim(x) /\ OwnResult(x)
  BY DEF AgentInv
<1>2. NewestClaim(x)'
  BY <1>1 DEF NewestClaim
<1>3. OneActiveClaim(x)'
  BY <1>1 DEF OneActiveClaim
<1>4. OwnResult(x)'
  BY <1>1 DEF OwnResult
<1> QED BY <1>2, <1>3, <1>4

\* What keeps packets, claims and candidates keeps the invariant.
LEMMA QuietStep ==
    ASSUME AgentInv, Typed', UNCHANGED <<packet, claims, results, told>>
    PROVE  AgentInv'
<1>1. \A x \in Rounds : (NewestClaim(x) /\ OneActiveClaim(x) /\ OwnResult(x))'
  BY OtherPacket
<1> QED BY <1>1 DEF AgentInv, ResultsStand

LEMMA AgentWorldStep ==
    ASSUME AgentAssumptions, AgentInv, Tick \/ Stop \/ Resume \/ ChangeState
    PROVE  AgentInv'
<1> USE DEF RunGoesOn
<1>1. Typed
  BY DEF AgentInv
<1>2. Typed'
  <2>1. CASE Tick
    BY <1>1, <2>1 DEF Tick, Typed, AgentAssumptions, AgentBoundsAssumption
  <2>2. CASE Stop \/ Resume
    BY <1>1, <2>2 DEF Stop, Resume, Typed
  <2>3. CASE ChangeState
    <3>1. run.version \in 1..MaxVersion /\ run.version < MaxVersion /\ MaxVersion \in Nat
      BY <1>1, <2>3 DEF ChangeState, Typed, AgentAssumptions, AgentBoundsAssumption
    <3>2. run.version + 1 \in 1..MaxVersion
      BY <3>1
    <3> QED BY <1>1, <2>3, <3>2 DEF ChangeState, Typed
  <2> QED BY <2>1, <2>2, <2>3
<1> QED BY <1>2, QuietStep DEF Tick, Stop, Resume, ChangeState

LEMMA SessionStep ==
    ASSUME AgentAssumptions, AgentInv, NEW s \in AgentSessions, OpenSession(s) \/ CloseSession(s)
    PROVE  AgentInv'
<1>1. CASE OpenSession(s)
  <2>1. PICK read \in Read :
          session' = [session EXCEPT ![s] = [state |-> "opened", expires |-> read + SessionTtl]]
    BY <1>1 DEF OpenSession
  <2>2. read + SessionTtl \in Nat
    BY DEF AgentAssumptions, AgentTimesAssumption, AgentBoundsAssumption, AgentInv, Typed, Read
  <2>3. Typed'
    BY <1>1, <2>1, <2>2 DEF OpenSession, AgentInv, Typed, SessionRow
  <2> QED BY <1>1, <2>3, QuietStep DEF OpenSession
<1>2. CASE CloseSession(s)
  <2>1. session[s] \in SessionRow
    BY DEF AgentInv, Typed
  <2>2. [session[s] EXCEPT !.state = "closed"] \in SessionRow
    BY <2>1 DEF SessionRow
  <2>3. Typed'
    BY <1>2, <2>2 DEF CloseSession, AgentInv, Typed
  <2> QED BY <1>2, <2>3, QuietStep DEF CloseSession
<1> QED BY <1>1, <1>2

\* A packet is issued where there was none, so that nothing of another is lost.
LEMMA IssueStep ==
    ASSUME AgentAssumptions, AgentInv, NEW r \in Rounds, r \notin Issued,
           NEW prior \in 0..MaxRound, Issue(r, prior)
    PROVE  AgentInv'
<1>1. PICK read \in Read :
        packet' = [packet EXCEPT ![r] =
                     [NoPacket EXCEPT !.state = "available", !.version = run.version,
                                      !.prior = prior, !.expires = read + PacketTtl]]
  BY DEF Issue
<1> DEFINE new == [NoPacket EXCEPT !.state = "available", !.version = run.version,
                                   !.prior = prior, !.expires = read + PacketTtl]
<1>2. read + PacketTtl \in Nat /\ run.version \in Nat
  BY DEF AgentAssumptions, AgentTimesAssumption, AgentBoundsAssumption, AgentInv, Typed, Read
<1>3. /\ new \in PacketRow
      /\ new.state = "available" /\ new.generation = 0 /\ new.claim = 0 /\ new.result = {}
  BY <1>2 DEF NoPacket, PacketRow
<1>4. packet' = [packet EXCEPT ![r] = new]
  BY <1>1
<1> HIDE DEF new
<1>5. /\ packet \in [Rounds -> PacketRow] /\ packet' \in [Rounds -> PacketRow]
      /\ packet'[r] = new
      /\ \A x \in Rounds \ {r} : packet'[x] = packet[x]
  BY <1>3, <1>4 DEF AgentInv, Typed
<1>6. packet[r].state = "none"
  BY DEF Issued
<1>7. Typed'
  BY <1>5 DEF Issue, AgentInv, Typed
<1>8. ASSUME NEW x \in Rounds
      PROVE  (NewestClaim(x) /\ OneActiveClaim(x) /\ OwnResult(x))'
  <2>1. NewestClaim(x) /\ OneActiveClaim(x) /\ OwnResult(x)
    BY DEF AgentInv
  <2>2. CASE x = r
    <3>1. Len(claims[r]) = 0 /\ claims' = claims
      BY <1>6, <2>1, <2>2 DEF NewestClaim, Issue
    <3> QED BY <1>3, <1>5, <2>2, <3>1 DEF NewestClaim, OneActiveClaim, OwnResult
  <2>3. CASE x # r
    BY <1>5, <2>3, OtherPacket DEF Issue
  <2> QED BY <2>2, <2>3
<1>9. ResultsStand' /\ (told \subseteq results)'
  <2>1. \A x \in results : x.round \in Rounds
    BY DEF AgentInv, Typed, Candidate
  <2> QED BY <1>5, <1>6, <2>1 DEF AgentInv, ResultsStand, Issue
<1> QED BY <1>7, <1>8, <1>9 DEF AgentInv

LEMMA IssueSteps ==
    ASSUME AgentAssumptions, AgentInv,
           \/ \E r \in Rounds : IssueWorkPacket(r)
           \/ \E result \in results : IssueNextRound(result)
    PROVE  AgentInv'
<1>1. ASSUME NEW r \in Rounds, IssueWorkPacket(r) PROVE AgentInv'
  <2>1. 0 \in 0..MaxRound
    BY DEF AgentAssumptions, AgentBoundsAssumption
  <2> QED BY <1>1, <2>1, IssueStep DEF IssueWorkPacket
<1>2. ASSUME NEW result \in results, IssueNextRound(result) PROVE AgentInv'
  <2>1. NextRound \in Rounds /\ NextRound \notin Issued
    BY <1>2, NextRoundIsNew DEF IssueNextRound, AgentAssumptions
  <2>2. result.round \in 0..MaxRound
    BY DEF AgentInv, Typed, Candidate, Rounds
  <2> QED BY <1>2, <2>1, <2>2, IssueStep DEF IssueNextRound
<1> QED BY <1>1, <1>2

\* The claim that is taken over is closed, and is what the packet had.
LEMMA TakenOverType ==
    ASSUME AgentInv, NEW r \in Rounds
    PROVE  /\ TakenOver(r) \in Seq(ClaimRow)
           /\ Len(TakenOver(r)) = Len(claims[r])
           /\ \A g \in 1..Len(claims[r]) : TakenOver(r)[g].state # "active"
<1>1. claims[r] \in Seq(ClaimRow) /\ NewestClaim(r) /\ OneActiveClaim(r)
  BY DEF AgentInv, Typed
<1>2. CASE packet[r].state = "claimed" /\ Claim(r, packet[r].claim).state = "active"
  <2> DEFINE g == packet[r].claim
             closed == [claims[r][g] EXCEPT !.state = "expired"]
  <2>1. g = Len(claims[r]) /\ g \in 1..Len(claims[r])
    BY <1>1, <1>2 DEF NewestClaim
  <2>2. claims[r][g] \in ClaimRow
    BY <1>1, <2>1
  <2>3. closed \in ClaimRow /\ closed.state = "expired"
    BY <2>2 DEF ClaimRow
  <2>4. TakenOver(r) = [claims[r] EXCEPT ![g] = closed]
    BY <1>2 DEF TakenOver
  <2> HIDE DEF g, closed
  <2> QED BY <1>1, <2>1, <2>3, <2>4 DEF OneActiveClaim, NewestClaim
<1>3. CASE ~(packet[r].state = "claimed" /\ Claim(r, packet[r].claim).state = "active")
  <2>1. TakenOver(r) = claims[r]
    BY <1>3 DEF TakenOver
  <2> QED BY <1>1, <1>3, <2>1 DEF OneActiveClaim, NewestClaim, Claim
<1> QED BY <1>2, <1>3

LEMMA ClaimStep ==
    ASSUME AgentAssumptions, AgentInv, NEW s \in AgentSessions, NEW r \in Rounds, ClaimWork(s, r)
    PROVE  AgentInv'
<1>1. PICK read \in Read :
        claims' = [claims EXCEPT ![r] =
            Append(TakenOver(r),
                   [session |-> s, state |-> "active",
                    expires |-> Earliest({read + ClaimTtl, packet[r].expires, session[s].expires})])]
  BY DEF ClaimWork
<1> DEFINE end == Earliest({read + ClaimTtl, packet[r].expires, session[s].expires})
           new == [session |-> s, state |-> "active", expires |-> end]
           n == Len(claims[r])
<1>2. packet[r] \in PacketRow /\ claims[r] \in Seq(ClaimRow) /\ n \in Nat
  BY DEF AgentInv, Typed
<1>3. end \in Nat
  <2>1. read + ClaimTtl \in Nat
    BY DEF AgentAssumptions, AgentTimesAssumption, AgentBoundsAssumption, AgentInv, Typed, Read
  <2>2. packet[r].expires \in Nat
    BY <1>2 DEF PacketRow
  <2>3. session[s].expires \in Nat
    BY DEF AgentInv, Typed, SessionRow
  <2> QED BY <2>1, <2>2, <2>3, EarliestType
<1>4. new \in ClaimRow /\ new.state = "active"
  BY <1>3 DEF ClaimRow
<1>5. claims' = [claims EXCEPT ![r] = Append(TakenOver(r), new)]
  BY <1>1
<1> HIDE DEF end, new
<1>6. /\ claims \in [Rounds -> Seq(ClaimRow)] /\ claims' \in [Rounds -> Seq(ClaimRow)]
      /\ claims'[r] = Append(TakenOver(r), new)
      /\ \A x \in Rounds \ {r} : claims'[x] = claims[x]
  BY <1>4, <1>5, TakenOverType DEF AgentInv, Typed
<1>7. /\ Len(claims'[r]) = n + 1
      /\ claims'[r][n + 1].state = "active"
      /\ \A g \in 1..n : claims'[r][g].state # "active"
  BY <1>2, <1>4, <1>6, TakenOverType
<1> DEFINE row == [packet[r] EXCEPT !.state = "claimed", !.result = {},
                                    !.generation = Generation(r), !.claim = Generation(r)]
<1>8. /\ row \in PacketRow
      /\ row.state = "claimed" /\ row.result = {} /\ row.generation = n + 1 /\ row.claim = n + 1
  <2>1. Generation(r) = n + 1
    BY DEF Generation
  <2> HIDE DEF n
  <2>2. /\ {} \in SUBSET Candidate /\ n + 1 \in Nat
    BY <1>2
  <2> QED BY <1>2, <2>1, <2>2 DEF PacketRow
<1>9. packet' = [packet EXCEPT ![r] = row]
  BY DEF ClaimWork
<1> HIDE DEF row, n
<1>10. /\ packet \in [Rounds -> PacketRow] /\ packet' \in [Rounds -> PacketRow]
       /\ packet'[r] = row
       /\ \A x \in Rounds \ {r} : packet'[x] = packet[x]
  BY <1>8, <1>9 DEF AgentInv, Typed
<1>11. Typed'
  BY <1>6, <1>10 DEF ClaimWork, AgentInv, Typed
<1>12. ASSUME NEW x \in Rounds
       PROVE  (NewestClaim(x) /\ OneActiveClaim(x) /\ OwnResult(x))'
  <2>2. CASE x = r
    <3>1. NewestClaim(r)'
      BY <1>2, <1>7, <1>8, <1>10 DEF NewestClaim
    <3>2. OneActiveClaim(r)'
      BY <1>2, <1>7, <1>8, <1>10 DEF OneActiveClaim
    <3>3. OwnResult(r)'
      BY <1>8, <1>10 DEF OwnResult
    <3> QED BY <2>2, <3>1, <3>2, <3>3
  <2>3. CASE x # r
    BY <1>6, <1>10, <2>3, OtherPacket DEF ClaimWork
  <2> QED BY <2>2, <2>3
<1>13. ResultsStand' /\ (told \subseteq results)'
  <2>1. \A x \in results : x.round \in Rounds
    BY DEF AgentInv, Typed, Candidate
  <2> QED BY <1>10, <2>1 DEF AgentInv, ResultsStand, ClaimWork
<1> QED BY <1>11, <1>12, <1>13 DEF AgentInv

\* The claim an agent acts under is the packet's newest.
LEMMA OwnsNewest ==
    ASSUME AgentInv, NEW s \in AgentSessions, NEW r \in Rounds, NEW g \in 1..Len(claims[r]),
           Owns(s, r, g)
    PROVE  /\ packet[r] \in PacketRow /\ packet[r].state = "claimed" /\ packet[r].result = {}
           /\ packet[r].generation = Len(claims[r]) /\ g = Len(claims[r])
           /\ claims[r] \in Seq(ClaimRow) /\ claims[r][g].session = s
<1>1. NewestClaim(r) /\ OneActiveClaim(r) /\ OwnResult(r)
  BY DEF AgentInv
<1>2. packet[r] \in PacketRow /\ claims[r] \in Seq(ClaimRow)
  BY DEF AgentInv, Typed
<1>3. packet[r].state = "claimed" /\ g = packet[r].generation
  BY <1>1 DEF OneActiveClaim, Owns, Claim
<1> QED BY <1>1, <1>2, <1>3 DEF NewestClaim, OwnResult, Owns, Claim

\* The claims once the packet's own is given back.
ClosedClaims(r, g) == [claims EXCEPT ![r][g].state = "released"]

\* None of the packet's claims is active then, and nothing else has changed.
LEMMA GivenBack ==
    ASSUME AgentInv, NEW s \in AgentSessions, NEW r \in Rounds, NEW g \in 1..Len(claims[r]),
           Owns(s, r, g)
    PROVE  /\ ClosedClaims(r, g) \in [Rounds -> Seq(ClaimRow)]
           /\ \A x \in Rounds \ {r} : ClosedClaims(r, g)[x] = claims[x]
           /\ Len(ClosedClaims(r, g)[r]) = Len(claims[r])
           /\ ClosedClaims(r, g)[r][g].session = s
           /\ \A h \in 1..Len(claims[r]) : ClosedClaims(r, g)[r][h].state # "active"
<1> DEFINE row == [claims[r][g] EXCEPT !.state = "released"]
           new == [claims EXCEPT ![r] = [claims[r] EXCEPT ![g] = row]]
<1>1. claims \in [Rounds -> Seq(ClaimRow)] /\ OneActiveClaim(r)
  BY DEF AgentInv, Typed
<1>2. /\ g = Len(claims[r]) /\ packet[r].generation = Len(claims[r])
      /\ claims[r] \in Seq(ClaimRow) /\ claims[r][g].session = s
  BY OwnsNewest
<1>3. claims[r][g] \in ClaimRow
  BY <1>2
<1>4. row \in ClaimRow /\ row.state = "released" /\ row.session = s
  BY <1>2, <1>3 DEF ClaimRow
<1>5. ClosedClaims(r, g) = new
  BY <1>1, <1>3 DEF ClosedClaims
<1> HIDE DEF row
<1>6. /\ new \in [Rounds -> Seq(ClaimRow)]
      /\ new[r] = [claims[r] EXCEPT ![g] = row]
      /\ \A x \in Rounds \ {r} : new[x] = claims[x]
  <2>1. [claims[r] EXCEPT ![g] = row] \in Seq(ClaimRow)
    BY <1>2, <1>3, <1>4
  <2> QED BY <1>1, <2>1
<1> HIDE DEF new
<1>7. /\ Len(new[r]) = Len(claims[r])
      /\ new[r][g] = row
      /\ \A h \in 1..Len(claims[r]) : h # g => new[r][h] = claims[r][h]
  BY <1>2, <1>4, <1>6
<1>8. \A h \in 1..Len(claims[r]) : new[r][h].state # "active"
  BY <1>1, <1>2, <1>4, <1>7 DEF OneActiveClaim
<1> QED BY <1>4, <1>5, <1>6, <1>7, <1>8

LEMMA ReleaseStep ==
    ASSUME AgentAssumptions, AgentInv, NEW s \in AgentSessions, NEW r \in Rounds,
           NEW g \in 1..Len(claims[r]), ReleaseWork(s, r, g)
    PROVE  AgentInv'
<1> DEFINE row == [packet[r] EXCEPT !.state = "released", !.claim = 0]
<1>1. Owns(s, r, g) /\ claims' = ClosedClaims(r, g)
  BY DEF ReleaseWork, ClosedClaims
<1>2. /\ claims' \in [Rounds -> Seq(ClaimRow)]
      /\ \A x \in Rounds \ {r} : claims'[x] = claims[x]
      /\ Len(claims'[r]) = Len(claims[r])
      /\ \A h \in 1..Len(claims[r]) : claims'[r][h].state # "active"
  <2>1. g \in 1..Len(claims[r]) /\ Owns(s, r, g)
    BY <1>1
  <2> QED BY <1>1, <2>1, GivenBack
<1>3. /\ packet[r] \in PacketRow /\ packet[r].state = "claimed" /\ packet[r].result = {}
      /\ packet[r].generation = Len(claims[r]) /\ g = Len(claims[r])
  BY <1>1, OwnsNewest
<1>4. /\ row \in PacketRow /\ row.state = "released" /\ row.claim = 0 /\ row.result = {}
      /\ row.generation = packet[r].generation
  BY <1>3 DEF PacketRow
<1>5. packet' = [packet EXCEPT ![r] = row]
  BY DEF ReleaseWork
<1> HIDE DEF row
<1>6. /\ packet \in [Rounds -> PacketRow] /\ packet' \in [Rounds -> PacketRow]
      /\ packet'[r] = row
      /\ \A x \in Rounds \ {r} : packet'[x] = packet[x]
  BY <1>4, <1>5 DEF AgentInv, Typed
<1>7. Typed'
  BY <1>1, <1>6, <1>2 DEF ReleaseWork, AgentInv, Typed
<1>8. ASSUME NEW x \in Rounds
      PROVE  (NewestClaim(x) /\ OneActiveClaim(x) /\ OwnResult(x))'
  <2>2. CASE x = r
    BY <1>3, <1>4, <1>6, <2>2, <1>2 DEF NewestClaim, OneActiveClaim, OwnResult
  <2>3. CASE x # r
    BY <1>1, <1>2, <1>6, <2>3, OtherPacket DEF ReleaseWork
  <2> QED BY <2>2, <2>3
<1>9. ResultsStand' /\ (told \subseteq results)'
  <2>1. \A x \in results : x.round \in Rounds
    BY DEF AgentInv, Typed, Candidate
  <2> QED BY <1>3, <1>6, <2>1 DEF AgentInv, ResultsStand, ReleaseWork
<1> QED BY <1>7, <1>8, <1>9 DEF AgentInv

LEMMA SubmitStep ==
    ASSUME AgentAssumptions, AgentInv, NEW s \in AgentSessions, NEW r \in Rounds,
           NEW g \in 1..Len(claims[r]), NEW c \in Candidate, SubmitCandidate(s, r, g, c)
    PROVE  AgentInv'
<1> DEFINE row == [packet[r] EXCEPT !.state = "submitted", !.claim = 0, !.result = {c}]
<1>1. Owns(s, r, g) /\ claims' = ClosedClaims(r, g) /\ c.round = r
  BY DEF SubmitCandidate, MaySubmit, ClosedClaims
<1>2. /\ claims' \in [Rounds -> Seq(ClaimRow)]
      /\ \A x \in Rounds \ {r} : claims'[x] = claims[x]
      /\ Len(claims'[r]) = Len(claims[r])
      /\ \A h \in 1..Len(claims[r]) : claims'[r][h].state # "active"
  <2>1. g \in 1..Len(claims[r]) /\ Owns(s, r, g)
    BY <1>1
  <2> QED BY <1>1, <2>1, GivenBack
<1>3. /\ packet[r] \in PacketRow /\ packet[r].state = "claimed"
      /\ packet[r].generation = Len(claims[r]) /\ g = Len(claims[r])
  BY <1>1, OwnsNewest
<1>4. /\ row \in PacketRow /\ row.state = "submitted" /\ row.claim = 0 /\ row.result = {c}
      /\ row.generation = packet[r].generation
  BY <1>3 DEF PacketRow
<1>5. packet' = [packet EXCEPT ![r] = row]
  BY DEF SubmitCandidate
<1> HIDE DEF row
<1>6. /\ packet \in [Rounds -> PacketRow] /\ packet' \in [Rounds -> PacketRow]
      /\ packet'[r] = row
      /\ \A x \in Rounds \ {r} : packet'[x] = packet[x]
  BY <1>4, <1>5 DEF AgentInv, Typed
<1>7. results' = results \cup {c} /\ told' = told \cup {c}
  BY DEF SubmitCandidate
<1>8. Typed'
  BY <1>1, <1>6, <1>7, <1>2 DEF SubmitCandidate, AgentInv, Typed
<1>9. ASSUME NEW x \in Rounds
      PROVE  (NewestClaim(x) /\ OneActiveClaim(x) /\ OwnResult(x))'
  <2>2. CASE x = r
    <3>1. NewestClaim(r)'
      BY <1>2, <1>3, <1>4, <1>6 DEF NewestClaim
    <3>2. OneActiveClaim(r)'
      BY <1>2, <1>3, <1>4, <1>6 DEF OneActiveClaim
    <3>3. OwnResult(r)'
      BY <1>1, <1>4, <1>6, <1>7 DEF OwnResult
    <3> QED BY <2>2, <3>1, <3>2, <3>3
  <2>3. CASE x # r
    BY <1>1, <1>2, <1>6, <1>7, <2>3, OtherPacket
  <2> QED BY <2>2, <2>3
<1>10. ResultsStand' /\ (told \subseteq results)'
  <2>1. \A x \in results : x.round \in Rounds
    BY DEF AgentInv, Typed, Candidate
  <2>2. \A x \in results : x.round # r
    BY <1>3 DEF AgentInv, ResultsStand
  <2> QED BY <1>1, <1>4, <1>6, <1>7, <2>1, <2>2 DEF AgentInv, ResultsStand
<1> QED BY <1>8, <1>9, <1>10 DEF AgentInv

LEMMA ReplayStep ==
    ASSUME AgentInv, NEW s \in AgentSessions, NEW c \in Candidate, ReplayCandidate(s, c)
    PROVE  AgentInv'
<1>1. c \in results /\ told' = told \cup {c}
  BY DEF ReplayCandidate, Replayed, Earlier
<1>2. Typed'
  BY DEF ReplayCandidate, AgentInv, Typed
<1>3. \A x \in Rounds : (NewestClaim(x) /\ OneActiveClaim(x) /\ OwnResult(x))'
  BY OtherPacket DEF ReplayCandidate
<1> QED BY <1>1, <1>2, <1>3 DEF ReplayCandidate, AgentInv, ResultsStand

LEMMA AgentInvStep ==
    ASSUME AgentAssumptions, AgentInv, [AgentNext]_agentVars
    PROVE  AgentInv'
<1>1. CASE UNCHANGED agentVars
  BY <1>1, QuietStep DEF agentVars, AgentInv, Typed
<1>2. CASE AgentNext
  BY <1>2, AgentWorldStep, SessionStep, IssueSteps, ClaimStep, ReleaseStep, SubmitStep, ReplayStep
  DEF AgentNext
<1> QED BY <1>1, <1>2

LEMMA AgentInvHolds == ASSUME AgentAssumptions PROVE AgentSpec => []AgentInv
  BY AgentInvInit, AgentInvStep, PTL DEF AgentSpec

(***************************************************************************)
(* What it gives                                                           *)
(***************************************************************************)

\* Every variable has its type in every state.
THEOREM AgentTypeCorrect == ASSUME AgentAssumptions PROVE AgentSpec => []AgentTypeOK
<1>1. ASSUME AgentInv PROVE AgentTypeOK
  <2> USE <1>1
  <2>1. ASSUME NEW r \in Rounds
        PROVE  /\ packet[r] \in PacketRow /\ claims[r] \in Seq(ClaimRow)
               /\ packet[r].claim \in 0..packet[r].generation
               /\ packet[r].result \subseteq results
    <3>1. packet[r] \in PacketRow /\ NewestClaim(r) /\ OwnResult(r)
      BY DEF AgentInv, Typed
    <3> QED BY <3>1 DEF AgentInv, Typed, NewestClaim, OwnResult, PacketRow
  <2> QED BY <2>1 DEF AgentInv, Typed, AgentTypeOK, SessionRow, PacketRow, ClaimRow
<1> QED BY <1>1, AgentInvHolds, PTL

\* What verify recomputes holds always: claims are numbered without gaps, a
\* claim that is active is the packet's current one, and what was submitted has
\* a candidate of its own.
THEOREM PacketsVerify == ASSUME AgentAssumptions PROVE AgentSpec => []VerifyOK
<1>1. ASSUME AgentInv, AgentTypeOK PROVE VerifyOK
  <2> SUFFICES ASSUME NEW r \in Rounds
               PROVE  /\ packet[r].generation = Len(claims[r])
                      /\ ActiveClaims(r) = IF packet[r].state = "claimed"
                                           THEN {packet[r].claim} ELSE {}
                      /\ packet[r].state = "submitted" =>
                           \E x \in results : packet[r].result = {x} /\ x.round = r
    BY <1>1 DEF VerifyOK
  <2>1. NewestClaim(r) /\ OneActiveClaim(r) /\ OwnResult(r) /\ claims[r] \in Seq(ClaimRow)
    BY <1>1 DEF AgentInv, Typed
  <2> QED BY <2>1 DEF NewestClaim, OneActiveClaim, OwnResult, ActiveClaims
<1> QED BY <1>1, AgentInvHolds, AgentTypeCorrect, PTL

\* What an agent was told is accepted is the packet's candidate for good.
THEOREM AcceptedStandsForGood == ASSUME AgentAssumptions PROVE AgentSpec => []AcceptedStands
<1>1. AgentInv => AcceptedStands
  BY DEF AgentInv, ResultsStand, AcceptedStands
<1> QED BY <1>1, AgentInvHolds, PTL

(***************************************************************************)
(* A packet's claims implement FencingLease                                *)
(***************************************************************************)
Holder(r) == IF claims[r] = <<>> THEN NoSession ELSE claims[r][packet[r].generation].session

Stamp(r) == IF packet[r].result = {} THEN 0 ELSE packet[r].generation

\* What leaves the claims and the candidate alone makes the claim usable at most
\* as a lease may be, whatever time, sessions and runs do.
LEMMA KeptLease ==
    ASSUME AgentAssumptions, AgentInv, AgentInv', NEW r \in Rounds,
           packet'[r].generation = packet[r].generation,
           Holder(r)' = Holder(r), Stamp(r)' = Stamp(r)
    PROVE  Lease(r)!Next \/ UNCHANGED Lease(r)!leaseVars
<1>1. Usable(r)' => Holder(r) # NoSession
  <2>1. SUFFICES ASSUME Usable(r)' PROVE Holder(r)' # NoSession
    OBVIOUS
  <2>2. NewestClaim(r)' /\ claims'[r] \in Seq(ClaimRow) /\ packet'[r].state = "claimed"
    BY <2>1 DEF AgentInv, Typed, Usable
  <2>3. claims'[r] # <<>> /\ claims'[r][packet'[r].generation] \in ClaimRow
    BY <2>2 DEF NewestClaim
  <2> QED BY <2>3 DEF Holder, ClaimRow, AgentAssumptions, SessionsAssumption
<1>2. CASE Usable(r)' = Usable(r)
  BY <1>2 DEF Lease!leaseVars, Holder, Stamp
<1>3. CASE Usable(r)' # Usable(r)
  BY <1>1, <1>3 DEF Lease!Next, Lease!Lapse, Lease!Revive, Holder, Stamp, Usable
<1> QED BY <1>2, <1>3

\* A claim is issued under the next generation, to a session.
LEMMA ClaimIsIssue ==
    ASSUME AgentAssumptions, AgentInv, NEW s \in AgentSessions, NEW r \in Rounds, ClaimWork(s, r)
    PROVE  Lease(r)!Issue
<1>1. /\ packet[r] \in PacketRow /\ packet[r].state # "submitted"
      /\ packet[r].generation = Len(claims[r]) /\ claims[r] \in Seq(ClaimRow)
      /\ packet[r].result = {}
  BY DEF AgentInv, Typed, NewestClaim, OwnResult, ClaimWork
<1>2. packet'[r].generation = Len(claims[r]) + 1 /\ packet'[r].result = {}
  BY <1>1 DEF ClaimWork, Generation, AgentInv, Typed
<1>3. PICK end : claims' = [claims EXCEPT ![r] = Append(TakenOver(r),
                               [session |-> s, state |-> "active", expires |-> end])]
  BY DEF ClaimWork
<1>4. claims'[r] = Append(TakenOver(r), [session |-> s, state |-> "active", expires |-> end])
  BY <1>3 DEF AgentInv, Typed
<1>5. claims'[r] # <<>> /\ claims'[r][Len(claims[r]) + 1].session = s
  BY <1>1, <1>4, TakenOverType
<1>6. Holder(r)' = s
  BY <1>2, <1>5 DEF Holder
<1>7. Stamp(r) = 0 /\ Stamp(r)' = 0
  BY <1>1, <1>2 DEF Stamp
<1> QED BY <1>1, <1>2, <1>6, <1>7 DEF Lease!Issue, Holder, Stamp, Usable

\* A candidate is accepted under the newest generation, while it is usable.
LEMMA SubmitIsWrite ==
    ASSUME AgentAssumptions, AgentInv, NEW s \in AgentSessions, NEW r \in Rounds,
           NEW g \in 1..Len(claims[r]), NEW c \in Candidate, SubmitCandidate(s, r, g, c)
    PROVE  Lease(r)!Write
<1>1. PICK read \in Read : Active(s, read) /\ MaySubmit(s, r, g, read)
  BY DEF SubmitCandidate
<1>2. Owns(s, r, g) /\ claims' = ClosedClaims(r, g)
  BY <1>1 DEF SubmitCandidate, MaySubmit, ClosedClaims
<1>3. /\ packet[r].state = "claimed" /\ packet[r].generation = Len(claims[r])
      /\ g = Len(claims[r]) /\ claims[r][g].session = s
      /\ claims[r] \in Seq(ClaimRow)
  BY <1>2, OwnsNewest
<1>4. Usable(r)
  BY <1>1, <1>3 DEF Usable
<1>5. packet'[r].generation = packet[r].generation /\ packet'[r].result = {c}
  BY DEF SubmitCandidate, AgentInv, Typed
<1>6. Len(claims'[r]) = Len(claims[r]) /\ claims'[r][g].session = s
  BY <1>2, GivenBack
<1>7. claims[r] # <<>> /\ claims'[r] # <<>>
  BY <1>3, <1>6
<1>8. Holder(r)' = Holder(r)
  BY <1>3, <1>5, <1>6, <1>7 DEF Holder
<1>9. Stamp(r)' = packet[r].generation
  BY <1>5 DEF Stamp
<1> QED BY <1>4, <1>5, <1>8, <1>9 DEF Lease!Write, Holder, Stamp, Usable

\* What other steps do to a packet they do not act on, or only give back or issue.
LEMMA OtherSteps ==
    ASSUME AgentAssumptions, AgentInv, [AgentNext]_agentVars, NEW r \in Rounds
    PROVE  \/ \E s \in AgentSessions : ClaimWork(s, r)
           \/ \E s \in AgentSessions, g \in 1..Len(claims[r]), c \in Candidate :
                SubmitCandidate(s, r, g, c)
           \/ /\ packet'[r].generation = packet[r].generation
              /\ Holder(r)' = Holder(r) /\ Stamp(r)' = Stamp(r)
<1> DEFINE Kept == /\ packet'[r].generation = packet[r].generation
                   /\ Holder(r)' = Holder(r) /\ Stamp(r)' = Stamp(r)
<1>1. ASSUME packet'[r] = packet[r], claims'[r] = claims[r] PROVE Kept
  BY <1>1 DEF Holder, Stamp
<1>2. ASSUME UNCHANGED <<packet, claims>> PROVE Kept
  BY <1>1, <1>2
<1>3. ASSUME NEW x \in Rounds, NEW prior \in 0..MaxRound, x \notin Issued, Issue(x, prior)
      PROVE  Kept
  <2>1. PICK read \in Read :
          packet' = [packet EXCEPT ![x] =
                       [NoPacket EXCEPT !.state = "available", !.version = run.version,
                                        !.prior = prior, !.expires = read + PacketTtl]]
    BY <1>3 DEF Issue
  <2>2. claims' = claims
    BY <1>3 DEF Issue
  <2>3. CASE x # r
    BY <1>1, <2>1, <2>2, <2>3 DEF AgentInv, Typed
  <2>4. CASE x = r
    <3>1. packet[r].state = "none" /\ packet[r].generation = 0 /\ packet[r].result = {}
          /\ Len(claims[r]) = 0 /\ claims[r] \in Seq(ClaimRow)
      BY <1>3, <2>4 DEF Issued, AgentInv, Typed, NewestClaim, OwnResult
    <3>2. packet'[r].generation = 0 /\ packet'[r].result = {}
      BY <2>1, <2>4 DEF AgentInv, Typed, NoPacket
    <3>3. claims[r] = <<>>
      BY <3>1
    <3> QED BY <2>2, <3>1, <3>2, <3>3 DEF Holder, Stamp
  <2> QED BY <2>3, <2>4
<1>4. ASSUME NEW s \in AgentSessions, NEW x \in Rounds, x # r, ClaimWork(s, x) PROVE Kept
  BY <1>1, <1>4 DEF ClaimWork, AgentInv, Typed
<1>5. ASSUME NEW s \in AgentSessions, NEW x \in Rounds, NEW g \in 1..Len(claims[x]),
             ReleaseWork(s, x, g)
      PROVE  Kept
  <2>1. Owns(s, x, g) /\ claims' = ClosedClaims(x, g)
    BY <1>5 DEF ReleaseWork, ClosedClaims
  <2>2. CASE x # r
    <3>1. claims'[r] = claims[r]
      BY <2>1, <2>2, GivenBack
    <3> QED BY <1>1, <1>5, <2>2, <3>1 DEF ReleaseWork, AgentInv, Typed
  <2>3. CASE x = r
    <3>1. /\ packet[r].generation = Len(claims[r]) /\ g = Len(claims[r])
          /\ claims[r][g].session = s /\ claims[r] \in Seq(ClaimRow)
      BY <2>1, <2>3, OwnsNewest
    <3>2. Len(claims'[r]) = Len(claims[r]) /\ claims'[r][g].session = s
      BY <2>1, <2>3, GivenBack
    <3>3. packet'[r].generation = packet[r].generation /\ packet'[r].result = packet[r].result
      BY <1>5, <2>3 DEF ReleaseWork, AgentInv, Typed
    <3>4. claims[r] # <<>> /\ claims'[r] # <<>>
      BY <2>3, <3>1, <3>2
    <3> QED BY <3>1, <3>2, <3>3, <3>4 DEF Holder, Stamp
  <2> QED BY <2>2, <2>3
<1>6. ASSUME NEW s \in AgentSessions, NEW x \in Rounds, x # r, NEW g \in 1..Len(claims[x]),
             NEW c \in Candidate, SubmitCandidate(s, x, g, c)
      PROVE  Kept
  <2>1. Owns(s, x, g) /\ claims' = ClosedClaims(x, g)
    BY <1>6 DEF SubmitCandidate, MaySubmit, ClosedClaims
  <2>2. claims'[r] = claims[r]
    BY <1>6, <2>1, GivenBack
  <2> QED BY <1>1, <1>6, <2>2 DEF SubmitCandidate, AgentInv, Typed
<1>7. ASSUME UNCHANGED agentVars \/ Tick \/ Stop \/ Resume \/ ChangeState PROVE Kept
  BY <1>2, <1>7 DEF agentVars, Tick, Stop, Resume, ChangeState, RunGoesOn
<1>8. ASSUME \E s \in AgentSessions : OpenSession(s) \/ CloseSession(s) PROVE Kept
  BY <1>2, <1>8 DEF OpenSession, CloseSession
<1>9. ASSUME \E x \in Rounds : IssueWorkPacket(x) PROVE Kept
  <2>1. 0 \in 0..MaxRound
    BY DEF AgentAssumptions, AgentBoundsAssumption
  <2> QED BY <1>3, <1>9, <2>1 DEF IssueWorkPacket
<1>10. ASSUME \E result \in results : IssueNextRound(result) PROVE Kept
  <2>1. PICK result \in results : IssueNextRound(result)
    BY <1>10
  <2>2. NextRound \in Rounds /\ NextRound \notin Issued /\ Issue(NextRound, result.round)
    BY <2>1, NextRoundIsNew DEF IssueNextRound, AgentAssumptions
  <2>3. result.round \in 0..MaxRound
    BY DEF AgentInv, Typed, Candidate, Rounds
  <2> QED BY <1>3, <2>2, <2>3
<1>11. ASSUME \E s \in AgentSessions, c \in Candidate : ReplayCandidate(s, c) PROVE Kept
  BY <1>2, <1>11 DEF ReplayCandidate
<1> HIDE DEF Kept
<1>12. Kept \/ \E s \in AgentSessions, x \in Rounds :
                 \/ ClaimWork(s, x)
                 \/ \E g \in 1..Len(claims[x]) :
                      \/ ReleaseWork(s, x, g)
                      \/ \E c \in Candidate : SubmitCandidate(s, x, g, c)
  BY <1>7, <1>8, <1>9, <1>10, <1>11 DEF AgentNext
<1> QED BY <1>4, <1>5, <1>6, <1>12 DEF Kept

\* A packet's claims are a fencing lease: a candidate is accepted under the newest
\* generation only, which is dead for good once another is issued.
THEOREM PacketsAreFenced == ASSUME AgentAssumptions PROVE AgentSpec => ClaimsAreFencing
<1>1. AgentInit => ClaimsBegin
  BY DEF AgentInit, NoPacket, ClaimsBegin, Lease!Init, Usable
<1>2. AgentInv /\ AgentInv' /\ [AgentNext]_agentVars => FencingStep
  <2> SUFFICES ASSUME AgentInv, AgentInv', [AgentNext]_agentVars, NEW r \in Rounds
               PROVE  Lease(r)!Next \/ UNCHANGED Lease(r)!leaseVars
    BY DEF FencingStep
  <2>1. CASE \E s \in AgentSessions : ClaimWork(s, r)
    BY <2>1, ClaimIsIssue DEF Lease!Next
  <2>2. CASE \E s \in AgentSessions, g \in 1..Len(claims[r]), c \in Candidate :
               SubmitCandidate(s, r, g, c)
    BY <2>2, SubmitIsWrite DEF Lease!Next
  <2>3. CASE /\ packet'[r].generation = packet[r].generation
             /\ Holder(r)' = Holder(r) /\ Stamp(r)' = Stamp(r)
    BY <2>3, KeptLease
  <2> QED BY <2>1, <2>2, <2>3, OtherSteps
<1> QED BY <1>1, <1>2, AgentInvHolds, PTL DEF AgentSpec, ClaimsAreFencing

(***************************************************************************)
(* ResearchContext                                                         *)
(***************************************************************************)
ContextRow == [updated : 0..now, reviews : 0..MaxReviews]

IndexRow == [state : States, offset : 0..Cardinality(Items), seen : SUBSET Items,
             known : SUBSET Items, changed : SUBSET Items]

RowsOfContext ==
    /\ now \in 0..LatestNow
    /\ rows \in [DOMAIN rows -> ContextRow] /\ DOMAIN rows \subseteq Items
    /\ width \in Widths /\ section.state \in States

\* What a reading of the index that has come to this offset has not seen, of what was
\* there before it and is as it was, is still to come.
Covers(reading) ==
    /\ reading \in IndexRow
    /\ reading.known \subseteq DOMAIN rows
    /\ reading.state \in {"reading", "counting"} =>
         reading.offset <= Cardinality(DOMAIN rows)
    /\ \A i \in reading.known \ reading.changed :
         reading.state = "done" \/ Place(i) < reading.offset => i \in reading.seen

ContextInv == RowsOfContext /\ Covers(index)

(***************************************************************************)
(* The order of the index                                                  *)
(***************************************************************************)
LEMMA ContextBounds ==
    ASSUME ContextAssumption
    PROVE  /\ Items \subseteq Int /\ IsFiniteSet(Items) /\ Limit \in Nat /\ Limit > 0
           /\ LatestNow \in Nat /\ MaxReviews \in Nat /\ Cardinality(Items) \in Nat
  BY FS_CardinalityType DEF ContextAssumption

LEMMA RowIsTyped ==
    ASSUME ContextAssumption, RowsOfContext, NEW i \in DOMAIN rows
    PROVE  /\ i \in Int /\ rows[i] \in ContextRow
           /\ rows[i].updated \in Int /\ rows[i].updated <= now
           /\ rows[i].updated >= 0 /\ rows[i].reviews \in 0..MaxReviews
  BY ContextBounds DEF RowsOfContext, ContextRow

LEMMA RowsAreFinite ==
    ASSUME ContextAssumption, RowsOfContext
    PROVE  /\ IsFiniteSet(DOMAIN rows) /\ Cardinality(DOMAIN rows) \in Nat
           /\ Cardinality(DOMAIN rows) <= Cardinality(Items)
  BY ContextBounds, FS_Subset, FS_CardinalityType DEF RowsOfContext

Before(i) == {j \in DOMAIN rows : Precedes(j, i)}

LEMMA PlaceIsBelow ==
    ASSUME ContextAssumption, RowsOfContext, NEW i \in DOMAIN rows
    PROVE  /\ IsFiniteSet(Before(i)) /\ Place(i) = Cardinality(Before(i))
           /\ Place(i) \in Nat /\ Place(i) < Cardinality(DOMAIN rows)
<1>1. Before(i) \in SUBSET DOMAIN rows /\ Place(i) = Cardinality(Before(i))
  BY DEF Before, Place
<1>2. i \notin Before(i)
  BY RowIsTyped DEF Before, Precedes
<1>3. IsFiniteSet(Before(i)) /\ Cardinality(Before(i)) <= Cardinality(DOMAIN rows)
      /\ Cardinality(Before(i)) # Cardinality(DOMAIN rows)
  BY <1>1, <1>2, RowsAreFinite, FS_Subset
<1>4. Cardinality(Before(i)) \in Nat
  BY <1>3, FS_CardinalityType
<1> QED BY <1>1, <1>3, <1>4, RowsAreFinite

\* No two items have the same place.
LEMMA PlacesDiffer ==
    ASSUME ContextAssumption, RowsOfContext, NEW i \in DOMAIN rows, NEW j \in DOMAIN rows, i # j
    PROVE  Place(i) # Place(j)
<1>1. ASSUME NEW a \in DOMAIN rows, NEW b \in DOMAIN rows, Precedes(a, b)
      PROVE  Place(a) # Place(b)
  <2>1. Before(a) \subseteq Before(b)
    <3> SUFFICES ASSUME NEW c \in Before(a) PROVE c \in Before(b)
      OBVIOUS
    <3>1. c \in DOMAIN rows /\ Precedes(c, a)
      BY DEF Before
    <3>2. Precedes(c, b)
      BY <1>1, <3>1, RowIsTyped DEF Precedes
    <3> QED BY <3>1, <3>2 DEF Before
  <2>2. a \in Before(b) /\ a \notin Before(a)
    BY <1>1, RowIsTyped DEF Before, Precedes
  <2>3. IsFiniteSet(Before(b)) /\ Place(a) = Cardinality(Before(a))
        /\ Place(b) = Cardinality(Before(b))
    BY PlaceIsBelow
  <2> QED BY <2>1, <2>2, <2>3, FS_Subset
<1>2. Precedes(i, j) \/ Precedes(j, i)
  BY RowIsTyped DEF Precedes
<1> QED BY <1>1, <1>2

\* A page has no more than its items, and none that the index has not.
LEMMA PageFits ==
    ASSUME ContextAssumption, RowsOfContext, NEW offset \in Nat,
           offset <= Cardinality(DOMAIN rows)
    PROVE  /\ Page(offset) \subseteq DOMAIN rows
           /\ Cardinality(Page(offset)) \in Nat /\ Cardinality(Page(offset)) <= Limit
           /\ offset + Cardinality(Page(offset)) <= Cardinality(DOMAIN rows)
<1> PICK page, total : page = Page(offset) /\ total = Cardinality(DOMAIN rows)
  OBVIOUS
<1>1. page \in SUBSET DOMAIN rows /\ total \in Nat /\ offset <= total /\ Limit \in Nat
  BY RowsAreFinite, ContextBounds DEF Page
<1> PICK top : top \in Int /\ top <= offset + Limit - 1 /\ top <= total - 1
               /\ (top = offset + Limit - 1 \/ top = total - 1)
  <2>1. CASE offset + Limit - 1 <= total - 1
    BY <1>1, <2>1
  <2>2. CASE total - 1 <= offset + Limit - 1
    BY <1>1, <2>2
  <2> QED BY <1>1, <2>1, <2>2
<1> DEFINE f == [i \in page |-> Place(i)]
<1>2. \A i \in page : Place(i) \in offset..top
  BY <1>1, PlaceIsBelow DEF Page
<1>3. f \in Injection(page, offset..top)
  <2>1. \A i, j \in page : f[i] = f[j] => i = j
    BY <1>1, PlacesDiffer
  <2>2. f \in [page -> offset..top]
    BY <1>2
  <2> HIDE DEF f
  <2> QED BY <2>1, <2>2 DEF Injection, IsInjective
<1>4. IsFiniteSet(offset..top)
      /\ Cardinality(offset..top) = IF offset > top THEN 0 ELSE top - offset + 1
  BY FS_Interval
<1>5. IsFiniteSet(page) /\ Cardinality(page) <= Cardinality(offset..top)
  <2> HIDE DEF f
  <2> QED BY <1>3, <1>4, FS_Injection
<1>6. Cardinality(page) \in Nat
  BY <1>5, FS_CardinalityType
<1> QED BY <1>1, <1>4, <1>5, <1>6

\* One page more.
LEMMA PageCovers ==
    ASSUME ContextAssumption, RowsOfContext, NEW from \in IndexRow, NEW known \in SUBSET Items,
           NEW changed \in SUBSET Items, from.offset <= Cardinality(DOMAIN rows),
           known \subseteq DOMAIN rows,
           \A i \in known \ changed : Place(i) < from.offset => i \in from.seen,
           ReadOn(from, known, changed), UNCHANGED rows
    PROVE  Covers(index)'
<1> PICK page, offset, total, next :
      /\ page = Page(from.offset) /\ offset = from.offset /\ total = Cardinality(DOMAIN rows)
      /\ next = offset + Cardinality(page)
  OBVIOUS
<1>1. index' = [state |-> "counting", offset |-> next, seen |-> from.seen \cup page,
                known |-> known, changed |-> changed]
  BY DEF ReadOn
<1>2. offset \in Nat /\ offset <= total /\ from.seen \in SUBSET Items
  BY ContextBounds DEF IndexRow
<1>3. page \subseteq DOMAIN rows /\ Cardinality(page) \in Nat /\ Cardinality(page) <= Limit
      /\ next <= total
  BY <1>2, PageFits
<1>4. total \in Nat /\ total <= Cardinality(Items) /\ Limit \in Nat
      /\ Cardinality(Items) \in Nat /\ DOMAIN rows \subseteq Items
  BY RowsAreFinite, ContextBounds DEF RowsOfContext
<1>5. next \in Nat /\ next \in 0..Cardinality(Items)
  BY <1>2, <1>3, <1>4
<1>6. index' \in IndexRow
  <2>1. "counting" \in States
    BY DEF States
  <2>2. from.seen \cup page \in SUBSET Items
    BY <1>2, <1>3, <1>4
  <2> QED BY <1>1, <1>5, <2>1, <2>2 DEF IndexRow
<1>7. ASSUME NEW i \in known \ changed, Place(i) < next
      PROVE  i \in from.seen \cup page
  <2>1. Place(i) \in Nat
    BY PlaceIsBelow
  <2>3. CASE Place(i) < offset
    BY <2>3
  <2>4. CASE ~(Place(i) < offset)
    <3>1. Place(i) \in offset..(offset + Limit - 1)
      BY <1>2, <1>3, <1>4, <1>7, <2>1, <2>4
    <3> QED BY <3>1 DEF Page
  <2> QED BY <2>3, <2>4
<1>8. \A i : Place(i)' = Place(i)
  BY DEF Place, Precedes
<1>9. \A i \in index'.known \ index'.changed :
        index'.state = "done" \/ Place(i)' < index'.offset => i \in index'.seen
  BY <1>1, <1>7, <1>8
<1> QED BY <1>1, <1>3, <1>6, <1>9 DEF Covers

\* The count ends the reading when no place is left.
LEMMA CountCovers ==
    ASSUME ContextAssumption, RowsOfContext, Covers(index), CountItems
    PROVE  Covers(index)'
<1> PICK state, total :
      /\ total = Cardinality(DOMAIN rows)
      /\ state = IF index.offset < total THEN "reading" ELSE "done"
  OBVIOUS
<1> PICK after : after = [index EXCEPT !.state = state]
  OBVIOUS
<1>1. /\ index' = after /\ UNCHANGED <<now, rows>>
      /\ index \in IndexRow /\ index.state = "counting" /\ index.offset <= total
      /\ state \in {"reading", "done"}
  BY DEF CountItems, Covers
<1>2. /\ after \in IndexRow /\ after.state = state /\ after.offset = index.offset
      /\ after.known = index.known /\ after.seen = index.seen /\ after.changed = index.changed
  BY <1>1 DEF IndexRow, States
<1>3. index.offset \in Nat /\ total \in Nat /\ index.known \subseteq DOMAIN rows
  BY <1>1, ContextBounds, RowsAreFinite DEF IndexRow, Covers
<1>4. ASSUME NEW i \in index.known \ index.changed,
             state = "done" \/ Place(i) < index.offset
      PROVE  i \in index.seen
  <2>1. Place(i) \in Nat /\ Place(i) < total
    BY <1>3, PlaceIsBelow
  <2>2. Place(i) < index.offset
    BY <1>3, <1>4, <2>1
  <2> QED BY <2>2 DEF Covers
<1>5. \A i : Place(i)' = Place(i)
  BY <1>1 DEF Place, Precedes
<1>6. (IndexRow)' = IndexRow
  BY DEF IndexRow
<1> QED BY <1>1, <1>2, <1>3, <1>4, <1>5, <1>6 DEF Covers

LEMMA NoReadingCovers ==
    ASSUME ContextAssumption
    PROVE  Covers(NoIndex) /\ Covers(NoIndex)'
  BY ContextBounds DEF Covers, NoIndex, IndexRow, States

(***************************************************************************)
(* Others write                                                            *)
(***************************************************************************)
\* What is written goes to the front of the index, and nothing comes nearer to it.
LEMMA PlacesGrow ==
    ASSUME ContextAssumption, RowsOfContext, RowsOfContext', NEW k \in DOMAIN rows',
           DOMAIN rows \subseteq DOMAIN rows', rows'[k].updated = now,
           \A j \in DOMAIN rows : j # k => rows'[j] = rows[j],
           NEW i \in DOMAIN rows, i # k
    PROVE  Place(i) \in Nat /\ Place(i)' \in Nat /\ Place(i) <= Place(i)'
<1>1. Before(i) \subseteq Before(i)'
  <2> SUFFICES ASSUME NEW j \in Before(i) PROVE j \in Before(i)'
    OBVIOUS
  <2>1. j \in DOMAIN rows /\ Precedes(j, i)
    BY DEF Before
  <2>2. rows'[i] = rows[i]
    OBVIOUS
  <2>3. CASE j # k
    BY <2>1, <2>2, <2>3 DEF Before, Precedes
  <2>4. CASE j = k
    <3>1. rows'[j].updated = now /\ rows[j].updated <= now /\ rows[i].updated <= now
          /\ rows[j].updated \in Int /\ rows[i].updated \in Int /\ now \in Int
      BY <2>1, <2>4, RowIsTyped, ContextBounds DEF RowsOfContext
    <3>2. Precedes(j, i)'
      BY <2>1, <2>2, <3>1 DEF Precedes
    <3> QED BY <2>1, <3>2 DEF Before
  <2> QED BY <2>3, <2>4
<1>2. IsFiniteSet(Before(i)') /\ Place(i)' = Cardinality(Before(i)') /\ Place(i)' \in Nat
  <2>1. IsFiniteSet(DOMAIN rows') /\ Before(i)' \in SUBSET DOMAIN rows'
    BY ContextBounds, FS_Subset DEF RowsOfContext, Before
  <2>2. Place(i)' = Cardinality(Before(i)')
    BY DEF Place, Before
  <2> QED BY <2>1, <2>2, FS_Subset, FS_CardinalityType
<1>3. Place(i) = Cardinality(Before(i)) /\ Place(i) \in Nat
  BY PlaceIsBelow
<1> QED BY <1>1, <1>2, <1>3, FS_Subset

\* What a write of one item leaves of a reading that knows of it.
LEMMA WriteStep ==
    ASSUME ContextAssumption, ContextInv, NEW k \in Items,
           NewItem(k) \/ (k \in DOMAIN rows /\ Review(k))
    PROVE  ContextInv'
<1>1. RowsOfContext /\ Covers(index)
  BY DEF ContextInv
<1>2. /\ k \in DOMAIN rows' /\ DOMAIN rows' = DOMAIN rows \cup {k}
      /\ rows'[k] \in ContextRow /\ rows'[k].updated = now
      /\ \A j \in DOMAIN rows : j # k => rows'[j] = rows[j]
      /\ UNCHANGED <<now, width, section>> /\ Changed(k)
  <2>1. CASE NewItem(k)
    <3>1. [updated |-> now, reviews |-> 0] \in ContextRow
      BY <1>1, ContextBounds DEF RowsOfContext, ContextRow
    <3> QED BY <2>1, <3>1 DEF NewItem
  <2>2. CASE k \in DOMAIN rows /\ Review(k)
    <3> PICK row : row = [rows[k] EXCEPT !.updated = now, !.reviews = rows[k].reviews + 1]
      OBVIOUS
    <3>1. rows' = [rows EXCEPT ![k] = row]
      BY <2>2 DEF Review
    <3>2. rows[k] \in ContextRow /\ rows[k].reviews + 1 \in 0..MaxReviews
      <4> PICK reviews : reviews = rows[k].reviews
        OBVIOUS
      <4>1. reviews \in 0..MaxReviews /\ reviews < MaxReviews /\ rows[k] \in ContextRow
        BY <1>1, <2>2, RowIsTyped DEF Review
      <4> QED BY <4>1, ContextBounds
    <3>3. now \in 0..now
      BY <1>1, ContextBounds DEF RowsOfContext
    <3>4. row \in ContextRow /\ row.updated = now
      BY <3>2, <3>3 DEF ContextRow
    <3> QED BY <1>1, <2>2, <3>1, <3>4 DEF Review
  <2> QED BY <2>1, <2>2
<1>3. RowsOfContext'
  <2>1. ASSUME NEW j \in DOMAIN rows' PROVE rows'[j] \in ContextRow
    BY <1>1, <1>2 DEF RowsOfContext
  <2>2. rows' = [j \in DOMAIN rows' |-> rows'[j]]
    BY <1>1 DEF NewItem, Review, RowsOfContext
  <2>3. ContextRow' = ContextRow
    BY <1>2 DEF ContextRow
  <2> QED BY <1>1, <1>2, <2>1, <2>2, <2>3 DEF RowsOfContext
<1>4. Covers(index)'
  <2>1. CASE ~Paging
    BY <1>2, <2>1, NoReadingCovers DEF Changed
  <2>2. CASE Paging
    <3> PICK after : after = [index EXCEPT !.changed = @ \cup {k}]
      OBVIOUS
    <3>1. index' = after
      BY <1>2, <2>2 DEF Changed
    <3>2. index \in IndexRow
      BY <1>1 DEF Covers
    <3>3. /\ after \in IndexRow /\ after.known = index.known /\ after.seen = index.seen
          /\ after.state # "done" /\ after.offset = index.offset
          /\ after.changed = index.changed \cup {k}
      BY <2>2, <3>2 DEF IndexRow, Paging
    <3>4. Cardinality(DOMAIN rows) <= Cardinality(DOMAIN rows')
      <4>1. IsFiniteSet(DOMAIN rows') /\ DOMAIN rows \in SUBSET DOMAIN rows'
        BY <1>2, <1>3, ContextBounds, FS_Subset DEF RowsOfContext
      <4> QED BY <4>1, FS_Subset
    <3>5. /\ index.offset \in Nat /\ index.offset <= Cardinality(DOMAIN rows)
          /\ index.known \subseteq DOMAIN rows
      BY <1>1, <2>2, <3>2, ContextBounds DEF Covers, IndexRow, Paging
    <3>6. after.offset <= Cardinality(DOMAIN rows')
      <4>1. Cardinality(DOMAIN rows) \in Nat /\ Cardinality(DOMAIN rows') \in Nat
        BY <1>1, <1>3, ContextBounds, FS_Subset, FS_CardinalityType DEF RowsOfContext
      <4> QED BY <3>3, <3>4, <3>5, <4>1
    <3>7. ASSUME NEW i \in after.known \ after.changed, Place(i)' < after.offset
          PROVE  i \in after.seen
      <4>1. i \in DOMAIN rows /\ i # k /\ i \in index.known \ index.changed
        BY <3>3, <3>5
      <4>2. Place(i) \in Nat /\ Place(i)' \in Nat /\ Place(i) <= Place(i)'
        BY <1>1, <1>2, <1>3, <4>1, PlacesGrow
      <4>3. Place(i) < index.offset
        BY <3>3, <3>5, <3>7, <4>2
      <4> QED BY <1>1, <3>3, <4>1, <4>3 DEF Covers
    <3>8. (IndexRow)' = IndexRow
      BY DEF IndexRow
    <3> QED BY <1>2, <3>1, <3>3, <3>5, <3>6, <3>7, <3>8 DEF Covers
  <2> QED BY <2>1, <2>2
<1> QED BY <1>3, <1>4 DEF ContextInv

\* Nothing is written.
LEMMA ReadSteps ==
    ASSUME ContextAssumption, ContextInv, FirstPage \/ NextPage \/ CountItems
    PROVE  ContextInv'
<1>1. RowsOfContext /\ Covers(index) /\ UNCHANGED <<now, rows, width>>
  BY DEF ContextInv, FirstPage, NextPage, CountItems
<1>2. RowsOfContext'
  <2>1. section'.state \in States
    BY <1>1 DEF FirstPage, NextPage, CountItems, RowsOfContext, NoSection, States
  <2> QED BY <1>1, <2>1 DEF RowsOfContext, ContextRow
<1>3. NoIndex \in IndexRow /\ NoIndex.offset = 0 /\ DOMAIN rows \in SUBSET Items
      /\ {} \in SUBSET Items /\ 0 <= Cardinality(DOMAIN rows)
  BY <1>1, ContextBounds, RowsAreFinite DEF NoIndex, IndexRow, States, RowsOfContext
<1>4. Covers(index)'
  <2>1. CASE FirstPage
    <3>1. \A i \in DOMAIN rows : ~(Place(i) < NoIndex.offset)
      BY <1>1, <1>3, PlaceIsBelow
    <3>2. ReadOn(NoIndex, DOMAIN rows, {})
      BY <2>1 DEF FirstPage
    <3> QED BY <1>1, <1>3, <3>1, <3>2, PageCovers
  <2>2. CASE NextPage
    <3>1. /\ index \in IndexRow /\ index.known \in SUBSET Items /\ index.changed \in SUBSET Items
          /\ index.offset <= Cardinality(DOMAIN rows) /\ index.known \subseteq DOMAIN rows
          /\ \A i \in index.known \ index.changed : Place(i) < index.offset => i \in index.seen
      BY <1>1, <2>2 DEF Covers, IndexRow, NextPage
    <3>2. ReadOn(index, index.known, index.changed)
      BY <2>2 DEF NextPage
    <3> QED BY <1>1, <3>1, <3>2, PageCovers
  <2>3. CASE CountItems
    BY <1>1, <2>3, CountCovers
  <2> QED BY <2>1, <2>2, <2>3
<1> QED BY <1>2, <1>4 DEF ContextInv

\* Time passes, documents get another version, sections are read.
LEMMA RowsStay ==
    ASSUME ContextAssumption, ContextInv, UNCHANGED rows,
           now' \in 0..LatestNow, now <= now', width' \in Widths, section'.state \in States,
           index' \in {index, NoIndex}
    PROVE  ContextInv'
<1>1. RowsOfContext /\ Covers(index)
  BY DEF ContextInv
<1>2. RowsOfContext'
  <2>1. 0..now \subseteq 0..now'
    BY <1>1, ContextBounds DEF RowsOfContext
  <2>2. ContextRow \subseteq (ContextRow)'
    BY <2>1 DEF ContextRow
  <2> QED BY <1>1, <2>2 DEF RowsOfContext
<1>3. Covers(index)'
  <2>1. CASE index' = NoIndex
    BY <2>1, NoReadingCovers
  <2>2. CASE index' = index
    <3>1. \A i : Place(i)' = Place(i)
      BY DEF Place, Precedes
    <3> QED BY <1>1, <2>2, <3>1 DEF Covers, IndexRow
  <2> QED BY <2>1, <2>2
<1> QED BY <1>2, <1>3 DEF ContextInv

LEMMA ContextInvStep ==
    ASSUME ContextAssumption, ContextInv, [ContextNext]_contextVars
    PROVE  ContextInv'
<1>1. now \in 0..LatestNow /\ now <= now /\ width \in Widths /\ section.state \in States
  BY ContextBounds DEF ContextInv, RowsOfContext
<1>2. CASE LaterNow
  <2>1. now' \in 0..LatestNow /\ now <= now'
    BY <1>1, <1>2, ContextBounds DEF LaterNow
  <2> QED BY <1>1, <1>2, <2>1, RowsStay DEF LaterNow
<1>3. ASSUME NEW k \in Items, NewItem(k)
      PROVE  ContextInv'
  <2>1. NewItem(k) \/ (k \in DOMAIN rows /\ Review(k))
    BY <1>3
  <2> QED BY <2>1, WriteStep
<1>4. ASSUME NEW k \in DOMAIN rows, Review(k)
      PROVE  ContextInv'
  <2>1. k \in Items /\ (NewItem(k) \/ (k \in DOMAIN rows /\ Review(k)))
    BY <1>4 DEF ContextInv, RowsOfContext
  <2> QED BY <2>1, WriteStep
<1>5. ASSUME NEW w \in Widths, NewWidth(w)
      PROVE  ContextInv'
  BY <1>1, <1>5, RowsStay DEF NewWidth
<1>6. CASE FirstPage \/ NextPage \/ CountItems
  BY <1>6, ReadSteps
<1>7. CASE ReadSection
  <2>1. section'.state \in States
    BY <1>7 DEF ReadSection, NoSection, States
  <2> QED BY <1>1, <1>7, <2>1, RowsStay DEF ReadSection
<1>8. CASE UNCHANGED contextVars
  BY <1>1, <1>8, RowsStay DEF contextVars
<1> QED BY <1>2, <1>3, <1>4, <1>5, <1>6, <1>7, <1>8 DEF ContextNext

\* A reader who pages through the index to its end has got every item that was there when
\* it began and that nobody wrote meanwhile, whatever was written around them, between the
\* query of a page and the count that follows it too: an offset skips only what moved to
\* the front.  And types.
THEOREM NothingIsMissed == ASSUME ContextAssumption PROVE ContextSpec => []PagesMissNothing
<1>1. ContextInit => ContextInv
  <2> SUFFICES ASSUME ContextInit PROVE ContextInv
    OBVIOUS
  <2>1. RowsOfContext
    BY ContextBounds DEF ContextInit, RowsOfContext, NoSection, States
  <2>2. Covers(NoIndex)
    BY NoReadingCovers
  <2> QED BY <2>1, <2>2 DEF ContextInit, ContextInv
<1>2. ContextInv /\ [ContextNext]_contextVars => ContextInv'
  BY ContextInvStep
<1>3. ContextInv => PagesMissNothing
  <2> SUFFICES ASSUME ContextInv PROVE PagesMissNothing
    OBVIOUS
  <2>1. \A i \in DOMAIN rows : rows[i] \in ContextRow
    BY DEF ContextInv, RowsOfContext
  <2>2. ContextTypeOK
    BY <2>1 DEF ContextInv, RowsOfContext, Covers, ContextTypeOK, ContextRow, IndexRow
  <2> QED BY <2>2 DEF ContextInv, Covers, PagesMissNothing
<1> QED BY <1>1, <1>2, <1>3, PTL DEF ContextSpec

(***************************************************************************)
(* SchemaMigrations: what a database carries at each version               *)
(***************************************************************************)
DbRow ==
    [exists : BOOLEAN, ledger : SUBSET (1..(Current + 1)), sound : BOOLEAN, exact : BOOLEAN,
     appended : [Objects -> SUBSET Runs], members : [Objects -> Runs \cup {None}],
     runner : BOOLEAN, claim : ClaimStates \cup {"odd", None},
     attempt : {"reserved", "dispatching", "succeeded", "settled", "failed",
                "unknown", "disputed", "cancelled", None},
     previews : SUBSET Previews, projected : SUBSET Previews, marked : BOOLEAN]

\* Every reason of a refusal but a statement that runs twice.
Reasons == {None, "exists", "ledger", "history", "shape", "rebuild", "manifest", "io"}

StarterRow ==
    [at : Stages, created : BOOLEAN, before : SUBSET (1..Current), snapshot : SUBSET Previews,
     orphan : BOOLEAN, why : Reasons]

ObjectsTold(d) ==
    \A o \in Objects : d.appended[o] = IF d.members[o] = None THEN {} ELSE {d.members[o]}

ClaimTold(d) ==
    /\ d.claim # None => d.attempt # None
    /\ d.claim \in {"dispatched", "attested", "settled"}
         <=> d.attempt \in {"succeeded", "settled"}

\* A backfill's table is empty before its schema, and tells the history from then on.
Carries(d) ==
    /\ d \in DbRow
    /\ 2 \in d.ledger \/ 1 \notin d.ledger => ObjectsTold(d)
    /\ 8 \in d.ledger => ClaimTold(d)
    /\ 8 \notin d.ledger => d.attempt = None
    /\ 26 \in d.ledger => d.projected = d.previews

\* A file that an invocation created holds nothing of a release but this one's.
MigrationsInv ==
    /\ Carries(db)
    /\ starter \in [Starters -> StarterRow]
    /\ promised \in BOOLEAN
    /\ db.exists \/ ValidLedger(db.ledger)
    /\ \A p \in Starters : starter[p].created => ValidLedger(db.ledger)

\* What earlier releases leave carries what its version has.
LEMMA DatabasesCarry ==
    ASSUME MigrationsAssumption, NEW d \in Databases
    PROVE  Carries(d)
<1> PICK nobody : nobody = [o \in Objects |-> {}]
  OBVIOUS
<1> PICK none : none = [o \in Objects |-> None]
  OBVIOUS
<1>1. nobody \in [Objects -> SUBSET Runs] /\ none \in [Objects -> Runs \cup {None}]
  OBVIOUS
<1>2. \A o \in Objects : nobody[o] = {} /\ none[o] = None
  OBVIOUS
<1>3. Absent = [exists |-> FALSE, ledger |-> {}, sound |-> TRUE, exact |-> TRUE,
                appended |-> nobody, members |-> none,
                runner |-> FALSE, claim |-> None, attempt |-> None,
                previews |-> {}, projected |-> {}, marked |-> FALSE]
  BY DEF Absent
<1> HIDE DEF MigrationsAssumption
<1>4. Carries(Absent)
  <2>1. Absent \in DbRow
    BY <1>1, <1>3 DEF DbRow
  <2> QED BY <1>2, <1>3, <2>1 DEF Carries, ObjectsTold
<1>5. ASSUME NEW e \in DbRow,
             e.members = none /\ e.attempt = None /\ e.projected = {},
             2 \in e.ledger \/ 1 \notin e.ledger => e.appended = nobody,
             8 \in e.ledger => e.claim = None,
             26 \in e.ledger => e.previews = {}
      PROVE  Carries(e)
  <2>1. 2 \in e.ledger \/ 1 \notin e.ledger => ObjectsTold(e)
    BY <1>2, <1>5 DEF ObjectsTold
  <2>2. 8 \in e.ledger => ClaimTold(e)
    BY <1>5 DEF ClaimTold, None
  <2> QED BY <1>5, <2>1, <2>2 DEF Carries
<1>6. ASSUME NEW versions \in SUBSET (1..(Current + 1)), NEW left, left = Left(versions)
      PROVE  /\ left \in DbRow /\ left.members = none /\ left.attempt = None
             /\ left.projected = {} /\ left.ledger = versions /\ left.appended = nobody
             /\ left.claim = None /\ left.previews = {}
  <2> PICK absent : absent = Absent
    OBVIOUS
  <2>1. /\ absent \in DbRow /\ absent.members = none /\ absent.attempt = None
        /\ absent.projected = {} /\ absent.ledger = {} /\ absent.appended = nobody
        /\ absent.claim = None /\ absent.previews = {}
    BY <1>1, <1>3 DEF DbRow
  <2>2. left = [absent EXCEPT !.exists = TRUE, !.ledger = versions]
    BY <1>6 DEF Left
  <2> QED BY <2>1, <2>2 DEF DbRow
<1>7. CASE d = Absent
  BY <1>4, <1>7
<1>8. ASSUME NEW versions \in SUBSET (1..(Current + 1)), d = Left(versions)
      PROVE  Carries(d)
  BY <1>5, <1>6, <1>8
<1>9. CASE d = [Left(1..Current) EXCEPT !.sound = FALSE]
  <2> PICK left : left = Left(1..Current)
    OBVIOUS
  <2>1. /\ left \in DbRow /\ left.members = none /\ left.attempt = None
        /\ left.projected = {} /\ left.ledger = 1..Current /\ left.appended = nobody
        /\ left.claim = None /\ left.previews = {}
    BY <1>6 DEF Current
  <2>2. /\ d \in DbRow /\ d.members = none /\ d.attempt = None /\ d.projected = {}
        /\ d.appended = nobody /\ d.claim = None /\ d.previews = {}
    BY <1>9, <2>1 DEF DbRow
  <2> QED BY <1>5, <2>2
<1>10. CASE d = [Left(1..24) EXCEPT !.exact = FALSE]
  <2> PICK left : left = Left(1..24)
    OBVIOUS
  <2>1. /\ left \in DbRow /\ left.members = none /\ left.attempt = None
        /\ left.projected = {} /\ left.ledger = 1..24 /\ left.appended = nobody
        /\ left.claim = None /\ left.previews = {}
    <3>1. 1..24 \in SUBSET (1..(Current + 1))
      BY DEF Current
    <3> QED BY <1>6, <3>1
  <2>2. /\ d \in DbRow /\ d.members = none /\ d.attempt = None /\ d.projected = {}
        /\ d.appended = nobody /\ d.claim = None /\ d.previews = {}
    BY <1>10, <2>1 DEF DbRow
  <2> QED BY <1>5, <2>2
<1>11. ASSUME NEW a \in [Objects -> SUBSET Runs], d = [Left({1}) EXCEPT !.appended = a]
       PROVE  Carries(d)
  <2> PICK left : left = Left({1})
    OBVIOUS
  <2>1. /\ left \in DbRow /\ left.members = none /\ left.attempt = None
        /\ left.projected = {} /\ left.ledger = {1}
        /\ left.claim = None /\ left.previews = {}
    BY <1>6 DEF Current
  <2>2. /\ d \in DbRow /\ d.members = none /\ d.attempt = None /\ d.projected = {}
        /\ d.ledger = {1} /\ d.claim = None /\ d.previews = {}
    BY <1>11, <2>1 DEF DbRow
  <2> QED BY <1>5, <2>2
<1>12. ASSUME NEW b \in BOOLEAN, d = [Left(1..3) EXCEPT !.runner = b]
       PROVE  Carries(d)
  <2> PICK left : left = Left(1..3)
    OBVIOUS
  <2>1. /\ left \in DbRow /\ left.members = none /\ left.attempt = None
        /\ left.projected = {} /\ left.appended = nobody
        /\ left.claim = None /\ left.previews = {}
    <3>1. 1..3 \in SUBSET (1..(Current + 1))
      BY DEF Current
    <3> QED BY <1>6, <3>1
  <2>2. /\ d \in DbRow /\ d.members = none /\ d.attempt = None /\ d.projected = {}
        /\ d.appended = nobody /\ d.claim = None /\ d.previews = {}
    BY <1>12, <2>1 DEF DbRow
  <2> QED BY <1>5, <2>2
<1>13. ASSUME NEW c \in ClaimStates \cup {"odd", None}, d = [Left(1..7) EXCEPT !.claim = c]
       PROVE  Carries(d)
  <2> PICK left : left = Left(1..7)
    OBVIOUS
  <2>1. /\ left \in DbRow /\ left.members = none /\ left.attempt = None
        /\ left.projected = {} /\ left.ledger = 1..7 /\ left.appended = nobody
        /\ left.previews = {}
    <3>1. 1..7 \in SUBSET (1..(Current + 1))
      BY DEF Current
    <3> QED BY <1>6, <3>1
  <2>2. /\ d \in DbRow /\ d.members = none /\ d.attempt = None /\ d.projected = {}
        /\ d.appended = nobody /\ d.ledger = 1..7 /\ d.previews = {}
    BY <1>13, <2>1 DEF DbRow
  <2> QED BY <1>5, <2>2
<1>14. ASSUME NEW s \in SUBSET Previews, d = [Left(1..25) EXCEPT !.previews = s]
       PROVE  Carries(d)
  <2> PICK left : left = Left(1..25)
    OBVIOUS
  <2>1. /\ left \in DbRow /\ left.members = none /\ left.attempt = None
        /\ left.projected = {} /\ left.ledger = 1..25 /\ left.appended = nobody
        /\ left.claim = None
    <3>1. 1..25 \in SUBSET (1..(Current + 1))
      BY DEF Current
    <3> QED BY <1>6, <3>1
  <2>2. /\ d \in DbRow /\ d.members = none /\ d.attempt = None /\ d.projected = {}
        /\ d.appended = nobody /\ d.ledger = 1..25 /\ d.claim = None
    BY <1>14, <2>1 DEF DbRow
  <2> QED BY <1>5, <2>2
<1>15. {1..Current, 1..(Current + 1), (1..Current) \ {31}} \subseteq SUBSET (1..(Current + 1))
  BY DEF Current
<1> QED BY <1>7, <1>8, <1>9, <1>10, <1>11, <1>12, <1>13, <1>14, <1>15 DEF Databases

\* The backfills, each in its turn, carry over what their schema's table has to tell.
LEMMA MigratedCarries ==
    ASSUME MigrationsAssumption, Carries(db), NEW p \in Starters, NEW e \in Migrated(p)
    PROVE  Carries(e) /\ e.ledger = 1..Current
<1> DEFINE missing == (1..Current) \ db.ledger
           after(d, v, step) == IF v \in missing THEN step ELSE {d}
           two == after(db, 2, Backfill2(db))
           four == UNION {after(d, 4, Backfill4(d)) : d \in two}
           eight == UNION {after(d, 8, Backfill8(d)) : d \in four}
           all == UNION {after(d, 26, {Backfill26(d)}) : d \in eight}
<1>1. PICK d26 \in all : e = [d26 EXCEPT !.ledger = 1..Current]
  BY DEF Migrated, Applied
<1>2. PICK d8 \in eight : d26 \in after(d8, 26, {Backfill26(d8)})
  BY <1>1
<1>3. PICK d4 \in four : d8 \in after(d4, 8, Backfill8(d4))
  BY <1>2
<1>4. PICK d2 \in two : d4 \in after(d2, 4, Backfill4(d2))
  BY <1>3
<1>5. d4 = d2
  BY <1>4 DEF Backfill4
<1>6. /\ d2 \in DbRow /\ ObjectsTold(d2) /\ d2.claim = db.claim /\ d2.attempt = db.attempt
      /\ d2.previews = db.previews /\ d2.projected = db.projected
  <2>1. CASE 2 \in missing /\ 1 \in db.ledger
    <3>1. PICK m \in [Objects -> Runs] :
             /\ \A o \in Objects : db.appended[o] = {m[o]}
             /\ d2 = [db EXCEPT !.members = m]
      BY <2>1 DEF Backfill2
    <3>2. m \in [Objects -> Runs \cup {None}] /\ \A o \in Objects : m[o] # None
      BY DEF MigrationsAssumption
    <3>3. db \in DbRow
      BY DEF Carries
    <3>4. /\ d2 \in DbRow /\ d2.members = m /\ d2.appended = db.appended
          /\ d2.claim = db.claim /\ d2.attempt = db.attempt
          /\ d2.previews = db.previews /\ d2.projected = db.projected
      BY <3>1, <3>2, <3>3 DEF DbRow
    <3> QED BY <3>1, <3>2, <3>4 DEF ObjectsTold
  <2>2. CASE ~(2 \in missing /\ 1 \in db.ledger)
    <3>1. d2 = db
      BY <2>2 DEF Backfill2
    <3>2. 2 \in db.ledger \/ 1 \notin db.ledger
      BY <2>2 DEF Current
    <3> QED BY <3>1, <3>2 DEF Carries
  <2> QED BY <2>1, <2>2
<1>7. /\ d8 \in DbRow /\ ObjectsTold(d8) /\ ClaimTold(d8)
      /\ d8.previews = db.previews /\ d8.projected = db.projected
  <2>1. CASE 8 \in missing
    <3>1. d2.attempt = None /\ d2.claim \in ClaimStates \cup {"odd", None}
      BY <1>6, <2>1 DEF Carries, DbRow
    <3>2. CASE d2.claim = None
      <4>1. d8 = d2
        BY <1>3, <1>5, <2>1, <3>2 DEF Backfill8
      <4> QED BY <1>6, <3>1, <3>2, <4>1 DEF ClaimTold, None
    <3>3. CASE d2.claim # None
      <4>1. d2.claim \in ClaimStates /\ d8 = [d2 EXCEPT !.attempt = Attempted[d2.claim]]
        BY <1>3, <1>5, <2>1, <3>1, <3>3 DEF Backfill8
      <4> PICK attempt : attempt = Attempted[d2.claim]
        OBVIOUS
      <4>2. /\ attempt \in {"reserved", "dispatching", "succeeded", "settled", "failed",
                            "unknown", "disputed", "cancelled"}
            /\ d2.claim \in {"dispatched", "attested", "settled"}
                 <=> attempt \in {"succeeded", "settled"}
        BY <4>1 DEF Attempted, ClaimStates
      <4>3. /\ d8 \in DbRow /\ d8.attempt = attempt /\ d8.claim = d2.claim
            /\ d8.members = d2.members /\ d8.appended = d2.appended
            /\ d8.previews = d2.previews /\ d8.projected = d2.projected
        BY <1>6, <4>1, <4>2 DEF DbRow
      <4> QED BY <1>6, <4>2, <4>3 DEF ObjectsTold, ClaimTold, None
    <3> QED BY <3>2, <3>3
  <2>2. CASE 8 \notin missing
    <3>1. d8 = d2 /\ 8 \in db.ledger
      BY <1>3, <1>5, <2>2 DEF Current
    <3> QED BY <1>6, <3>1 DEF Carries, ClaimTold
  <2> QED BY <2>1, <2>2
<1>8. d26 \in DbRow /\ ObjectsTold(d26) /\ ClaimTold(d26) /\ d26.projected = d26.previews
  <2>1. CASE 26 \in missing
    <3>1. d26 = [d8 EXCEPT !.projected = d8.previews] /\ d8.previews \in SUBSET Previews
      BY <1>2, <1>7, <2>1 DEF Backfill26, DbRow
    <3>2. /\ d26 \in DbRow /\ d26.projected = d8.previews /\ d26.previews = d8.previews
          /\ d26.attempt = d8.attempt /\ d26.claim = d8.claim
          /\ d26.members = d8.members /\ d26.appended = d8.appended
      BY <1>7, <3>1 DEF DbRow
    <3> QED BY <1>7, <3>2 DEF ObjectsTold, ClaimTold
  <2>2. CASE 26 \notin missing
    BY <1>2, <1>7, <2>2 DEF Carries, Current
  <2> QED BY <2>1, <2>2
<1>9. /\ e \in DbRow /\ e.ledger = 1..Current /\ e.projected = e.previews
      /\ e.attempt = d26.attempt /\ e.claim = d26.claim
      /\ e.members = d26.members /\ e.appended = d26.appended
  <2>1. 1..Current \in SUBSET (1..(Current + 1))
    BY DEF Current
  <2> QED BY <1>1, <1>8, <2>1 DEF DbRow
<1> QED BY <1>8, <1>9 DEF Carries, ObjectsTold, ClaimTold, Current
\* A refusal removes at most a file that holds nothing but what this release made.
LEMMA RefuseStep ==
    ASSUME MigrationsAssumption, MigrationsInv, NEW p \in Starters,
           NEW why \in Reasons, Refuse(p, why)
    PROVE  MigrationsInv' /\ (~starter[p].created => UNCHANGED db)
<1> DEFINE unlinks == starter[p].created /\ db.exists
           left(q) == [starter[q] EXCEPT !.orphan = @ \/ (unlinks /\ starter[q].at \in Connected)]
           mine == [starter[p] EXCEPT !.at = "refused", !.why = why]
<1>1. /\ starter' = [q \in Starters |-> IF q = p THEN mine ELSE left(q)]
      /\ db' = IF unlinks THEN Absent ELSE db
      /\ UNCHANGED promised
  BY DEF Refuse
<1>2. mine \in StarterRow /\ mine.created = starter[p].created
  BY DEF MigrationsInv, StarterRow, Stages
<1>3. ASSUME NEW q \in Starters PROVE left(q) \in StarterRow /\ left(q).created = starter[q].created
  <2> PICK orphan \in BOOLEAN :
         orphan <=> starter[q].orphan \/ (unlinks /\ starter[q].at \in Connected)
    OBVIOUS
  <2>1. starter[q] \in StarterRow
    BY DEF MigrationsInv
  <2> QED BY <2>1 DEF StarterRow
<1>4. starter' \in [Starters -> StarterRow]
      /\ \A q \in Starters : starter'[q].created = starter[q].created
  BY <1>1, <1>2, <1>3
<1>5. Carries(Absent) /\ ValidLedger(Absent.ledger)
  BY DatabasesCarry DEF Databases, Absent, ValidLedger, Current
<1>6. Carries(db') /\ \A q \in Starters : starter'[q].created => ValidLedger(db'.ledger)
  BY <1>1, <1>4, <1>5 DEF MigrationsInv
<1>7. promised' \in BOOLEAN
  BY <1>1 DEF MigrationsInv
<1>8. (db.exists \/ ValidLedger(db.ledger))'
  BY <1>1, <1>5 DEF MigrationsInv
<1> QED BY <1>1, <1>4, <1>6, <1>7, <1>8
        DEF MigrationsInv, Carries, ObjectsTold, ClaimTold, ValidLedger
\* A starter moves on, and the database stays, or is what carries its history.
LEMMA MoveStep ==
    ASSUME MigrationsAssumption, MigrationsInv, NEW p \in Starters, NEW row \in StarterRow,
           starter' = [starter EXCEPT ![p] = row], Carries(db'), promised' \in BOOLEAN,
           row.created => ValidLedger(db'.ledger),
           ValidLedger(db'.ledger) \/ UNCHANGED db
    PROVE  MigrationsInv'
<1>1. starter' \in [Starters -> StarterRow]
  BY DEF MigrationsInv
<1>2. ASSUME NEW q \in Starters, starter'[q].created PROVE ValidLedger(db'.ledger)
  <2>1. CASE q = p
    BY <1>2, <2>1 DEF MigrationsInv
  <2>2. CASE q # p
    BY <1>2, <2>2 DEF MigrationsInv
  <2> QED BY <2>1, <2>2
<1>3. (db.exists \/ ValidLedger(db.ledger))'
  BY DEF MigrationsInv
<1> QED BY <1>1, <1>2, <1>3 DEF MigrationsInv, Carries, ObjectsTold, ClaimTold, ValidLedger

\* The ledger the migrations leave is a release's.
LEMMA LedgersAreValid == ValidLedger({}) /\ ValidLedger(1..25) /\ ValidLedger(1..Current)
  BY DEF ValidLedger, Current

\* A database that no release's ledger describes stays as it is: MigrationsInv is kept, and a
\* change of the database starts from a ledger without a gap.
LEMMA StarterStep ==
    ASSUME MigrationsAssumption, MigrationsInv, NEW p \in Starters,
           \/ CreateFixture(p) \/ Preflight(p) \/ Open(p) \/ ApplyMigrations(p)
           \/ VerifyManifest(p) \/ Mark(p) \/ Orphaned(p) \/ Initialized(p)
           \/ Raise(p) \/ Crash(p)
    PROVE  MigrationsInv' /\ (ValidLedger(db.ledger) \/ UNCHANGED db)
<1>1. Carries(db) /\ db \in DbRow /\ starter[p] \in StarterRow /\ promised \in BOOLEAN
      /\ starter \in [Starters -> StarterRow]
      /\ (starter[p].created => ValidLedger(db.ledger))
      /\ (db.exists \/ ValidLedger(db.ledger))
  BY DEF MigrationsInv, Carries
<1>2. ASSUME NEW why \in Reasons, Refuse(p, why)
      PROVE  MigrationsInv' /\ (ValidLedger(db.ledger) \/ UNCHANGED db)
  BY <1>1, <1>2, RefuseStep
<1>3. ASSUME NEW to \in Stages, starter' = [starter EXCEPT ![p].at = to],
             Carries(db'), promised' \in BOOLEAN,
             ValidLedger(db'.ledger) \/ UNCHANGED db
      PROVE  MigrationsInv'
  <2> PICK row : row = [starter[p] EXCEPT !.at = to]
    OBVIOUS
  <2>1. row \in StarterRow /\ row.created = starter[p].created
    BY <1>1 DEF StarterRow
  <2>2. starter' = [starter EXCEPT ![p] = row]
    BY <1>1, <1>3
  <2> QED BY <1>1, <1>3, <2>1, <2>2, MoveStep
<1>4. CASE CreateFixture(p)
  <2>1. CASE db.exists
    BY <1>2, <1>4, <2>1 DEF CreateFixture, Reasons
  <2>2. CASE ~db.exists
    <3> PICK row : row = [starter[p] EXCEPT !.at = "preflighted", !.created = TRUE]
      OBVIOUS
    <3>1. row \in StarterRow
      BY <1>1 DEF StarterRow, Stages
    <3>2. starter' = [starter EXCEPT ![p] = row] /\ promised' = promised
          /\ db' = [Absent EXCEPT !.exists = TRUE]
      BY <1>1, <1>4, <2>2 DEF CreateFixture
    <3> PICK absent : absent = Absent
      OBVIOUS
    <3>3. Carries(absent) /\ absent.ledger = {} /\ absent \in DbRow
      BY DatabasesCarry DEF Databases, Absent, Carries
    <3>4. Carries(db') /\ ValidLedger(db'.ledger)
      <4>1. db' \in DbRow /\ db'.ledger = {} /\ db'.members = absent.members
            /\ db'.appended = absent.appended /\ db'.attempt = absent.attempt
        BY <3>2, <3>3 DEF DbRow
      <4> QED BY <3>3, <4>1, LedgersAreValid DEF Carries, ObjectsTold
    <3> QED BY <1>1, <2>2, <3>1, <3>2, <3>4, MoveStep
  <2> QED BY <2>1, <2>2
<1>5. CASE Preflight(p)
  <2>1. CASE starter' = [starter EXCEPT ![p].at = "preflighted"] /\ UNCHANGED <<db, promised>>
    BY <1>1, <1>3, <2>1 DEF Stages, Carries, ObjectsTold, ClaimTold
  <2>2. CASE Refuse(p, "ledger")
    BY <1>2, <2>2 DEF Reasons
  <2> QED BY <1>5, <2>1, <2>2 DEF Preflight, Moves
<1>6. CASE Open(p)
  <2>1. CASE Refuse(p, "ledger")
    BY <1>2, <2>1 DEF Reasons
  <2>2. CASE ValidLedger(db.ledger)
    <3> PICK row : row = [starter[p] EXCEPT !.at = "opened", !.before = db.ledger,
                                            !.snapshot = db.previews]
      OBVIOUS
    <3>1. db.ledger \in SUBSET (1..Current) /\ db.previews \in SUBSET Previews
      <4>1. PICK v \in 0..Current : db.ledger = 1..v
        BY <2>2 DEF ValidLedger
      <4>2. ASSUME NEW i \in 1..v PROVE i \in 1..Current
        <5>1. v \in Int /\ v <= Current
          BY DEF Current
        <5> QED BY <5>1 DEF Current
      <4> QED BY <1>1, <4>1, <4>2 DEF DbRow
    <3>2. row \in StarterRow
      BY <1>1, <3>1 DEF StarterRow, Stages
    <3>3. starter' = [starter EXCEPT ![p] = row] /\ promised' = promised
          /\ db' = [db EXCEPT !.exists = TRUE]
      BY <1>1, <1>6, <2>2 DEF Open
    <3>4. /\ db' \in DbRow /\ db'.ledger = db.ledger /\ db'.members = db.members
          /\ db'.appended = db.appended /\ db'.attempt = db.attempt /\ db'.claim = db.claim
          /\ db'.previews = db.previews /\ db'.projected = db.projected
      BY <1>1, <3>3 DEF DbRow
    <3>5. Carries(db') /\ ValidLedger(db'.ledger)
      BY <1>1, <2>2, <3>4 DEF Carries, ObjectsTold, ClaimTold
    <3> QED BY <1>1, <2>2, <3>2, <3>3, <3>5, MoveStep
  <2> QED BY <1>6, <2>1, <2>2 DEF Open
<1>7. CASE ApplyMigrations(p)
  <2>1. ASSUME NEW why \in Objections(p), Refuse(p, why)
        PROVE  MigrationsInv' /\ (ValidLedger(db.ledger) \/ UNCHANGED db)
    <3>1. why \in Reasons
      BY <2>1 DEF Objections, Reasons, Applied
    <3> QED BY <1>2, <2>1, <3>1
  <2>2. CASE Objections(p) = {} /\ db' \in Migrated(p) /\ UNCHANGED promised
             /\ starter' = [starter EXCEPT ![p].at = "migrated"]
    <3>1. Carries(db') /\ db'.ledger = 1..Current
      BY <1>1, <2>2, MigratedCarries
    <3>2. ValidLedger(db.ledger)
      BY <2>2 DEF Objections
    <3>3. "migrated" \in Stages
      BY DEF Stages
    <3>4. ValidLedger(db'.ledger)
      BY <3>1, LedgersAreValid
    <3> QED BY <1>1, <1>3, <2>2, <3>1, <3>2, <3>3, <3>4
  <2> QED BY <1>7, <2>1, <2>2 DEF ApplyMigrations, Moves
<1>8. CASE VerifyManifest(p)
  <2>1. CASE starter' = [starter EXCEPT ![p].at = "verified"] /\ UNCHANGED <<db, promised>>
    BY <1>1, <1>3, <2>1 DEF Stages, Carries, ObjectsTold, ClaimTold
  <2>2. CASE Refuse(p, "manifest")
    BY <1>2, <2>2 DEF Reasons
  <2> QED BY <1>8, <2>1, <2>2 DEF VerifyManifest, Moves
<1>9. CASE Mark(p)
  <2>1. starter' = [starter EXCEPT ![p].at = "marked"] /\ promised' = promised
        /\ db' = [db EXCEPT !.marked = TRUE] /\ ValidLedger(db.ledger)
    BY <1>1, <1>9 DEF Mark, Moves
  <2>2. /\ db' \in DbRow /\ db'.ledger = db.ledger /\ db'.members = db.members
        /\ db'.appended = db.appended /\ db'.attempt = db.attempt /\ db'.claim = db.claim
        /\ db'.previews = db.previews /\ db'.projected = db.projected
    BY <1>1, <2>1 DEF DbRow
  <2>3. Carries(db') /\ ValidLedger(db'.ledger) /\ "marked" \in Stages
    BY <1>1, <2>1, <2>2 DEF Carries, ObjectsTold, ClaimTold, Stages
  <2> QED BY <1>1, <1>3, <2>1, <2>3
<1>10. CASE Orphaned(p) \/ Crash(p)
  <2>1. UNCHANGED <<db, promised>> /\ \E to \in Stages : starter' = [starter EXCEPT ![p].at = to]
    BY <1>10 DEF Orphaned, Crash, Moves, Stages
  <2>2. Carries(db') /\ promised' \in BOOLEAN
        /\ (ValidLedger(db'.ledger) \/ UNCHANGED db)
    BY <1>1, <2>1 DEF Carries, ObjectsTold, ClaimTold
  <2> QED BY <1>3, <2>1, <2>2
<1>11. CASE Initialized(p)
  <2>1. UNCHANGED db /\ promised' = TRUE /\ starter' = [starter EXCEPT ![p].at = "initialized"]
    BY <1>11 DEF Initialized, Moves
  <2>2. Carries(db') /\ promised' \in BOOLEAN /\ "initialized" \in Stages
        /\ (ValidLedger(db'.ledger) \/ UNCHANGED db)
    BY <1>1, <2>1 DEF Carries, ObjectsTold, ClaimTold, Stages
  <2> QED BY <1>3, <2>1, <2>2
<1>12. CASE Raise(p)
  BY <1>2, <1>12 DEF Raise, Reasons
<1> QED BY <1>4, <1>5, <1>6, <1>7, <1>8, <1>9, <1>10, <1>11, <1>12
LEMMA MigrationsInvInit ==
    ASSUME MigrationsAssumption, MigrationsInit
    PROVE  MigrationsInv
<1>1. Carries(db)
  BY DatabasesCarry DEF MigrationsInit
<1>2. Idle \in StarterRow /\ ~Idle.created
  BY DEF Idle, StarterRow, Stages, Reasons
<1>3. starter \in [Starters -> StarterRow] /\ \A p \in Starters : ~starter[p].created
  BY <1>2 DEF MigrationsInit
<1>4. Absent.ledger = {}
  BY DEF Absent
<1>5. \A versions : Left(versions).exists = TRUE /\ "exists" \in DOMAIN Left(versions)
  BY DEF Left, Absent
<1>6. db.exists \/ db = Absent
  <2> SUFFICES ASSUME db # Absent PROVE db.exists
    OBVIOUS
  <2>1. PICK versions, left : left = Left(versions)
           /\ \/ db = left
              \/ db = [left EXCEPT !.sound = FALSE]
              \/ db = [left EXCEPT !.exact = FALSE]
              \/ \E a : db = [left EXCEPT !.appended = a]
              \/ \E b : db = [left EXCEPT !.runner = b]
              \/ \E c : db = [left EXCEPT !.claim = c]
              \/ \E s : db = [left EXCEPT !.previews = s]
    <3> HIDE DEF Absent, Left
    <3> QED BY Zenon DEF MigrationsInit, Databases
  <2>2. left.exists = TRUE /\ "exists" \in DOMAIN left
    BY <1>5, <2>1
  <2> QED BY <2>1, <2>2
<1> QED BY <1>1, <1>3, <1>4, <1>6, LedgersAreValid DEF MigrationsInit, MigrationsInv

LEMMA MigrationsInvStep ==
    ASSUME MigrationsAssumption, MigrationsInv, [MigrationsNext]_migrationVars
    PROVE  MigrationsInv' /\ (ValidLedger(db.ledger) \/ UNCHANGED db)
<1>1. ASSUME NEW p \in Starters,
             \/ CreateFixture(p) \/ Preflight(p) \/ Open(p) \/ ApplyMigrations(p)
             \/ VerifyManifest(p) \/ Mark(p) \/ Orphaned(p) \/ Initialized(p)
             \/ Raise(p) \/ Crash(p)
      PROVE  MigrationsInv' /\ (ValidLedger(db.ledger) \/ UNCHANGED db)
  BY <1>1, StarterStep
<1>2. CASE EarlierReleaseWrites
  <2>1. PICK r \in Previews : db' = [db EXCEPT !.previews = @ \cup {r}]
    BY <1>2 DEF EarlierReleaseWrites
  <2>2. db.ledger = 1..25 /\ UNCHANGED <<starter, promised>>
    BY <1>2 DEF EarlierReleaseWrites
  <2>3. Carries(db) /\ db \in DbRow
    BY DEF MigrationsInv, Carries
  <2>4. db.previews \cup {r} \in SUBSET Previews
    BY <2>3 DEF DbRow
  <2>5. /\ db' \in DbRow /\ db'.ledger = db.ledger /\ db'.members = db.members
        /\ db'.appended = db.appended /\ db'.attempt = db.attempt /\ db'.claim = db.claim
    BY <2>1, <2>3, <2>4 DEF DbRow
  <2>6. ValidLedger(db.ledger) /\ ValidLedger(db'.ledger)
    BY <2>2, <2>5, LedgersAreValid
  <2>7. Carries(db')
    <3>1. 26 \notin db'.ledger
      BY <2>2, <2>5
    <3>2. ObjectsTold(db) => ObjectsTold(db')
      BY <2>5 DEF ObjectsTold
    <3>3. ClaimTold(db) => ClaimTold(db')
      BY <2>5 DEF ClaimTold
    <3> QED BY <2>3, <2>5, <3>1, <3>2, <3>3 DEF Carries
  <2> QED BY <2>2, <2>6, <2>7 DEF MigrationsInv, Carries, ObjectsTold, ClaimTold, ValidLedger
<1>3. CASE UNCHANGED migrationVars
  BY <1>3 DEF migrationVars, MigrationsInv, Carries, ObjectsTold, ClaimTold, ValidLedger
<1> QED BY <1>1, <1>2, <1>3 DEF MigrationsNext

LEMMA MigrationsInvHolds ==
    ASSUME MigrationsAssumption
    PROVE  MigrationsSpec => []MigrationsInv
<1>1. MigrationsInit => MigrationsInv
  BY MigrationsInvInit
<1>2. MigrationsInv /\ [MigrationsNext]_migrationVars => MigrationsInv'
  BY MigrationsInvStep
<1> QED BY <1>1, <1>2, PTL DEF MigrationsSpec

\* A database whose ledger tells that it is current has carried its history over, however
\* the starters and a process of the earlier release interleaved, were refused or crashed;
\* no migration runs on what has it already.  And types.
THEOREM HistoriesAreCarried ==
    ASSUME MigrationsAssumption
    PROVE  MigrationsSpec => []HistoryIsCarried
<1>1. MigrationsInv => HistoryIsCarried
  <2> SUFFICES ASSUME MigrationsInv PROVE HistoryIsCarried
    OBVIOUS
  <2>1. Carries(db) /\ db \in DbRow
    BY DEF MigrationsInv, Carries
  <2>2. \A p \in Starters : starter[p] \in StarterRow
    BY DEF MigrationsInv
  <2>3. MigrationsTypeOK
    BY <2>1, <2>2 DEF MigrationsTypeOK, MigrationsInv, DbRow, StarterRow
  <2>4. NoneRunsTwice
    BY <2>2 DEF NoneRunsTwice, StarterRow, Reasons, None
  <2>5. Carried
    <3>1. 2 \in 1..Current /\ 8 \in 1..Current /\ 26 \in 1..Current
      BY DEF Current
    <3> QED BY <2>1, <3>1 DEF Carried, Carries, ObjectsTold, ClaimTold
  <2> QED BY <2>3, <2>4, <2>5 DEF HistoryIsCarried
<1> QED BY <1>1, MigrationsInvHolds, PTL

\* A ledger with a gap, or of a later release, and the database it describes stay as they
\* are through every starter's refusal, cleanup and crash.
THEOREM RejectedStays ==
    ASSUME MigrationsAssumption
    PROVE  MigrationsSpec => RejectedUntouched
<1>1. ASSUME MigrationsInv, [MigrationsNext]_migrationVars,
             \E v \in db.ledger : v > Current \/ (v > 1 /\ v - 1 \notin db.ledger)
      PROVE  UNCHANGED db
  <2>1. ~ValidLedger(db.ledger)
    BY <1>1 DEF ValidLedger, Current
  <2> QED BY <1>1, <2>1, MigrationsInvStep
<1>2. MigrationsInv /\ [MigrationsNext]_migrationVars =>
        [(\E v \in db.ledger : v > Current \/ (v > 1 /\ v - 1 \notin db.ledger))
           => UNCHANGED db]_migrationVars
  BY <1>1
<1> QED BY <1>2, MigrationsInvHolds, PTL DEF MigrationsSpec, RejectedUntouched
=============================================================================
