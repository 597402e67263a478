----------------------------- MODULE CoreService -----------------------------
(***************************************************************************)
(* The research database behind the MCP server and the administrator's     *)
(* command line: projects with their sources, tokens that prove an exact   *)
(* quote, evidence made from them, research items that supersede each      *)
(* other, and the requests an administrator decides.  Every operation is   *)
(* one BEGIN IMMEDIATE transaction.  Content and passages of a document    *)
(* never change, its source version may.  Items are numbered in the order  *)
(* of their creation.  Notes, hypotheses, objections and reports differ in *)
(* what they may supersede and link to, and are otherwise of one kind; a   *)
(* session is bound to the project its items are in.                       *)
(***************************************************************************)
EXTENDS Integers, Sequences, FiniteSets

CONSTANTS
    Projects,
    Documents,
    Versions,       \* source versions
    NewVersion,     \* the version of a document when it is ingested
    Sessions,       \* MCP sessions, each with its own actor
    MaxWrites,      \* max_writes_per_session
    MaxTokens,
    MaxRows,        \* bound on the tokens, items and requests together
    MaxRequests

VersionAssumption == NewVersion \in Versions

VARIABLES
    active,     \* projects that are not archived
    sources,    \* project_sources
    version,    \* documents: the source version
    tokens,     \* verification_tokens
    evidence,   \* verified_evidence with the latest of evidence_status_history
    items,      \* research_items with their links, and by which of agent_sessions
    requests    \* approval_requests_v2

vars == <<active, sources, version, tokens, evidence, items, requests>>

Kinds == {"checkpoint", "other"}
Decided == {"accepted", "rejected"}

TypeOK ==
    /\ active \subseteq Projects
    /\ sources \subseteq Projects \X Documents
    /\ version \in [Documents -> Versions]
    /\ tokens \in Seq([session : Sessions, project : Projects, document : Documents,
                       version : Versions, expired : BOOLEAN, consumed : BOOLEAN])
    /\ evidence \in Seq([token : Nat, by : Sessions, document : Documents, version : Versions,
                         status : {"candidate"} \cup Decided])
    /\ items \in Seq([project : Projects, by : Sessions, kind : Kinds,
                      status : {"draft", "candidate", "under_review"} \cup Decided,
                      supersedes : Nat, evidence : SUBSET Nat])
    /\ requests \in Seq([project : Projects, target : {"item", "evidence"}, id : Nat,
                         status : {"pending", "approved", "rejected"}])

Init ==
    /\ active = Projects
    /\ sources = {}
    /\ version = [d \in Documents |-> NewVersion]
    /\ tokens = <<>> /\ evidence = <<>> /\ items = <<>> /\ requests = <<>>

Rows == Len(tokens) + Len(items) + Len(requests)

(***************************************************************************)
(* The administrator's projects and sources                                *)
(***************************************************************************)
ArchiveProject(p) ==
    /\ p \in active
    /\ active' = active \ {p}
    /\ UNCHANGED <<sources, version, tokens, evidence, items, requests>>

\* A document another project has is shared with it.  A manifest is one
\* ingestion per entry, so that what precedes a bad entry stays.
IngestFile(p, d) ==
    /\ p \in active
    /\ sources' = sources \cup {<<p, d>>}
    /\ UNCHANGED <<active, version, tokens, evidence, items, requests>>

MetadataUpdate(p, d, v) ==
    /\ p \in active /\ <<p, d>> \in sources
    /\ version' = [version EXCEPT ![d] = v]
    /\ UNCHANGED <<active, sources, tokens, evidence, items, requests>>

(***************************************************************************)
(* Quotes and evidence                                                     *)
(***************************************************************************)

\* A quote that is no substring of the passage gets no token.
VerifyQuote(s, p, d) ==
    /\ Len(tokens) < MaxTokens
    /\ Rows < MaxRows
    /\ p \in active /\ <<p, d>> \in sources
    /\ tokens' = Append(tokens, [session |-> s, project |-> p, document |-> d,
                                 version |-> version[d], expired |-> FALSE, consumed |-> FALSE])
    /\ UNCHANGED <<active, sources, version, evidence, items, requests>>

\* Mutant: whether the token was consumed is left to its expiry.
SpendableTwice(s, t) == tokens[t].session = s /\ ~tokens[t].expired

Spendable(s, t) ==
    /\ tokens[t].session = s
    /\ ~tokens[t].consumed
    /\ ~tokens[t].expired

\* The session's project is not asked, nor its quota of writes.
SubmitVerifiedEvidence(s, t) ==
    LET token == tokens[t] IN
    /\ token.project \in active /\ <<token.project, token.document>> \in sources
    /\ Spendable(s, t)
    /\ version[token.document] = token.version
    /\ evidence' = Append(evidence, [token |-> t, by |-> s, document |-> token.document,
                                     version |-> token.version, status |-> "candidate"])
    /\ tokens' = [tokens EXCEPT ![t].consumed = TRUE]
    /\ UNCHANGED <<active, sources, version, items, requests>>

\* Time passes until a token has expired.
Expire(t) ==
    /\ ~tokens[t].expired
    /\ tokens' = [tokens EXCEPT ![t].expired = TRUE]
    /\ UNCHANGED <<active, sources, version, evidence, items, requests>>

\* An expired token is marked as if it had been used.
CleanupExpiredTokens ==
    /\ tokens' = [t \in DOMAIN tokens |->
                    [tokens[t] EXCEPT !.consumed = @ \/ tokens[t].expired]]
    /\ UNCHANGED <<active, sources, version, evidence, items, requests>>

(***************************************************************************)
(* Research items                                                          *)
(***************************************************************************)

\* The audited writes of a session: its items, and the evidence it submitted.
Writes(s) ==
    Cardinality({i \in DOMAIN items : items[i].by = s})
      + Cardinality({e \in DOMAIN evidence : evidence[e].by = s})

WithinQuota(s) == Writes(s) < MaxWrites

\* The first item a session writes binds it to the item's project.
TouchSession(s, p) == \A i \in DOMAIN items : items[i].by = s => items[i].project = p

InScope(p, e) == <<p, evidence[e].document>> \in sources

Successors(i) == {j \in DOMAIN items : items[j].supersedes = i}

IsCheckpoint(i) == items[i].kind = "checkpoint"

CurrentCheckpoints(p) ==
    {i \in DOMAIN items : /\ items[i].project = p /\ IsCheckpoint(i)
                          /\ items[i].status # "rejected"
                          /\ Successors(i) = {}}

CrossKindSuccessors(p) ==
    {i \in DOMAIN items : /\ items[i].project = p /\ IsCheckpoint(i)
                          /\ \E j \in Successors(i) : ~IsCheckpoint(j)}

\* Mutant: the checkpoint named may be any that is the project's.
SuccessorOfAny(p, prior) ==
    \/ prior = 0 /\ CurrentCheckpoints(p) = {}
    \/ prior \in DOMAIN items /\ items[prior].project = p /\ IsCheckpoint(prior)

\* A first checkpoint supersedes nothing, every other one the current one.
ValidCheckpointSuccessor(p, prior) ==
    /\ CrossKindSuccessors(p) = {}
    /\ CurrentCheckpoints(p) = IF prior = 0 THEN {} ELSE {prior}

\* What is no checkpoint may supersede what is none, if it is the project's.
ValidSuccessor(p, prior) ==
    prior # 0 => /\ prior \in DOMAIN items
                 /\ items[prior].project = p
                 /\ ~IsCheckpoint(prior)

CreateItem(s, p, kind, status, prior, links) ==
    /\ Rows < MaxRows
    /\ WithinQuota(s)
    /\ p \in active
    /\ IF kind = "checkpoint" THEN ValidCheckpointSuccessor(p, prior)
                              ELSE ValidSuccessor(p, prior)
    /\ TouchSession(s, p)
    /\ \A e \in links : InScope(p, e)
    /\ items' = Append(items, [project |-> p, by |-> s, kind |-> kind, status |-> status,
                               supersedes |-> prior, evidence |-> links])
    /\ UNCHANGED <<active, sources, version, tokens, evidence, requests>>

SaveResearchNote(s, p, prior) ==
    \/ prior = 0 /\ CreateItem(s, p, "other", "draft", prior, {})
    \/ CreateItem(s, p, "checkpoint", "draft", prior, {})

SubmitHypothesis(s, p, status, prior) == CreateItem(s, p, "other", status, prior, {})

SubmitObjection(s, p, status, target) ==
    /\ target \in DOMAIN items /\ items[target].project = p
    /\ CreateItem(s, p, "other", status, 0, {})

\* A report's evidence has to be in the project, in whatever status.
SubmitResearchReport(s, p, status, prior, links) ==
    CreateItem(s, p, "other", status, prior, links)

(***************************************************************************)
(* Reviews                                                                 *)
(***************************************************************************)
Pending(p, target, id) ==
    {r \in DOMAIN requests : /\ requests[r].project = p /\ requests[r].target = target
                             /\ requests[r].id = id /\ requests[r].status = "pending"}

NewRequest(p, target, id) ==
    /\ Len(requests) < MaxRequests /\ Rows < MaxRows
    /\ requests' = Append(requests, [project |-> p, target |-> target, id |-> id,
                                     status |-> "pending"])

\* A target that has a pending request in the project is not asked for again.
RequestItemApproval(s, i) ==
    LET p == items[i].project IN
    /\ p \in active /\ WithinQuota(s)
    /\ Pending(p, "item", i) = {}
    /\ items[i].status = "candidate"
    /\ NewRequest(p, "item", i)
    /\ items' = [items EXCEPT ![i].status = "under_review"]
    /\ UNCHANGED <<active, sources, version, tokens, evidence>>

RequestEvidenceApproval(s, p, e) ==
    /\ p \in active /\ WithinQuota(s) /\ InScope(p, e)
    /\ Pending(p, "evidence", e) = {}
    /\ evidence[e].status = "candidate"
    /\ NewRequest(p, "evidence", e)
    /\ UNCHANGED <<active, sources, version, tokens, evidence, items>>

NewStatus(approve, status) == IF approve THEN "accepted" ELSE "rejected"

\* Evidence whose status was decided keeps it.
Undecided(e) == evidence[e].status = "candidate"

\* An item that was superseded meanwhile can be rejected only; decided
\* evidence is immutable, so that a second project's request on it is refused
\* whatever the decision.
DecideApproval(r, approve) ==
    LET request == requests[r] IN
    /\ request.status = "pending"
    /\ requests' = [requests EXCEPT ![r].status = IF approve THEN "approved" ELSE "rejected"]
    /\ \/ /\ request.target = "item"
          /\ approve => Successors(request.id) = {}
          /\ items' = [items EXCEPT ![request.id].status = NewStatus(approve, @)]
          /\ UNCHANGED evidence
       \/ /\ request.target = "evidence"
          /\ Undecided(request.id)
          /\ evidence' = [evidence EXCEPT ![request.id].status = NewStatus(approve, @)]
          /\ UNCHANGED items
    /\ UNCHANGED <<active, sources, version, tokens>>

Next ==
    \/ CleanupExpiredTokens
    \/ \E t \in DOMAIN tokens : Expire(t)
    \/ \E p \in Projects : ArchiveProject(p)
    \/ \E p \in Projects, d \in Documents :
         \/ IngestFile(p, d)
         \/ \E v \in Versions : MetadataUpdate(p, d, v)
    \/ \E s \in Sessions :
         \/ \E p \in Projects, d \in Documents : VerifyQuote(s, p, d)
         \/ \E t \in DOMAIN tokens : SubmitVerifiedEvidence(s, t)
         \/ \E i \in DOMAIN items : RequestItemApproval(s, i)
         \/ \E p \in Projects, e \in DOMAIN evidence : RequestEvidenceApproval(s, p, e)
         \/ \E p \in Projects, prior \in 0..Len(items) :
              \/ SaveResearchNote(s, p, prior)
              \/ \E status \in {"draft", "candidate"} :
                   \/ SubmitHypothesis(s, p, status, prior)
                   \/ SubmitObjection(s, p, status, prior)
                   \/ \E links \in SUBSET DOMAIN evidence :
                        SubmitResearchReport(s, p, status, prior, links)
    \/ \E r \in DOMAIN requests, approve \in BOOLEAN : DecideApproval(r, approve)

Spec == Init /\ [][Next]_vars

(***************************************************************************)
(* Properties                                                              *)
(***************************************************************************)

\* A project has at most one current checkpoint, whatever sessions write and
\* supersede beside each other, and what succeeds a checkpoint is a checkpoint;
\* every variable has its type.
OneCurrentCheckpoint ==
    TypeOK /\ \A p \in Projects :
      /\ Cardinality(CurrentCheckpoints(p)) <= 1
      /\ CrossKindSuccessors(p) = {}

\* A token makes one piece of evidence at most, across replays and cleanups; it
\* makes it for the session that verified the quote, before the token expires,
\* and of the version that was verified and that the document has then, however
\* often the source changed in between.
OneEvidencePerToken ==
    [][\A e \in DOMAIN evidence' \ DOMAIN evidence :
         LET made == evidence'[e]
             token == tokens[made.token]
         IN /\ \A f \in DOMAIN evidence : evidence[f].token # made.token
            /\ made.by = token.session /\ ~token.expired
            /\ made.version = token.version /\ made.version = version[made.document]]_vars

Requests(target, id) ==
    {r \in DOMAIN requests : requests[r].target = target /\ requests[r].id = id}

Tells(r) == [pending |-> "under_review", approved |-> "accepted",
             rejected |-> "rejected"][requests[r].status]

\* An item is under review, accepted or rejected exactly as its one request
\* says.  Evidence is what the one project decided that came first, and only
\* requests of other projects can be left over.
ReviewsAreTold ==
    /\ \A i \in DOMAIN items :
         IF items[i].status \in {"draft", "candidate"}
         THEN Requests("item", i) = {}
         ELSE \E r \in DOMAIN requests : Requests("item", i) = {r} /\ Tells(r) = items[i].status
    /\ \A e \in DOMAIN evidence :
         LET told == {r \in Requests("evidence", e) : requests[r].status # "pending"}
             left == Requests("evidence", e) \ told
         IN /\ \A r \in told : told = {r} /\ Tells(r) = evidence[e].status
            /\ evidence[e].status = "candidate" <=> told = {}
            /\ \A q, r \in left \cup told : requests[q].project = requests[r].project => q = r

\* The tool contract: a report is no way around the status of evidence, so
\* that it is not written over evidence the administrator has rejected.
ReportsHeedEvidence ==
    [][\A i \in DOMAIN items' \ DOMAIN items : \A e \in items'[i].evidence :
         evidence[e].status # "rejected"]_vars

\* Every request can be decided one way or the other.
PendingIsDecidable ==
    \A r \in DOMAIN requests :
      requests[r].status = "pending" /\ requests[r].target = "evidence"
        => evidence[requests[r].id].status = "candidate"
==============================================================================
