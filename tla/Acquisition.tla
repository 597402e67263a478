----------------------------- MODULE Acquisition -----------------------------
(***************************************************************************)
(* One acquisition request, from its proposal to its acceptance.  The      *)
(* administrator decides and authorizes one worker session; that worker    *)
(* claims the request once and fills a staging directory; validators who   *)
(* are not the worker read the claim, validate the directory outside of    *)
(* any transaction, and record what they found in a second transaction.    *)
(* The directory is the worker's, who may change it at any time; its       *)
(* contents are their version here, and a version is within the caps or    *)
(* not.                                                                    *)
(***************************************************************************)
EXTENDS Integers

CONSTANTS
    Workers,        \* actors with their sessions, as workers and as validators
    Administrator,  \* who may validate as well
    NoWorker,
    Contents,       \* versions of the staging directory
    Invalid,        \* those the validation refuses, or that exceed the caps
    GrantTtl,
    RequestMaxTime  \* bound on the clock

\* A version that is staged or accepted is told from 0, which is none.
ASSUME AcquisitionAssumption ==
    /\ 0 \notin Contents /\ Invalid \subseteq Contents
    /\ NoWorker \notin Workers
    /\ GrantTtl \in Nat /\ RequestMaxTime \in Nat \ {0}

VARIABLES
    requestClock,
    request,        \* max_acquisition_current: the request's state
    workerGrant,    \* max_acquisition_worker_grants: worker and expiry, or NoWorker
    consumed,       \* the grant's consumption: the worker, or NoWorker
    claim,          \* max_acquisition_claims: the worker, or NoWorker
    validation,     \* max_acquisition_validation_receipts: what was validated, or 0
    stage,          \* max_acquisition_stage_receipts: what was staged, or 0
    accepted,       \* what the acceptance event names, or 0
    folder,         \* the staging directory
    found           \* what each validator has validated and not recorded, or 0

acquisitionVars == <<requestClock, request, workerGrant, consumed, claim, validation, stage,
                     accepted, folder, found>>
receipts == <<validation, stage>>
authority == <<workerGrant, consumed, claim>>

Validators == Workers \cup {Administrator}
RequestStates ==
    {"proposed", "approved", "claimed", "staged", "accepted", "rejected", "cancelled"}

AcquisitionTypeOK ==
    /\ requestClock \in 1..RequestMaxTime
    /\ request \in RequestStates
    /\ workerGrant \in [worker : Workers \cup {NoWorker}, expires : Nat]
    /\ consumed \in Workers \cup {NoWorker}
    /\ claim \in Workers \cup {NoWorker}
    /\ {validation, stage, accepted, folder} \subseteq Contents \cup {0}
    /\ found \in [Validators -> Contents \cup {0}]

AcquisitionInit ==
    /\ requestClock = 1
    /\ request = "proposed"
    /\ workerGrant = [worker |-> NoWorker, expires |-> 0]
    /\ consumed = NoWorker /\ claim = NoWorker
    /\ validation = 0 /\ stage = 0 /\ accepted = 0
    /\ folder \in Contents
    /\ found = [v \in Validators |-> 0]

AcquisitionTick ==
    /\ requestClock < RequestMaxTime
    /\ requestClock' = requestClock + 1
    /\ UNCHANGED <<request, authority, receipts, accepted, folder, found>>

(***************************************************************************)
(* The administrator                                                       *)
(***************************************************************************)
Target == [approve |-> "approved", reject |-> "rejected", cancel |-> "cancelled",
           accept |-> "accepted"]

\* Mutant: what has been claimed can be cancelled as well.
FromAny(decision) ==
    CASE decision = "approve" -> {"proposed"}
      [] decision = "reject"  -> {"proposed", "approved", "staged"}
      [] decision = "cancel"  -> {"proposed", "approved", "claimed"}
      [] decision = "accept"  -> {"staged"}

\* The states a decision is taken in; nothing but a validation leaves claimed.
From(decision) ==
    CASE decision = "approve" -> {"proposed"}
      [] decision = "reject"  -> {"proposed", "approved", "staged"}
      [] decision = "cancel"  -> {"proposed", "approved"}
      [] decision = "accept"  -> {"staged"}

\* Acceptance names the contents it accepts, which must be the staged ones.
Decide(decision, contents) ==
    /\ request \in From(decision)
    /\ decision = "accept" => contents = stage
    /\ request' = Target[decision]
    /\ accepted' = IF decision = "accept" THEN contents ELSE accepted
    /\ UNCHANGED <<requestClock, authority, receipts, folder, found>>

\* One grant for a request; asking again returns it, with the expiry it has.
AuthorizeWorker(w) ==
    /\ request = "approved"
    /\ workerGrant.worker = NoWorker
    /\ workerGrant' = [worker |-> w, expires |-> requestClock + GrantTtl]
    /\ UNCHANGED <<requestClock, request, consumed, claim, receipts, accepted, folder, found>>

(***************************************************************************)
(* The worker and the validators                                           *)
(***************************************************************************)
ClaimRequest(w) ==
    /\ claim = NoWorker
    /\ request = "approved"
    /\ workerGrant.worker = w /\ requestClock < workerGrant.expires
    /\ consumed' = w
    /\ claim' = w
    /\ request' = "claimed"
    /\ UNCHANGED <<requestClock, workerGrant, receipts, accepted, folder, found>>

Fill(contents) ==
    /\ claim # NoWorker
    /\ contents # folder
    /\ folder' = contents
    /\ UNCHANGED <<requestClock, request, authority, receipts, accepted, found>>

\* What validate_staging_run finds in a directory: it follows the caps, or is refused.
Valid(contents) == contents \notin Invalid

\* The first half of validate_and_stage: claim and caps are read, the directory validated.
Validate(v) ==
    /\ request = "claimed" /\ claim # v
    /\ Valid(folder)
    /\ found' = [found EXCEPT ![v] = folder]
    /\ UNCHANGED <<requestClock, request, authority, receipts, accepted, folder>>

Fresh == validation = 0 /\ stage = 0

\* The second half.  One that finds receipts changes nothing: it returns them if it has
\* validated the same contents, and raises otherwise.
Record(v) ==
    /\ found[v] # 0
    /\ found' = [found EXCEPT ![v] = 0]
    /\ IF request \in {"claimed", "staged"} /\ claim # v /\ Fresh
       THEN /\ validation' = found[v]
            /\ stage' = found[v]
            /\ request' = "staged"
       ELSE UNCHANGED <<request, receipts>>
    /\ UNCHANGED <<requestClock, authority, accepted, folder>>

(***************************************************************************)
(* Specification                                                           *)
(***************************************************************************)
AcquisitionNext ==
    \/ AcquisitionTick
    \/ \E decision \in DOMAIN Target, contents \in Contents : Decide(decision, contents)
    \/ \E w \in Workers : AuthorizeWorker(w) \/ ClaimRequest(w)
    \/ \E contents \in Contents : Fill(contents)
    \/ \E v \in Validators : Validate(v) \/ Record(v)

AcquisitionSpec == AcquisitionInit /\ [][AcquisitionNext]_acquisitionVars

(***************************************************************************)
(* Properties                                                              *)
(***************************************************************************)
Granted == workerGrant.worker # NoWorker
Unclaimed == consumed = NoWorker /\ claim = NoWorker
Claimed == Granted /\ claim # NoWorker /\ claim = consumed /\ consumed = workerGrant.worker
Staged == Claimed /\ validation # 0 /\ stage # 0

\* What verify recomputes of a request: the records that its state implies, and no others;
\* each under the worker that the grant names; and the
\* accepted contents are the staged ones, which are those that were validated.
AcquisitionVerified ==
    /\ AcquisitionTypeOK
    /\ request = "proposed" => ~Granted
    /\ request \in {"proposed", "approved", "cancelled"} => Unclaimed /\ Fresh
    /\ request = "claimed" => Claimed /\ Fresh
    /\ request \in {"staged", "accepted"} => Staged
    /\ request = "rejected" => (Unclaimed /\ Fresh) \/ Staged
    /\ stage = validation /\ Valid(validation)
    /\ request = "accepted" => accepted = stage
=============================================================================
