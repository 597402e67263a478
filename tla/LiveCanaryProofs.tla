-------------------------- MODULE LiveCanaryProofs --------------------------
(***************************************************************************)
(* Proofs about LiveCanary, for any claims, executors and bounds.          *)
(***************************************************************************)
EXTENDS LiveCanary, FiniteSetTheorems, TLAPS

(***************************************************************************)
(* The rows of the executors                                               *)
(***************************************************************************)
Places == {"idle", "done"} \cup Working \cup Closing

Row == [pc : Places, claim : {0} \cup Claims, holds : BOOLEAN, reached : BOOLEAN]

\* What the lemmas about a step need to know of the types.
RowTyped ==
    /\ exec \in [Executors -> Row]
    /\ approval \in [Claims -> [state : {"none", "active", "revoked", "consumed"}, expires : Nat]]
    /\ slot \in [state : {"none", "prepared", "send_started", "recorded", "settled", "unknown",
                          "cancelled"}, by : {0} \cup Claims]
    /\ sent \in [Claims -> 0..2]
    /\ DOMAIN permit = Claims /\ DOMAIN source = Claims

\* Before the permit an executor holds nothing.
Early == {"idle", "done", "loading", "loaded"}

\* With a permit in hand, before the request.
Unsent == {"permitted", "sourced", "granted", "slotted", "started", "armed", "crossed",
           "audited"}

\* With the dispatch slot in hand.
Slotted == {"slotted", "started", "armed", "crossed", "audited", "answered", "recorded",
            "settled"}

\* What an executor holds was its claim's approval.
HoldsRow(e) ==
    /\ exec[e].pc \notin {"idle", "done"} => Of(e) \in Claims
    /\ exec[e].pc \in Early => ~exec[e].holds
    /\ exec[e].pc \in Working \ {"loading", "loaded"} => exec[e].holds
    /\ exec[e].holds => Of(e) \in Claims /\ approval[Of(e)].state = "consumed"

\* The dispatch slot is at the place of the executor that has it.
SlotRow(e) ==
    /\ exec[e].pc \in Slotted => slot.by = Of(e)
    /\ exec[e].pc = "slotted" => slot.state = "prepared"
    /\ exec[e].pc \in {"started", "armed", "crossed", "audited", "answered"} =>
         slot.state = "send_started"
    /\ exec[e].pc = "recorded" => slot.state = "recorded" /\ record = "recorded"
    /\ exec[e].pc = "settled" => slot.state = "settled" /\ record = "attested"

\* No request of the claim has left before the boundary, nor when the
\* executor is about to close it as one that did not; and the permit says
\* that the boundary was crossed, the event that it was written.
SentRow(e) ==
    /\ exec[e].pc \in Unsent => sent[Of(e)] = 0
    /\ exec[e].pc \in {"crossed", "audited", "answered", "recorded", "settled"} =>
         permit[Of(e)] = "send_started"
    /\ exec[e].pc = "audited" => network
    /\ exec[e].pc \in {"closing", "concluding"} /\ exec[e].holds /\ ~exec[e].reached =>
         sent[Of(e)] = 0

\* The papers of a claim tell of its request, and of the slot it took.
ClaimInv(c) ==
    /\ source[c] = "consumed" => slot.state # "none" /\ slot.by = c
    /\ permit[c] # "none" => approval[c].state = "consumed"
    /\ sent[c] > 0 =>
         /\ network /\ slot.state # "none" /\ slot.by = c /\ sent[c] = 1
         /\ permit[c] \in {"send_started", "succeeded", "unknown"}
    /\ permit[c] = "succeeded" => record = "attested" /\ slot = [state |-> "settled", by |-> c]

\* An approval is used up by one executor.
HoldersDiffer ==
    \A e, f \in Executors : exec[e].holds /\ exec[f].holds /\ Of(e) = Of(f) => e = f

\* A pause takes the lease away.
PausedHoldsNothing == ~running => lease.expires = 0

\* What the theorems rest on.
CanaryInv ==
    /\ TypeOK
    /\ \A e \in Executors : HoldsRow(e) /\ SlotRow(e) /\ SentRow(e)
    /\ \A c \in Claims : ClaimInv(c)
    /\ HoldersDiffer
    /\ PausedHoldsNothing

\* What a step of e may do to the slot, to the records of the call, and to the
\* sources.
SlotMove(e) ==
    /\ slot' # slot =>
         /\ slot'.state # "none" /\ slot.state # "settled"
         /\ \/ slot.state = "none"
            \/ exec[e].holds /\ slot.by = Of(e) /\ slot'.by = slot.by
    /\ record' # record => exec[e].pc \in Slotted /\ record # "attested"
    /\ network => network'
    /\ \A c \in Claims : source'[c] = "consumed" /\ source[c] # "consumed" =>
         c = Of(e) /\ exec[e].pc = "started" /\ slot' = slot

\* What it may do to the request, permit and approval of a claim.
SentMove(e, c) ==
    /\ sent'[c] # sent[c] =>
         /\ c = Of(e) /\ exec[e].pc = "audited" /\ sent'[c] = sent[c] + 1
         /\ UNCHANGED <<permit, slot, network>>
    /\ permit'[c] # permit[c] =>
         /\ c = Of(e)
         /\ \/ /\ exec[e].pc = "loaded" /\ permit'[c] = "ready"
               /\ approval[c].state = "active" /\ approval'[c].state = "consumed"
            \/ /\ exec[e].pc = "armed" /\ permit[c] = "ready" /\ permit'[c] = "send_started"
               /\ Alive(lease.expires)
            \/ exec[e].pc = "settled" /\ permit'[c] = "succeeded" /\ UNCHANGED <<slot, record>>
            \/ /\ exec[e].pc = "concluding" /\ exec[e].holds
               /\ permit[c] \in {"ready", "send_started"}
               /\ permit'[c] = IF exec[e].reached THEN "unknown" ELSE "aborted"
    /\ approval[c].state = "consumed" => approval'[c].state = "consumed"

\* The type of the rows.
ExecTyped == exec \in [Executors -> Row]

\* The other types of TypeOK, but that of the runner's call.
PapersTyped ==
    /\ now \in 0..MaxTime /\ running \in BOOLEAN
    /\ lease \in [token : 0..MaxToken, expires : Nat]
    /\ claim \in [Claims -> [token : 0..MaxToken, expires : Nat, released : BOOLEAN]]
    /\ authority \in [Claims -> Nat]
    /\ approval \in [Claims -> [state : {"none", "active", "revoked", "consumed"}, expires : Nat]]
    /\ permit \in [Claims -> {"none", "ready", "send_started", "succeeded", "unknown", "aborted",
                              "revoked"}]
    /\ source \in [Claims -> {"none", "issued", "consumed", "revoked"}]
    /\ slot \in [state : {"none", "prepared", "send_started", "recorded", "settled", "unknown",
                          "cancelled"}, by : {0} \cup Claims]
    /\ network \in BOOLEAN
    /\ record \in {"none", "recorded", "attested"}
    /\ sent \in [Claims -> 0..2]

RunnerTyped == runner \in {"open", "not sent"}

(***************************************************************************)
(* A step of an executor                                                   *)
(***************************************************************************)

\* An executor's step is its own.
LEMMA OthersStay ==
    ASSUME NEW e \in Executors, Executes(e), RowTyped, NEW f \in Executors, f # e
    PROVE  exec'[f] = exec[f]
<1> USE DEF runVars, paperVars, callVars, At, Goes, RowTyped
<1>1. ASSUME NEW k \in Claims, Begin(e, k)
      PROVE  exec'[f] = exec[f]
  BY <1>1 DEF Begin
<1>2. ASSUME NEW answered \in BOOLEAN, Send(e, answered)
      PROVE  exec'[f] = exec[f]
  BY <1>2 DEF Send
<1>3. ASSUME NEW readable \in BOOLEAN, Classify(e, readable)
      PROVE  exec'[f] = exec[f]
  BY <1>3 DEF Classify, Evidence
<1>4. CASE Load(e)
  BY <1>4 DEF Load, Rebuilt
<1>5. CASE ConsumeAndPrepare(e)
  BY <1>5 DEF ConsumeAndPrepare
<1>6. CASE IssueSource(e)
  BY <1>6 DEF IssueSource
<1>7. CASE Grant(e)
  BY <1>7 DEF Grant
<1>8. CASE Prepare(e)
  BY <1>8 DEF Prepare
<1>9. CASE Start(e)
  BY <1>9 DEF Start
<1>10. CASE ConsumeSource(e)
  BY <1>10 DEF ConsumeSource
<1>11. CASE Cross(e)
  BY <1>11 DEF Cross
<1>12. CASE Record(e)
  BY <1>12 DEF Record
<1>13. CASE Settle(e)
  BY <1>13 DEF Settle
<1>14. CASE Succeed(e)
  BY <1>14 DEF Succeed
<1>15. CASE Refused(e)
  BY <1>15 DEF Refused
<1>16. CASE Fails(e)
  BY <1>16 DEF Fails
<1>17. CASE CloseProvider(e)
  BY <1>17 DEF CloseProvider
<1>18. CASE RecordOutcome(e)
  BY <1>18 DEF RecordOutcome, Outcome
<1>19. CASE AbortRunner(e)
  <2>1. /\ exec[e].pc = "aborting" /\ exec' = [exec EXCEPT ![e].pc = "pausing"]
        /\ UNCHANGED <<runVars, claim, paperVars, permit, slot, network, record, sent>>
    BY <1>19 DEF AbortRunner, At, Goes
  <2> QED BY <2>1
<1>20. CASE PauseRun(e)
  BY <1>20 DEF PauseRun, Paused
<1>21. CASE Release(e)
  BY <1>21 DEF Release
<1>22. CASE Skip(e)
  BY <1>22 DEF Skip
<1>23. CASE AuditCrossing(e)
  BY <1>23 DEF AuditCrossing
<1> QED BY <1>1, <1>2, <1>3, <1>4, <1>5, <1>6, <1>7, <1>8, <1>9, <1>10, <1>11,
           <1>12, <1>13, <1>14, <1>15, <1>16, <1>17, <1>18, <1>19, <1>20, <1>21,
           <1>22, <1>23 DEF Executes

\* An executor holds a permit from consume_and_prepare until it is done.
LEMMA OwnRowStep ==
    ASSUME NEW e \in Executors, Executes(e), RowTyped, HoldsRow(e)
    PROVE  HoldsRow(e)'
<1> USE DEF runVars, paperVars, callVars, At, Goes, Of, Resting, Done, RowTyped,
            Row, Early, Working, HoldsRow
<1>1. ASSUME NEW k \in Claims, Begin(e, k)
      PROVE  HoldsRow(e)'
  BY <1>1 DEF Begin
<1>2. ASSUME NEW answered \in BOOLEAN, Send(e, answered)
      PROVE  HoldsRow(e)'
  BY <1>2 DEF Send
<1>3. ASSUME NEW readable \in BOOLEAN, Classify(e, readable)
      PROVE  HoldsRow(e)'
  BY <1>3 DEF Classify, Evidence
<1>4. CASE Load(e)
  BY <1>4 DEF Load, Rebuilt
<1>5. CASE ConsumeAndPrepare(e)
  BY <1>5 DEF ConsumeAndPrepare
<1>6. CASE IssueSource(e)
  BY <1>6 DEF IssueSource
<1>7. CASE Grant(e)
  BY <1>7 DEF Grant
<1>8. CASE Prepare(e)
  BY <1>8 DEF Prepare
<1>9. CASE Start(e)
  BY <1>9 DEF Start
<1>10. CASE ConsumeSource(e)
  BY <1>10 DEF ConsumeSource
<1>11. CASE Cross(e)
  BY <1>11 DEF Cross
<1>12. CASE Record(e)
  BY <1>12 DEF Record
<1>13. CASE Settle(e)
  BY <1>13 DEF Settle
<1>14. CASE Succeed(e)
  BY <1>14 DEF Succeed
<1>15. CASE Refused(e)
  BY <1>15 DEF Refused
<1>16. CASE Fails(e)
  BY <1>16 DEF Fails
<1>17. CASE CloseProvider(e)
  BY <1>17 DEF CloseProvider
<1>18. CASE RecordOutcome(e)
  BY <1>18 DEF RecordOutcome, Outcome
<1>19. CASE AbortRunner(e)
  <2>1. /\ exec[e].pc = "aborting" /\ exec' = [exec EXCEPT ![e].pc = "pausing"]
        /\ UNCHANGED <<runVars, claim, paperVars, permit, slot, network, record, sent>>
    BY <1>19 DEF AbortRunner, At, Goes
  <2> QED BY <2>1
<1>20. CASE PauseRun(e)
  BY <1>20 DEF PauseRun, Paused
<1>21. CASE Release(e)
  BY <1>21 DEF Release
<1>22. CASE Skip(e)
  BY <1>22 DEF Skip
<1>23. CASE AuditCrossing(e)
  BY <1>23 DEF AuditCrossing
<1> QED BY <1>1, <1>2, <1>3, <1>4, <1>5, <1>6, <1>7, <1>8, <1>9, <1>10, <1>11,
           <1>12, <1>13, <1>14, <1>15, <1>16, <1>17, <1>18, <1>19, <1>20, <1>21,
           <1>22, <1>23 DEF Executes

\* It gets it by using up an approval of its claim.
LEMMA TakesStep ==
    ASSUME NEW e \in Executors, Executes(e), RowTyped, HoldsRow(e), exec'[e].holds
    PROVE  /\ exec[e].holds \/ (exec[e].pc = "loaded" /\ approval[Of(e)].state = "active")
           /\ Of(e)' = Of(e)
<1> USE DEF runVars, paperVars, callVars, At, Goes, Of, Resting, Done, RowTyped,
            Row, HoldsRow, Early
<1>1. ASSUME NEW k \in Claims, Begin(e, k)
      PROVE  /\ exec[e].holds \/ (exec[e].pc = "loaded" /\ approval[Of(e)].state = "active")
             /\ Of(e)' = Of(e)
  BY <1>1 DEF Begin
<1>2. ASSUME NEW answered \in BOOLEAN, Send(e, answered)
      PROVE  /\ exec[e].holds \/ (exec[e].pc = "loaded" /\ approval[Of(e)].state = "active")
             /\ Of(e)' = Of(e)
  BY <1>2 DEF Send
<1>3. ASSUME NEW readable \in BOOLEAN, Classify(e, readable)
      PROVE  /\ exec[e].holds \/ (exec[e].pc = "loaded" /\ approval[Of(e)].state = "active")
             /\ Of(e)' = Of(e)
  BY <1>3 DEF Classify, Evidence
<1>4. CASE Load(e)
  BY <1>4 DEF Load, Rebuilt
<1>5. CASE ConsumeAndPrepare(e)
  BY <1>5 DEF ConsumeAndPrepare
<1>6. CASE IssueSource(e)
  BY <1>6 DEF IssueSource
<1>7. CASE Grant(e)
  BY <1>7 DEF Grant
<1>8. CASE Prepare(e)
  BY <1>8 DEF Prepare
<1>9. CASE Start(e)
  BY <1>9 DEF Start
<1>10. CASE ConsumeSource(e)
  BY <1>10 DEF ConsumeSource
<1>11. CASE Cross(e)
  BY <1>11 DEF Cross
<1>12. CASE Record(e)
  BY <1>12 DEF Record
<1>13. CASE Settle(e)
  BY <1>13 DEF Settle
<1>14. CASE Succeed(e)
  BY <1>14 DEF Succeed
<1>15. CASE Refused(e)
  BY <1>15 DEF Refused
<1>16. CASE Fails(e)
  BY <1>16 DEF Fails
<1>17. CASE CloseProvider(e)
  BY <1>17 DEF CloseProvider
<1>18. CASE RecordOutcome(e)
  BY <1>18 DEF RecordOutcome, Outcome
<1>19. CASE AbortRunner(e)
  <2>1. /\ exec[e].pc = "aborting" /\ exec' = [exec EXCEPT ![e].pc = "pausing"]
        /\ UNCHANGED <<runVars, claim, paperVars, permit, slot, network, record, sent>>
    BY <1>19 DEF AbortRunner, At, Goes
  <2> QED BY <2>1
<1>20. CASE PauseRun(e)
  BY <1>20 DEF PauseRun, Paused
<1>21. CASE Release(e)
  BY <1>21 DEF Release
<1>22. CASE Skip(e)
  BY <1>22 DEF Skip
<1>23. CASE AuditCrossing(e)
  BY <1>23 DEF AuditCrossing
<1> QED BY <1>1, <1>2, <1>3, <1>4, <1>5, <1>6, <1>7, <1>8, <1>9, <1>10, <1>11,
           <1>12, <1>13, <1>14, <1>15, <1>16, <1>17, <1>18, <1>19, <1>20, <1>21,
           <1>22, <1>23 DEF Executes

\* What SlotMove says is so.
LEMMA SlotMoves ==
    ASSUME NEW e \in Executors, Executes(e), RowTyped, HoldsRow(e), SlotRow(e)
    PROVE  SlotMove(e)
<1> USE DEF runVars, paperVars, callVars, At, Goes, SlotMove, RowTyped, HoldsRow,
            SlotRow, Of, Slotted, Working, Closing
<1>1. ASSUME NEW k \in Claims, Begin(e, k)
      PROVE  SlotMove(e)
  BY <1>1 DEF Begin
<1>2. ASSUME NEW answered \in BOOLEAN, Send(e, answered)
      PROVE  SlotMove(e)
  BY <1>2 DEF Send
<1>3. ASSUME NEW readable \in BOOLEAN, Classify(e, readable)
      PROVE  SlotMove(e)
  BY <1>3 DEF Classify, Evidence
<1>4. CASE Load(e)
  BY <1>4 DEF Load, Rebuilt
<1>5. CASE ConsumeAndPrepare(e)
  BY <1>5 DEF ConsumeAndPrepare
<1>6. CASE IssueSource(e)
  BY <1>6 DEF IssueSource
<1>7. CASE Grant(e)
  BY <1>7 DEF Grant
<1>8. CASE Prepare(e)
  BY <1>8 DEF Prepare
<1>9. CASE Start(e)
  BY <1>9 DEF Start
<1>10. CASE ConsumeSource(e)
  BY <1>10 DEF ConsumeSource
<1>11. CASE Cross(e)
  BY <1>11 DEF Cross
<1>12. CASE Record(e)
  BY <1>12 DEF Record
<1>13. CASE Settle(e)
  BY <1>13 DEF Settle
<1>14. CASE Succeed(e)
  BY <1>14 DEF Succeed
<1>15. CASE Refused(e)
  BY <1>15 DEF Refused
<1>16. CASE Fails(e)
  BY <1>16 DEF Fails
<1>17. CASE CloseProvider(e)
  BY <1>17 DEF CloseProvider
<1>18. CASE RecordOutcome(e)
  BY <1>18 DEF RecordOutcome, Outcome
<1>19. CASE AbortRunner(e)
  <2>1. /\ exec[e].pc = "aborting" /\ exec' = [exec EXCEPT ![e].pc = "pausing"]
        /\ UNCHANGED <<runVars, claim, paperVars, permit, slot, network, record, sent>>
    BY <1>19 DEF AbortRunner, At, Goes
  <2> QED BY <2>1
<1>20. CASE PauseRun(e)
  BY <1>20 DEF PauseRun, Paused
<1>21. CASE Release(e)
  BY <1>21 DEF Release
<1>22. CASE Skip(e)
  BY <1>22 DEF Skip
<1>23. CASE AuditCrossing(e)
  BY <1>23 DEF AuditCrossing
<1> HIDE DEF SlotMove
<1> QED BY <1>1, <1>2, <1>3, <1>4, <1>5, <1>6, <1>7, <1>8, <1>9, <1>10, <1>11,
           <1>12, <1>13, <1>14, <1>15, <1>16, <1>17, <1>18, <1>19, <1>20, <1>21,
           <1>22, <1>23 DEF Executes

\* The slot and the record move with the executor that has them.
LEMMA OwnSlotStep ==
    ASSUME NEW e \in Executors, Executes(e), RowTyped, HoldsRow(e), SlotRow(e)
    PROVE  SlotRow(e)'
<1> USE DEF runVars, paperVars, callVars, At, Goes, Of, Resting, Done, RowTyped,
            Row, Slotted, Working, Closing, SlotRow
<1>1. ASSUME NEW k \in Claims, Begin(e, k)
      PROVE  SlotRow(e)'
  BY <1>1 DEF Begin
<1>2. ASSUME NEW answered \in BOOLEAN, Send(e, answered)
      PROVE  SlotRow(e)'
  BY <1>2 DEF Send
<1>3. ASSUME NEW readable \in BOOLEAN, Classify(e, readable)
      PROVE  SlotRow(e)'
  BY <1>3 DEF Classify, Evidence
<1>4. CASE Load(e)
  BY <1>4 DEF Load, Rebuilt
<1>5. CASE ConsumeAndPrepare(e)
  BY <1>5 DEF ConsumeAndPrepare
<1>6. CASE IssueSource(e)
  BY <1>6 DEF IssueSource
<1>7. CASE Grant(e)
  BY <1>7 DEF Grant
<1>8. CASE Prepare(e)
  BY <1>8 DEF Prepare
<1>9. CASE Start(e)
  BY <1>9 DEF Start
<1>10. CASE ConsumeSource(e)
  BY <1>10 DEF ConsumeSource
<1>11. CASE Cross(e)
  BY <1>11 DEF Cross
<1>12. CASE Record(e)
  BY <1>12 DEF Record
<1>13. CASE Settle(e)
  BY <1>13 DEF Settle
<1>14. CASE Succeed(e)
  BY <1>14 DEF Succeed
<1>15. CASE Refused(e)
  BY <1>15 DEF Refused
<1>16. CASE Fails(e)
  BY <1>16 DEF Fails
<1>17. CASE CloseProvider(e)
  BY <1>17 DEF CloseProvider
<1>18. CASE RecordOutcome(e)
  BY <1>18 DEF RecordOutcome, Outcome
<1>19. CASE AbortRunner(e)
  <2>1. /\ exec[e].pc = "aborting" /\ exec' = [exec EXCEPT ![e].pc = "pausing"]
        /\ UNCHANGED <<runVars, claim, paperVars, permit, slot, network, record, sent>>
    BY <1>19 DEF AbortRunner, At, Goes
  <2> QED BY <2>1
<1>20. CASE PauseRun(e)
  BY <1>20 DEF PauseRun, Paused
<1>21. CASE Release(e)
  BY <1>21 DEF Release
<1>22. CASE Skip(e)
  BY <1>22 DEF Skip
<1>23. CASE AuditCrossing(e)
  BY <1>23 DEF AuditCrossing
<1> QED BY <1>1, <1>2, <1>3, <1>4, <1>5, <1>6, <1>7, <1>8, <1>9, <1>10, <1>11,
           <1>12, <1>13, <1>14, <1>15, <1>16, <1>17, <1>18, <1>19, <1>20, <1>21,
           <1>22, <1>23 DEF Executes

\* What SentMove says is so.
LEMMA SentMoves ==
    ASSUME NEW e \in Executors, Executes(e), RowTyped, NEW c \in Claims
    PROVE  SentMove(e, c)
<1> USE DEF runVars, paperVars, callVars, At, Goes, SentMove, RowTyped, Of,
            MayWrite, Fenced
<1>1. ASSUME NEW k \in Claims, Begin(e, k)
      PROVE  SentMove(e, c)
  BY <1>1 DEF Begin
<1>2. ASSUME NEW answered \in BOOLEAN, Send(e, answered)
      PROVE  SentMove(e, c)
  BY <1>2 DEF Send
<1>3. ASSUME NEW readable \in BOOLEAN, Classify(e, readable)
      PROVE  SentMove(e, c)
  BY <1>3 DEF Classify, Evidence
<1>4. CASE Load(e)
  BY <1>4 DEF Load, Rebuilt
<1>5. CASE ConsumeAndPrepare(e)
  BY <1>5 DEF ConsumeAndPrepare
<1>6. CASE IssueSource(e)
  BY <1>6 DEF IssueSource
<1>7. CASE Grant(e)
  BY <1>7 DEF Grant
<1>8. CASE Prepare(e)
  BY <1>8 DEF Prepare
<1>9. CASE Start(e)
  BY <1>9 DEF Start
<1>10. CASE ConsumeSource(e)
  BY <1>10 DEF ConsumeSource
<1>11. CASE Cross(e)
  BY <1>11 DEF Cross
<1>12. CASE Record(e)
  BY <1>12 DEF Record
<1>13. CASE Settle(e)
  BY <1>13 DEF Settle
<1>14. CASE Succeed(e)
  BY <1>14 DEF Succeed
<1>15. CASE Refused(e)
  BY <1>15 DEF Refused
<1>16. CASE Fails(e)
  BY <1>16 DEF Fails
<1>17. CASE CloseProvider(e)
  BY <1>17 DEF CloseProvider
<1>18. CASE RecordOutcome(e)
  BY <1>18 DEF RecordOutcome, Outcome
<1>19. CASE AbortRunner(e)
  <2>1. /\ exec[e].pc = "aborting" /\ exec' = [exec EXCEPT ![e].pc = "pausing"]
        /\ UNCHANGED <<runVars, claim, paperVars, permit, slot, network, record, sent>>
    BY <1>19 DEF AbortRunner, At, Goes
  <2> QED BY <2>1
<1>20. CASE PauseRun(e)
  BY <1>20 DEF PauseRun, Paused
<1>21. CASE Release(e)
  BY <1>21 DEF Release
<1>22. CASE Skip(e)
  BY <1>22 DEF Skip
<1>23. CASE AuditCrossing(e)
  BY <1>23 DEF AuditCrossing
<1> HIDE DEF SentMove
<1> QED BY <1>1, <1>2, <1>3, <1>4, <1>5, <1>6, <1>7, <1>8, <1>9, <1>10, <1>11,
           <1>12, <1>13, <1>14, <1>15, <1>16, <1>17, <1>18, <1>19, <1>20, <1>21,
           <1>22, <1>23 DEF Executes

\* The request leaves at the boundary and is evidence from then on.
LEMMA OwnSentStep ==
    ASSUME NEW e \in Executors, Executes(e), RowTyped, HoldsRow(e), SentRow(e),
           \A c \in Claims : ClaimInv(c)
    PROVE  SentRow(e)'
<1> USE DEF runVars, paperVars, callVars, At, Goes, Of, Resting, Done, RowTyped,
            Row, Early, Unsent, Working, Closing, SentRow, HoldsRow, ClaimInv
<1>1. ASSUME NEW k \in Claims, Begin(e, k)
      PROVE  SentRow(e)'
  BY <1>1 DEF Begin
<1>2. ASSUME NEW answered \in BOOLEAN, Send(e, answered)
      PROVE  SentRow(e)'
  BY <1>2 DEF Send
<1>3. ASSUME NEW readable \in BOOLEAN, Classify(e, readable)
      PROVE  SentRow(e)'
  BY <1>3 DEF Classify, Evidence
<1>4. CASE Load(e)
  BY <1>4 DEF Load, Rebuilt
<1>5. CASE ConsumeAndPrepare(e)
  BY <1>5 DEF ConsumeAndPrepare
<1>6. CASE IssueSource(e)
  BY <1>6 DEF IssueSource
<1>7. CASE Grant(e)
  BY <1>7 DEF Grant
<1>8. CASE Prepare(e)
  BY <1>8 DEF Prepare
<1>9. CASE Start(e)
  BY <1>9 DEF Start
<1>10. CASE ConsumeSource(e)
  BY <1>10 DEF ConsumeSource
<1>11. CASE Cross(e)
  BY <1>11 DEF Cross
<1>12. CASE Record(e)
  BY <1>12 DEF Record
<1>13. CASE Settle(e)
  BY <1>13 DEF Settle
<1>14. CASE Succeed(e)
  BY <1>14 DEF Succeed
<1>15. CASE Refused(e)
  BY <1>15 DEF Refused
<1>16. CASE Fails(e)
  BY <1>16 DEF Fails
<1>17. CASE CloseProvider(e)
  BY <1>17 DEF CloseProvider
<1>18. CASE RecordOutcome(e)
  BY <1>18 DEF RecordOutcome, Outcome
<1>19. CASE AbortRunner(e)
  <2>1. /\ exec[e].pc = "aborting" /\ exec' = [exec EXCEPT ![e].pc = "pausing"]
        /\ UNCHANGED <<runVars, claim, paperVars, permit, slot, network, record, sent>>
    BY <1>19 DEF AbortRunner, At, Goes
  <2> QED BY <2>1
<1>20. CASE PauseRun(e)
  BY <1>20 DEF PauseRun, Paused
<1>21. CASE Release(e)
  BY <1>21 DEF Release
<1>22. CASE Skip(e)
  BY <1>22 DEF Skip
<1>23. CASE AuditCrossing(e)
  BY <1>23 DEF AuditCrossing
<1> QED BY <1>1, <1>2, <1>3, <1>4, <1>5, <1>6, <1>7, <1>8, <1>9, <1>10, <1>11,
           <1>12, <1>13, <1>14, <1>15, <1>16, <1>17, <1>18, <1>19, <1>20, <1>21,
           <1>22, <1>23 DEF Executes

\* Its row keeps its type,
LEMMA ExecTypedStep ==
    ASSUME NEW e \in Executors, Executes(e), ExecTyped, HoldsRow(e)
    PROVE  ExecTyped'
<1> USE DEF runVars, paperVars, callVars, At, Goes, Of, Resting, Done, Row, Places,
            Working, Closing, ExecTyped, HoldsRow
<1>1. ASSUME NEW k \in Claims, Begin(e, k)
      PROVE  ExecTyped'
  BY <1>1 DEF Begin
<1>2. ASSUME NEW answered \in BOOLEAN, Send(e, answered)
      PROVE  ExecTyped'
  BY <1>2 DEF Send
<1>3. ASSUME NEW readable \in BOOLEAN, Classify(e, readable)
      PROVE  ExecTyped'
  <2>1. PICK r \in BOOLEAN : exec' = [exec EXCEPT ![e].pc = "closing", ![e].reached = r]
    BY <1>3 DEF Classify
  <2>2. [exec[e] EXCEPT !.pc = "closing", !.reached = r] \in Row
    OBVIOUS
  <2> QED BY <2>1, <2>2
<1>4. CASE Load(e)
  BY <1>4 DEF Load, Rebuilt
<1>5. CASE ConsumeAndPrepare(e)
  BY <1>5 DEF ConsumeAndPrepare
<1>6. CASE IssueSource(e)
  BY <1>6 DEF IssueSource
<1>7. CASE Grant(e)
  BY <1>7 DEF Grant
<1>8. CASE Prepare(e)
  BY <1>8 DEF Prepare
<1>9. CASE Start(e)
  BY <1>9 DEF Start
<1>10. CASE ConsumeSource(e)
  BY <1>10 DEF ConsumeSource
<1>11. CASE Cross(e)
  BY <1>11 DEF Cross
<1>12. CASE Record(e)
  BY <1>12 DEF Record
<1>13. CASE Settle(e)
  BY <1>13 DEF Settle
<1>14. CASE Succeed(e)
  BY <1>14 DEF Succeed
<1>15. CASE Refused(e)
  BY <1>15 DEF Refused
<1>16. CASE Fails(e)
  BY <1>16 DEF Fails
<1>17. CASE CloseProvider(e)
  BY <1>17 DEF CloseProvider
<1>18. CASE RecordOutcome(e)
  <2>1. Done \in Row /\ [exec[e] EXCEPT !.pc = "aborting"] \in Row
    OBVIOUS
  <2> QED BY <1>18, <2>1 DEF RecordOutcome
<1>19. CASE AbortRunner(e)
  <2>1. /\ exec[e].pc = "aborting" /\ exec' = [exec EXCEPT ![e].pc = "pausing"]
        /\ UNCHANGED <<runVars, claim, paperVars, permit, slot, network, record, sent>>
    BY <1>19 DEF AbortRunner, At, Goes
  <2> QED BY <2>1
<1>20. CASE PauseRun(e)
  BY <1>20 DEF PauseRun, Paused
<1>21. CASE Release(e)
  BY <1>21 DEF Release
<1>22. CASE Skip(e)
  <2>1. CASE exec' = [exec EXCEPT ![e] = Done]
    BY <2>1
  <2>2. ASSUME NEW p \in {"concluding", "aborting", "pausing", "releasing"},
               exec' = [exec EXCEPT ![e].pc = p]
        PROVE  ExecTyped'
    BY <2>2
  <2>3. CASE exec' = [exec EXCEPT ![e] = [exec[e] EXCEPT !.pc = "aborting"]]
    BY <2>3
  <2> QED BY <1>22, <2>1, <2>2, <2>3 DEF Skip
<1>23. CASE AuditCrossing(e)
  BY <1>23 DEF AuditCrossing
<1> QED BY <1>1, <1>2, <1>3, <1>4, <1>5, <1>6, <1>7, <1>8, <1>9, <1>10, <1>11,
           <1>12, <1>13, <1>14, <1>15, <1>16, <1>17, <1>18, <1>19, <1>20, <1>21,
           <1>22, <1>23 DEF Executes

\* and so does what it writes,
LEMMA PapersTypedStep ==
    ASSUME NEW e \in Executors, Executes(e), PapersTyped, HoldsRow(e), SentRow(e)
    PROVE  PapersTyped'
<1> USE DEF runVars, paperVars, callVars, At, Goes, Of, PapersTyped, HoldsRow,
            SentRow, Unsent, Closing, Working
<1>1. ASSUME NEW k \in Claims, Begin(e, k)
      PROVE  PapersTyped'
  BY <1>1 DEF Begin
<1>2. ASSUME NEW answered \in BOOLEAN, Send(e, answered)
      PROVE  PapersTyped'
  BY <1>2 DEF Send
<1>3. ASSUME NEW readable \in BOOLEAN, Classify(e, readable)
      PROVE  PapersTyped'
  BY <1>3 DEF Classify, Evidence
<1>4. CASE Load(e)
  BY <1>4 DEF Load, Rebuilt
<1>5. CASE ConsumeAndPrepare(e)
  BY <1>5 DEF ConsumeAndPrepare
<1>6. CASE IssueSource(e)
  BY <1>6 DEF IssueSource
<1>7. CASE Grant(e)
  BY <1>7 DEF Grant
<1>8. CASE Prepare(e)
  BY <1>8 DEF Prepare
<1>9. CASE Start(e)
  BY <1>9 DEF Start
<1>10. CASE ConsumeSource(e)
  BY <1>10 DEF ConsumeSource
<1>11. CASE Cross(e)
  BY <1>11 DEF Cross
<1>12. CASE Record(e)
  BY <1>12 DEF Record
<1>13. CASE Settle(e)
  BY <1>13 DEF Settle
<1>14. CASE Succeed(e)
  BY <1>14 DEF Succeed
<1>15. CASE Refused(e)
  BY <1>15 DEF Refused
<1>16. CASE Fails(e)
  BY <1>16 DEF Fails
<1>17. CASE CloseProvider(e)
  BY <1>17 DEF CloseProvider
<1>18. CASE RecordOutcome(e)
  BY <1>18 DEF RecordOutcome, Outcome
<1>19. CASE AbortRunner(e)
  <2>1. /\ exec[e].pc = "aborting" /\ exec' = [exec EXCEPT ![e].pc = "pausing"]
        /\ UNCHANGED <<runVars, claim, paperVars, permit, slot, network, record, sent>>
    BY <1>19 DEF AbortRunner, At, Goes
  <2> QED BY <2>1
<1>20. CASE PauseRun(e)
  <2>1. CASE Paused
    BY <1>20, <2>1 DEF PauseRun, Paused
  <2>2. CASE UNCHANGED <<running, lease>>
    BY <1>20, <2>2 DEF PauseRun
  <2> QED BY <1>20, <2>1, <2>2 DEF PauseRun
<1>21. CASE Release(e)
  <2>1. Of(e) \in Claims
    BY <1>21 DEF Release
  <2>2. PICK r \in BOOLEAN : claim' = [claim EXCEPT ![Of(e)].released = r]
    BY <1>21, <2>1 DEF Release
  <2>3. claim' \in [Claims -> [token : 0..MaxToken, expires : Nat, released : BOOLEAN]]
    BY <2>1, <2>2, SMTT(30)
  <2> QED BY <1>21, <2>3 DEF Release
<1>22. CASE Skip(e)
  BY <1>22 DEF Skip
<1>23. CASE AuditCrossing(e)
  BY <1>23 DEF AuditCrossing
<1> QED BY <1>1, <1>2, <1>3, <1>4, <1>5, <1>6, <1>7, <1>8, <1>9, <1>10, <1>11,
           <1>12, <1>13, <1>14, <1>15, <1>16, <1>17, <1>18, <1>19, <1>20, <1>21,
           <1>22, <1>23 DEF Executes

\* the runner's call among it.
LEMMA RunnerTypedStep ==
    ASSUME NEW e \in Executors, Executes(e), RunnerTyped
    PROVE  RunnerTyped'
<1> USE DEF RunnerTyped, callVars
<1>1. CASE AbortRunner(e)
  BY <1>1, Zenon DEF AbortRunner
<1>2. CASE UNCHANGED runner
  BY <1>2, Zenon
<1>3. AbortRunner(e) \/ UNCHANGED runner
  BY Zenon DEF Executes, Begin, Load, ConsumeAndPrepare, IssueSource, Grant, Prepare, Start,
               ConsumeSource, Cross, AuditCrossing, Record, Settle, Succeed, Send, Refused, Fails,
               CloseProvider, RecordOutcome, Classify, PauseRun, Release, Skip
<1> QED BY <1>1, <1>2, <1>3

\* An executor that pauses the run gives up the lease.
LEMMA LeaseStep ==
    ASSUME NEW e \in Executors, Executes(e), PausedHoldsNothing
    PROVE  PausedHoldsNothing'
<1> USE DEF runVars, paperVars, callVars, At, Goes, PausedHoldsNothing
<1>1. ASSUME NEW k \in Claims, Begin(e, k)
      PROVE  PausedHoldsNothing'
  BY <1>1 DEF Begin
<1>2. ASSUME NEW answered \in BOOLEAN, Send(e, answered)
      PROVE  PausedHoldsNothing'
  BY <1>2 DEF Send
<1>3. ASSUME NEW readable \in BOOLEAN, Classify(e, readable)
      PROVE  PausedHoldsNothing'
  BY <1>3 DEF Classify, Evidence
<1>4. CASE Load(e)
  BY <1>4 DEF Load, Rebuilt
<1>5. CASE ConsumeAndPrepare(e)
  BY <1>5 DEF ConsumeAndPrepare
<1>6. CASE IssueSource(e)
  BY <1>6 DEF IssueSource
<1>7. CASE Grant(e)
  BY <1>7 DEF Grant
<1>8. CASE Prepare(e)
  BY <1>8 DEF Prepare
<1>9. CASE Start(e)
  BY <1>9 DEF Start
<1>10. CASE ConsumeSource(e)
  BY <1>10 DEF ConsumeSource
<1>11. CASE Cross(e)
  BY <1>11 DEF Cross
<1>12. CASE Record(e)
  BY <1>12 DEF Record
<1>13. CASE Settle(e)
  BY <1>13 DEF Settle
<1>14. CASE Succeed(e)
  BY <1>14 DEF Succeed
<1>15. CASE Refused(e)
  BY <1>15 DEF Refused
<1>16. CASE Fails(e)
  BY <1>16 DEF Fails
<1>17. CASE CloseProvider(e)
  BY <1>17 DEF CloseProvider
<1>18. CASE RecordOutcome(e)
  BY <1>18 DEF RecordOutcome, Outcome
<1>19. CASE AbortRunner(e)
  <2>1. /\ exec[e].pc = "aborting" /\ exec' = [exec EXCEPT ![e].pc = "pausing"]
        /\ UNCHANGED <<runVars, claim, paperVars, permit, slot, network, record, sent>>
    BY <1>19 DEF AbortRunner, At, Goes
  <2> QED BY <2>1
<1>20. CASE PauseRun(e)
  <2>1. CASE Paused
    BY <2>1 DEF Paused
  <2>2. CASE UNCHANGED <<running, lease>>
    BY <2>2
  <2> QED BY <1>20, <2>1, <2>2 DEF PauseRun
<1>21. CASE Release(e)
  BY <1>21 DEF Release
<1>22. CASE Skip(e)
  BY <1>22 DEF Skip
<1>23. CASE AuditCrossing(e)
  BY <1>23 DEF AuditCrossing
<1> QED BY <1>1, <1>2, <1>3, <1>4, <1>5, <1>6, <1>7, <1>8, <1>9, <1>10, <1>11,
           <1>12, <1>13, <1>14, <1>15, <1>16, <1>17, <1>18, <1>19, <1>20, <1>21,
           <1>22, <1>23 DEF Executes

\* The types are those of the three parts.
LEMMA TypesSplit == TypeOK <=> ExecTyped /\ PapersTyped /\ RunnerTyped
  BY Zenon DEF TypeOK, ExecTyped, Row, Places, PapersTyped, RunnerTyped

\* So they are after a step.
LEMMA TypesSplitNext == TypeOK' <=> ExecTyped' /\ PapersTyped' /\ RunnerTyped'
  BY Zenon DEF TypeOK, ExecTyped, Row, Places, PapersTyped, RunnerTyped

\* The network event is written under a fence.
LEMMA AuditsFenced ==
    ASSUME NEW e \in Executors, Executes(e), RowTyped,
           exec[e].pc = "crossed", exec'[e].pc = "audited"
    PROVE  Alive(lease.expires)
<1> USE DEF At, Goes, RowTyped, Resting, Done
<1>1. AuditCrossing(e) \/ Fails(e)
  BY DEF Executes, Begin, Load, ConsumeAndPrepare, IssueSource, Grant, Prepare, Start,
         ConsumeSource, Cross, Record, Settle, Succeed, Send, Refused, CloseProvider,
         RecordOutcome, AbortRunner, Classify, PauseRun, Release, Skip
<1>2. CASE AuditCrossing(e)
  BY <1>2 DEF AuditCrossing, MayWrite, Fenced
<1>3. CASE Fails(e)
  BY <1>3 DEF Fails
<1> QED BY <1>1, <1>2, <1>3

\* An executor's step keeps the invariant: its own row by the lemmas above, the
\* other rows because they are of other claims.
LEMMA ExecutorStep ==
    ASSUME NEW e \in Executors, Executes(e), CanaryInv
    PROVE  CanaryInv'
<1> USE DEF CanaryInv
<1>t. RowTyped
  BY TypesSplit DEF RowTyped, ExecTyped, PapersTyped
<1>1. TypeOK'
  BY TypesSplit, TypesSplitNext, ExecTypedStep, PapersTypedStep, RunnerTypedStep
<1>2. HoldsRow(e)' /\ SlotRow(e)' /\ SentRow(e)'
  BY <1>t, OwnRowStep, OwnSlotStep, OwnSentStep
<1>s. SlotMove(e)
  BY <1>t, SlotMoves
<1>m. \A c \in Claims : SentMove(e, c)
  BY <1>t, SentMoves
<1>h. exec'[e].holds => /\ exec[e].holds \/ (exec[e].pc = "loaded" /\ approval[Of(e)].state = "active")
                        /\ Of(e)' = Of(e) /\ Of(e) \in Claims
  BY <1>t, <1>2, TakesStep DEF HoldsRow
<1>o. ASSUME NEW f \in Executors, f # e
      PROVE  exec'[f] = exec[f]
  BY <1>t, <1>o, OthersStay
<1>3. ASSUME NEW f \in Executors, f # e
      PROVE  HoldsRow(f)'
  BY <1>o, <1>3, <1>m DEF HoldsRow, SentMove, Of
<1>4. HoldersDiffer'
  <2>1. ASSUME NEW f \in Executors, f # e, exec'[f].holds, exec'[e].holds, Of(e)' = Of(f)'
        PROVE  FALSE
    <3>1. exec[f].holds /\ Of(f)' = Of(f) /\ approval[Of(f)].state = "consumed"
      BY <1>o, <2>1 DEF HoldsRow, Of
    <3>2. exec[e].holds
      BY <1>h, <2>1, <3>1
    <3> QED BY <1>h, <2>1, <3>1, <3>2 DEF HoldersDiffer
  <2> QED BY <1>o, <2>1 DEF HoldersDiffer, Of
<1>5. ASSUME NEW f \in Executors, f # e
      PROVE  SlotRow(f)'
  <2>1. CASE exec[f].pc \notin Slotted
    BY <1>o, <1>5, <2>1 DEF SlotRow, Slotted
  <2>2. CASE exec[f].pc \in Slotted
    <3>1. exec[f].holds /\ slot.by = Of(f) /\ slot.state # "none"
      BY <2>2 DEF HoldsRow, SlotRow, Slotted, Working
    <3>2. ~(exec[e].holds /\ slot.by = Of(e))
      BY <1>5, <3>1 DEF HoldersDiffer
    <3>3. slot' = slot
      BY <1>s, <3>1, <3>2 DEF SlotMove
    <3>4. record' = record
      BY <1>s, <3>2 DEF SlotMove, HoldsRow, SlotRow, Slotted, Working
    <3> QED BY <1>o, <1>5, <3>3, <3>4 DEF SlotRow, Of
  <2> QED BY <2>1, <2>2
<1>6. ASSUME NEW f \in Executors, f # e
      PROVE  SentRow(f)'
  <2>1. CASE ~exec[f].holds
    BY <1>o, <1>6, <2>1 DEF SentRow, HoldsRow, Unsent, Working
  <2>2. CASE exec[f].holds
    <3>1. Of(f) \in Claims /\ approval[Of(f)].state = "consumed"
      BY <2>2 DEF HoldsRow
    <3>2. ~(exec[e].holds /\ Of(e) = Of(f))
      BY <1>6, <2>2 DEF HoldersDiffer
    <3>3. sent'[Of(f)] = sent[Of(f)]
      BY <1>m, <3>1, <3>2 DEF SentMove, HoldsRow, Working
    <3>4. permit'[Of(f)] = permit[Of(f)]
      BY <1>m, <3>1, <3>2 DEF SentMove, HoldsRow, Working
    <3>5. network => network'
      BY <1>s DEF SlotMove
    <3> QED BY <1>o, <1>6, <3>3, <3>4, <3>5 DEF SentRow, Of
  <2> QED BY <2>1, <2>2
<1>7. ASSUME NEW c \in Claims
      PROVE  ClaimInv(c)'
  <2>k. SentMove(e, c) /\ ClaimInv(c) /\ HoldsRow(e) /\ SlotRow(e) /\ SentRow(e)
    BY <1>m
  <2>b. slot.state # "none" => slot'.state # "none" /\ slot'.by = slot.by
    BY <1>s DEF SlotMove
  <2>1. source'[c] = "consumed" => slot'.state # "none" /\ slot'.by = c
    BY <1>s, <2>k, <2>b DEF SlotMove, ClaimInv, SlotRow, Slotted
  <2>2. permit'[c] # "none" => approval'[c].state = "consumed"
    <3>1. CASE permit'[c] = permit[c]
      BY <2>k, <3>1 DEF SentMove, ClaimInv
    <3>2. CASE permit'[c] # permit[c] /\ exec[e].pc = "loaded"
      BY <2>k, <3>2 DEF SentMove
    <3>3. CASE permit'[c] # permit[c] /\ exec[e].pc # "loaded"
      <4>1. c = Of(e) /\ exec[e].holds
        BY <2>k, <3>3 DEF SentMove, HoldsRow, Working
      <4> QED BY <2>k, <4>1 DEF SentMove, HoldsRow
    <3> QED BY <3>1, <3>2, <3>3
  <2>3. ASSUME sent'[c] > 0
        PROVE  /\ network' /\ slot'.state # "none" /\ slot'.by = c /\ sent'[c] = 1
               /\ permit'[c] \in {"send_started", "succeeded", "unknown"}
    <3>1. CASE sent'[c] # sent[c]
      BY <2>k, <2>b, <3>1 DEF SentMove, SlotRow, SentRow, Slotted, Unsent
    <3>2. CASE sent'[c] = sent[c]
      <4>1. /\ network /\ slot.state # "none" /\ slot.by = c /\ sent[c] = 1
            /\ permit[c] \in {"send_started", "succeeded", "unknown"}
        BY <2>k, <2>3, <3>2 DEF ClaimInv
      <4>2. CASE permit'[c] = permit[c]
        BY <1>s, <2>b, <3>2, <4>1, <4>2 DEF SlotMove
      <4>3. CASE permit'[c] # permit[c]
        <5>1. permit'[c] \in {"succeeded", "unknown"}
          BY <2>k, <4>1, <4>3 DEF SentMove, SentRow, ClaimInv
        <5> QED BY <1>s, <2>b, <3>2, <4>1, <5>1 DEF SlotMove
      <4> QED BY <4>2, <4>3
    <3> QED BY <3>1, <3>2
  <2>4. permit'[c] = "succeeded" => record' = "attested" /\ slot' = [state |-> "settled", by |-> c]
    <3>1. CASE permit[c] = "succeeded"
      BY <1>s, <2>k, <3>1 DEF SlotMove, ClaimInv
    <3>2. CASE permit[c] # "succeeded" /\ permit'[c] = "succeeded"
      <4>1. /\ c = Of(e) /\ exec[e].pc = "settled" /\ UNCHANGED <<slot, record>>
        BY <2>k, <3>2 DEF SentMove
      <4>2. slot.state = "settled" /\ slot.by = c /\ record = "attested"
        BY <2>k, <4>1 DEF SlotRow, Slotted
      <4> QED BY <1>t, <4>1, <4>2 DEF RowTyped
    <3> QED BY <3>1, <3>2
  <2> QED BY <2>1, <2>2, <2>3, <2>4 DEF ClaimInv
<1>8. PausedHoldsNothing'
  BY LeaseStep
<1> QED BY <1>1, <1>2, <1>3, <1>4, <1>5, <1>6, <1>7, <1>8

\* The steps of everything but the executors.
World ==
    \/ Tick \/ Pause \/ Resume \/ TakeLease
    \/ \E c \in Claims :
           \/ Claim(c) \/ ReleaseClaim(c) \/ Authorize(c) \/ Revoke(c) \/ RevokePermit(c)
           \/ \E expires \in 1..(MaxTime + LeaseTtl) : Register(c, expires)

\* What they leave alone.
LEMMA WorldStays ==
    ASSUME World, PapersTyped
    PROVE  /\ UNCHANGED <<exec, slot, network, record, runner, source, sent>>
           /\ \A c \in Claims :
                /\ approval[c].state = "consumed" => approval'[c].state = "consumed"
                /\ permit'[c] = permit[c] \/ (permit[c] = "ready" /\ permit'[c] = "revoked")
<1> USE DEF PapersTyped, runVars, paperVars, callVars
<1>1. CASE Tick \/ Pause \/ Resume \/ TakeLease
  BY <1>1 DEF Tick, Pause, Paused, Resume, TakeLease
<1>2. ASSUME NEW k \in Claims, Claim(k) \/ ReleaseClaim(k) \/ Revoke(k) \/ RevokePermit(k)
      PROVE  /\ UNCHANGED <<exec, slot, network, record, runner, source, sent>>
             /\ \A c \in Claims :
                  /\ approval[c].state = "consumed" => approval'[c].state = "consumed"
                  /\ permit'[c] = permit[c] \/ (permit[c] = "ready" /\ permit'[c] = "revoked")
  BY <1>2 DEF Claim, ReleaseClaim, Revoke, RevokePermit
<1>3. ASSUME NEW k \in Claims,
             Authorize(k) \/ \E expires \in 1..(MaxTime + LeaseTtl) : Register(k, expires)
      PROVE  /\ UNCHANGED <<exec, slot, network, record, runner, source, sent, permit>>
             /\ \A c \in Claims :
                  approval[c].state = "consumed" => approval'[c].state = "consumed"
  BY <1>3 DEF Authorize, Register
<1> QED BY <1>1, <1>2, <1>3 DEF World

\* Their types, and that a paused run's lease is given up.
LEMMA WorldTyped ==
    ASSUME World, PapersTyped, PausedHoldsNothing
    PROVE  PapersTyped' /\ PausedHoldsNothing'
<1> USE CanaryAssumption DEF CanaryAssumption, PapersTyped, runVars, paperVars, callVars,
                             PausedHoldsNothing
<1>1. CASE Tick
  BY <1>1 DEF Tick
<1>2. CASE Pause
  BY <1>2 DEF Pause, Paused
<1>3. CASE Resume
  BY <1>3 DEF Resume
<1>4. CASE TakeLease
  BY <1>4 DEF TakeLease
<1>5. ASSUME NEW c \in Claims, Claim(c)
      PROVE  PapersTyped' /\ PausedHoldsNothing'
  BY <1>5 DEF Claim
<1>6. ASSUME NEW c \in Claims, ReleaseClaim(c)
      PROVE  PapersTyped' /\ PausedHoldsNothing'
  <2>0. claim[c] \in [token : 0..MaxToken, expires : Nat, released : BOOLEAN]
    OBVIOUS
  <2>1. [claim[c] EXCEPT !.released = TRUE] \in [token : 0..MaxToken, expires : Nat,
  released : BOOLEAN]
    BY ONLY <2>0
  <2>2. claim' \in [Claims -> [token : 0..MaxToken, expires : Nat, released : BOOLEAN]]
    BY <1>6, <2>1 DEF ReleaseClaim
  <2> QED BY <1>6, <2>2 DEF ReleaseClaim
<1>7. ASSUME NEW c \in Claims, Authorize(c)
      PROVE  PapersTyped' /\ PausedHoldsNothing'
  BY <1>7 DEF Authorize
<1>8. ASSUME NEW c \in Claims, Revoke(c)
      PROVE  PapersTyped' /\ PausedHoldsNothing'
  BY <1>8 DEF Revoke
<1>9. ASSUME NEW c \in Claims, RevokePermit(c)
      PROVE  PapersTyped' /\ PausedHoldsNothing'
  BY <1>9 DEF RevokePermit
<1>10. ASSUME NEW c \in Claims, NEW expires \in 1..(MaxTime + LeaseTtl), Register(c, expires)
       PROVE  PapersTyped' /\ PausedHoldsNothing'
  BY <1>10 DEF Register
<1> QED BY <1>1, <1>2, <1>3, <1>4, <1>5, <1>6, <1>7, <1>8, <1>9, <1>10 DEF World

\* Every step keeps the invariant.
LEMMA CanaryStep ==
    ASSUME CanaryInv, [Next]_vars
    PROVE  CanaryInv'
<1>1. ASSUME NEW e \in Executors, Executes(e)
      PROVE  CanaryInv'
  BY <1>1, ExecutorStep
<1>2. CASE World
  <2> USE DEF CanaryInv
  <2>1. PapersTyped' /\ PausedHoldsNothing'
    BY <1>2, TypesSplit, WorldTyped
  <2>2. UNCHANGED <<exec, slot, network, record, runner, source, sent>>
    BY <1>2, TypesSplit, WorldStays
  <2>3. \A c \in Claims :
          /\ approval[c].state = "consumed" => approval'[c].state = "consumed"
          /\ permit'[c] = permit[c] \/ (permit[c] = "ready" /\ permit'[c] = "revoked")
    BY <1>2, TypesSplit, WorldStays
  <2>4. TypeOK'
    BY <2>1, <2>2, TypesSplit, TypesSplitNext, Zenon DEF ExecTyped, RunnerTyped
  <2>5. ASSUME NEW e \in Executors
        PROVE  HoldsRow(e)' /\ SlotRow(e)'
    BY <2>2, <2>3 DEF HoldsRow, SlotRow, Of
  <2>6. ASSUME NEW e \in Executors
        PROVE  SentRow(e)'
    <3>1. exec[e].pc \in {"crossed", "audited", "answered", "recorded", "settled"} =>
            Of(e) \in Claims
      BY DEF HoldsRow
    <3> QED BY <2>2, <2>3, <3>1 DEF SentRow, Of
  <2>7. ASSUME NEW c \in Claims
        PROVE  ClaimInv(c)'
    BY <2>2, <2>3 DEF ClaimInv
  <2>8. HoldersDiffer'
    BY <2>2 DEF HoldersDiffer, Of
  <2> QED BY <2>1, <2>4, <2>5, <2>6, <2>7, <2>8
<1>3. CASE UNCHANGED vars
  <2>1. UNCHANGED <<runVars, claim, paperVars, permit, callVars, exec, sent>>
    BY <1>3 DEF vars
  <2>2. TypeOK'
    BY <2>1, Zenon DEF CanaryInv, TypeOK, runVars, paperVars, callVars
  <2> QED BY <2>1, <2>2 DEF runVars, paperVars, callVars, CanaryInv, HoldsRow, SlotRow, SentRow,
                            ClaimInv, HoldersDiffer, PausedHoldsNothing, Of
<1> QED BY <1>1, <1>2, <1>3 DEF Next, World

\* The invariant holds always.
LEMMA CanaryInvHolds == Spec => []CanaryInv
<1>1. Init => CanaryInv
  <2> SUFFICES ASSUME Init PROVE CanaryInv
    OBVIOUS
  <2>1. ExecTyped
    BY DEF Init, ExecTyped, Row, Places, Resting
  <2>2. PapersTyped
    <3>1. 0 \in 0..MaxTime /\ 0 \in 0..MaxToken /\ 1 \in 0..MaxToken /\ LeaseTtl \in Nat
      BY CanaryAssumption DEF CanaryAssumption
    <3>2. /\ now \in 0..MaxTime /\ running \in BOOLEAN
          /\ lease \in [token : 0..MaxToken, expires : Nat]
          /\ claim \in [Claims -> [token : 0..MaxToken, expires : Nat, released : BOOLEAN]]
      BY <3>1 DEF Init
    <3>3. /\ authority \in [Claims -> Nat]
          /\ approval \in [Claims -> [state : {"none", "active", "revoked", "consumed"},
                                      expires : Nat]]
          /\ sent \in [Claims -> 0..2]
      BY DEF Init
    <3> QED BY <3>2, <3>3 DEF Init, PapersTyped
  <2>3. RunnerTyped
    BY Zenon DEF Init, RunnerTyped
  <2>4. \A e \in Executors : HoldsRow(e) /\ SlotRow(e) /\ SentRow(e)
    BY DEF Init, Resting, HoldsRow, SlotRow, SentRow, Early, Slotted, Unsent, Working
  <2>5. (\A c \in Claims : ClaimInv(c)) /\ HoldersDiffer /\ PausedHoldsNothing
    BY DEF Init, Resting, ClaimInv, HoldersDiffer, PausedHoldsNothing
  <2> QED BY <2>1, <2>2, <2>3, <2>4, <2>5, TypesSplit DEF CanaryInv
<1>2. CanaryInv /\ [Next]_vars => CanaryInv'
  BY CanaryStep
<1> QED BY <1>1, <1>2, PTL DEF Spec

(***************************************************************************)
(* The theorems                                                            *)
(***************************************************************************)

\* One request leaves for the call and one source is disclosed for it, however
\* many claims and executors there are.
THEOREM OneRequestLeaves == Spec => []OneRequest
<1>1. CanaryInv => OneRequest
  <2> SUFFICES ASSUME CanaryInv PROVE OneRequest
    OBVIOUS
  <2> USE DEF CanaryInv
  <2>1. \A c \in Claims : sent[c] <= 1
    BY TypesSplit DEF ClaimInv, PapersTyped
  <2>f. IsFiniteSet({slot.by}) /\ Cardinality({slot.by}) = 1
    BY FS_Singleton
  <2>2. Cardinality({c \in Claims : sent[c] > 0}) <= 1
    <3>1. {c \in Claims : sent[c] > 0} \subseteq {slot.by}
      BY DEF ClaimInv
    <3> QED BY <2>f, <3>1, FS_Subset
  <2>3. Cardinality({c \in Claims : source[c] = "consumed"}) <= 1
    <3>1. {c \in Claims : source[c] = "consumed"} \subseteq {slot.by}
      BY DEF ClaimInv
    <3> QED BY <2>f, <3>1, FS_Subset
  <2> QED BY <2>1, <2>2, <2>3 DEF OneRequest
<1> QED BY <1>1, CanaryInvHolds, PTL

\* An outcome says what happened to the request, whichever executor recorded
\* it.
THEOREM OutcomesTellTheTruth == Spec => []OutcomesAreTrue
<1>1. CanaryInv => OutcomesAreTrue
  <2> SUFFICES ASSUME CanaryInv, NEW c \in Claims
               PROVE  /\ permit[c] \in {"aborted", "revoked"} => sent[c] = 0
                      /\ permit[c] = "succeeded" =>
                           record = "attested" /\ slot = [state |-> "settled", by |-> c]
    BY DEF OutcomesAreTrue
  <2>1. ClaimInv(c) /\ sent[c] \in 0..2
    BY TypesSplit DEF CanaryInv, PapersTyped
  <2> QED BY <2>1 DEF ClaimInv
<1> QED BY <1>1, CanaryInvHolds, PTL

\* No boundary is crossed and no event of one is written while the run is
\* paused, since pausing gives up the lease that both ask for, and no request
\* leaves without them.
THEOREM NothingCrossesWhilePaused == Spec => CrossesWhileRunning
<1>1. ASSUME CanaryInv, Next
      PROVE  /\ (\E c \in Claims : permit[c] = "ready" /\ permit'[c] = "send_started") => running
             /\ (\E e \in Executors : exec[e].pc = "crossed" /\ exec'[e].pc = "audited") => running
             /\ \A c \in Claims : sent'[c] # sent[c] => network /\ permit[c] = "send_started"
  <2>t. PapersTyped /\ ExecTyped
    BY <1>1, TypesSplit DEF CanaryInv
  <2>r. RowTyped
    BY <2>t DEF RowTyped, ExecTyped, PapersTyped
  <2>l. Alive(lease.expires) => running
    BY <1>1, <2>t DEF CanaryInv, PausedHoldsNothing, Alive, PapersTyped
  <2>1. ASSUME NEW c \in Claims, permit[c] = "ready", permit'[c] = "send_started"
        PROVE  running
    <3>1. PICK e \in Executors : Executes(e)
      BY <1>1, <2>1, <2>t, WorldStays DEF Next, World
    <3> QED BY <2>1, <2>l, <2>r, <3>1, SentMoves DEF SentMove
  <2>2. ASSUME NEW e \in Executors, exec[e].pc = "crossed", exec'[e].pc = "audited"
        PROVE  running
    <3>1. PICK f \in Executors : Executes(f)
      BY <1>1, <2>2, <2>t, WorldStays DEF Next, World
    <3>2. f = e
      BY <2>r, <2>2, <3>1, OthersStay
    <3> QED BY <2>2, <2>l, <2>r, <3>1, <3>2, AuditsFenced
  <2>3. ASSUME NEW c \in Claims, sent'[c] # sent[c]
        PROVE  network /\ permit[c] = "send_started"
    <3>1. PICK e \in Executors : Executes(e)
      BY <1>1, <2>3, <2>t, WorldStays DEF Next, World
    <3>2. c = Of(e) /\ exec[e].pc = "audited" /\ SentRow(e)
      BY <1>1, <2>3, <2>r, <3>1, SentMoves DEF SentMove, CanaryInv
    <3> QED BY <3>2 DEF SentRow
  <2> QED BY <2>1, <2>2, <2>3
<1>2. CanaryInv /\ [Next]_vars =>
        [/\ (\E c \in Claims : permit[c] = "ready" /\ permit'[c] = "send_started") => running
         /\ (\E e \in Executors : exec[e].pc = "crossed" /\ exec'[e].pc = "audited") => running
         /\ \A c \in Claims : sent'[c] # sent[c] => network /\ permit[c] = "send_started"]_vars
  BY <1>1
<1> QED BY <1>2, CanaryInvHolds, PTL DEF Spec, CrossesWhileRunning
=============================================================================
