---------------------------- MODULE LiveCallProofs ----------------------------
(***************************************************************************)
(* Proofs about Preparation, NativeExecution and Capsule, for any number   *)
(* of executors, contents, tokens and windows: a call is requested once,   *)
(* an authority or a capsule that closes tells what became of it, and a    *)
(* capsule only does what an execution can do.                             *)
(***************************************************************************)
EXTENDS Capsule, TLAPS

(***************************************************************************)
(* The invariant of an execution                                           *)
(***************************************************************************)

\* Where an executor may still stop before the request.
PreSent == {"consumed", "begun", "granted", "slotted", "authorised", "started", "armed",
            "aborting"}

\* The one slot goes with the executor that prepared it, and a request with
\* the slot: nobody prepares it again.
SlotRow(e) ==
    /\ exec[e].pc \in {"slotted", "authorised"} =>
         slot.by = e /\ slot.state = "prepared" /\ sent[e] = 0
    /\ exec[e].pc \in {"started", "armed"} =>
         slot.by = e /\ slot.state = "send_started" /\ sent[e] = 0
    /\ exec[e].pc = "answered" => sent[e] # 0
    /\ sent[e] # 0 => sent[e] = 1 /\ slot.by = e /\ slot.state \notin {"none", "prepared"}

Settled ==
    record = "succeeded" /\ runner = [result |-> "succeeded", reservation |-> "spent",
                                      iteration |-> "completed"]

\* What an executor takes for the answer is on record, stored and settled as
\* far as it has come.
ResultRow(e) ==
    /\ exec[e].pc = "idle" => exec[e] = Resting
    /\ exec[e].pc \in {"answered", "recorded", "stored"} => exec[e].verdict \in Answers
    /\ exec[e].pc \in {"recorded", "stored"} => record = exec[e].verdict
    /\ exec[e].pc = "stored" /\ exec[e].verdict = "succeeded" => runner.result = "succeeded"
    /\ exec[e].pc \in {"concluding", "cleaning"} => exec[e].verdict # "none"
    /\ exec[e].pc = "concluding" /\ exec[e].verdict = "succeeded" => Settled

AuthoritySettled == \A p \in DOMAIN jit : jit[p].state = "succeeded" => Settled

\* The live path goes its way once, and has sent nothing where it may abort.
LiveOnce ==
    /\ exec[Live].pc \notin {"idle", "checked"} => human2.used
    /\ sent[Live] # 0 => human2.used
    /\ exec[Live].pc \in PreSent => sent[Live] = 0
    /\ exec[Live].pc \in {"concluding", "cleaning"} /\ exec[Live].verdict = PreSend
         => sent[Live] = 0

\* Before the hermetic authority is there, only the live path can have aborted.
HermeticWaits ==
    jit["hermetic"].state = "none" =>
      /\ \A h \in Hermetic : exec[h].pc = "idle"
      /\ runner.result = "not_sent" =>
           human2.used /\ sent[Live] = 0 /\ exec[Live].pc \notin PreSent

ExecInv ==
    /\ TypeOK
    /\ \A e \in Executors : SlotRow(e) /\ ResultRow(e)
    /\ AuthoritySettled /\ LiveOnce /\ HermeticWaits

\* The claim a call was handed over under is no newer than the lease.
HandedUnder ==
    /\ handoff.token <= lease.token
    /\ handoff.state = Waiting => handoff.token # 0

\* The authority of the live path is open until the executor concludes it.
LiveAuthority ==
    /\ exec[Live].pc \in {"armed", "answered", "recorded", "stored"} =>
         jit["live"].state = "send_started" /\ ~jit["live"].closed
    /\ exec[Live].pc = "concluding" /\ exec[Live].verdict \in Answers =>
         jit["live"].state = "send_started" /\ ~jit["live"].closed
    /\ exec[Live].pc = "cleaning" /\ exec[Live].verdict \in Answers => jit["live"].closed
    /\ exec[Live].pc \in {"concluding", "cleaning"} /\ exec[Live].verdict \in Answers =>
         record = exec[Live].verdict
    /\ exec[Live].pc = "cleaning" /\ exec[Live].verdict = "succeeded" => Settled

(***************************************************************************)
(* The invariant of a capsule                                              *)
(***************************************************************************)
BeforeNative == {"lookup", "looking", "show", "approve", "window", "authorise"}

\* Lookup and executor are the owner's, and at work in their stages only.
OwnerWorks ==
    /\ resolver = "out" => owner.stage = "looking"
    /\ exec[Live].pc # "idle" => owner.stage = "native"
    /\ \A h \in Hermetic : exec[h].pc = "idle"

\* The capsule is claimed once, and nothing left before its owner executes.
ClaimedOnce ==
    /\ owner.stage # "none" => capsule.state \notin {"none", "AWAITING_EXECUTION"}
    /\ capsule.state \in {"none", "AWAITING_EXECUTION"} => sent[Live] = 0
    /\ owner.stage \in BeforeNative => sent[Live] = 0
    /\ owner.stage = "native" /\ exec[Live].pc \in {"idle", "checked"} => sent[Live] = 0
    /\ record # "none" => sent[Live] # 0

\* What an outcome says, of the owner's and of the capsule's.
OutcomeTells(verdict) ==
    /\ verdict = "succeeded" => Settled /\ jit["live"].closed
    /\ verdict = "failed" => record = "failed"
    /\ verdict = PreSend => sent[Live] = 0

\* What the owner closes with is what became of the call, and what its handler
\* closes with is so unless the outcome was lost.
OwnerTells ==
    /\ owner.stage = "closing" => owner.verdict # "none" /\ OutcomeTells(owner.verdict)
    /\ owner.stage = "handling" =>
         /\ owner.verdict = PreSend
         /\ capsule.lost \/ OutcomeTells(PreSend)

CapsuleKeeps ==
    /\ capsule.state \in {"SUCCEEDED", "KNOWN_PROVIDER_FAILURE", "KNOWN_PRE_SEND_FAILURE"} =>
         owner.stage = "none"
    /\ capsule.state = "SUCCEEDED" => OutcomeTells("succeeded")
    /\ capsule.state = "KNOWN_PROVIDER_FAILURE" => OutcomeTells("failed")
    /\ capsule.state = "KNOWN_PRE_SEND_FAILURE" => capsule.lost \/ OutcomeTells(PreSend)

CapsuleTyped ==
    /\ capsule \in [state : {"none", "AWAITING_EXECUTION", "EXECUTING"} \cup Terminals,
                    expires : Nat, lost : BOOLEAN]
    /\ owner \in [stage : Stages, verdict : {"none"} \cup Verdicts]

CapsuleInv == CapsuleTyped /\ OwnerWorks /\ ClaimedOnce /\ OwnerTells /\ CapsuleKeeps

(***************************************************************************)
(* Steps                                                                   *)
(***************************************************************************)

ExecStep(e) ==
    \/ Executes(e)
    \/ e = Live /\ (Check \/ Consume \/ Lease \/ Authorise \/ ArmFails)

\* What is done around the executors.
Around ==
    \/ Prepares
    \/ Approve(1)
    \/ Revoke \/ ShowApproval \/ ApproveLive \/ OpenWindow \/ AuthoriseWindow \/ CreateJit

\* The next-state relation, by who moves.
LEMMA NextSplits == Next => Around \/ \E e \in Executors : ExecStep(e)
  BY DEF Next, Around, ExecStep, Executors

\* The sorts of the records that executors move.
ExecSort == [pc : Places, verdict : {"none"} \cup Verdicts, token : 0..MaxToken]
SlotStates == {"none", "prepared", "send_started", "unknown", "succeeded", "failed",
               "cancelled"}
SlotSort == [state : SlotStates, by : Executors, granted : BOOLEAN]
RunnerSort == [result : {"none", "not_sent"} \cup Answers,
               reservation : {"held", "released", "spent"},
               iteration : {"open", "completed", "aborted"}]
JitStates == {"none", "ready", "send_started"} \cup Verdicts
JitSort == [state : JitStates, closed : BOOLEAN, token : 0..MaxToken]

\* What the rows need of the types.
RowTyped ==
    /\ exec \in [Executors -> ExecSort]
    /\ sent \in [Executors -> 0..2]
    /\ slot \in SlotSort
    /\ record \in {"none"} \cup Answers
    /\ runner \in RunnerSort
    /\ human2 \in [given : BOOLEAN, expires : Nat, used : BOOLEAN]
    /\ jit \in [{"hermetic", "live"} -> JitSort]

\* The rows' types are the module's.
LEMMA TypesGiveRows == TypeOK => RowTyped
  BY DEF TypeOK, RowTyped, ExecSort, SlotSort, SlotStates, RunnerSort, JitSort, JitStates

\* An executor's step is its own.
LEMMA OthersStay ==
    ASSUME NEW e \in Executors, ExecStep(e), RowTyped, NEW f \in Executors, f # e
    PROVE  exec'[f] = exec[f] /\ sent'[f] = sent[f]
<1> USE DEF RowTyped, ExecSort, SlotSort, SlotStates, RunnerSort, JitSort,
            JitStates, At, Goes, Decides
<1>1. ASSUME NEW answer \in Answers \cup {Unknown}, Send(e, answer)
      PROVE  exec'[f] = exec[f] /\ sent'[f] = sent[f]
  BY <1>1 DEF Send
<1>2. CASE Begin(e)
  BY <1>2 DEF Begin
<1>3. CASE Grant(e)
  BY <1>3 DEF Grant
<1>4. CASE Prepare(e)
  BY <1>4 DEF Prepare
<1>5. CASE Start(e)
  BY <1>5 DEF Start
<1>6. CASE Arm(e)
  BY <1>6 DEF Arm
<1>7. CASE Record(e)
  BY <1>7 DEF Record
<1>8. CASE StoreResult(e)
  BY <1>8 DEF StoreResult
<1>9. CASE CloseRunner(e)
  BY <1>9 DEF CloseRunner, Finished
<1>10. CASE Fault(e)
  BY <1>10 DEF Fault
<1>11. CASE Abort(e)
  BY <1>11 DEF Abort, Aborted
<1>12. CASE Doubt(e)
  BY <1>12 DEF Doubt
<1>13. CASE Conclude(e)
  BY <1>13 DEF Conclude
<1>14. CASE Clean(e)
  BY <1>14 DEF Clean, Released, Concluded
<1>15. CASE Crash(e)
  BY <1>15 DEF Crash
<1>16. CASE e = Live /\ Check
  BY <1>16 DEF Check
<1>17. CASE e = Live /\ Consume
  BY <1>17 DEF Consume
<1>18. CASE e = Live /\ Lease
  BY <1>18 DEF Lease, Acquired
<1>19. CASE e = Live /\ Authorise
  BY <1>19 DEF Authorise
<1>20. CASE e = Live /\ ArmFails
  BY <1>20 DEF ArmFails
<1> QED BY <1>1, <1>2, <1>3, <1>4, <1>5, <1>6, <1>7, <1>8, <1>9, <1>10, <1>11,
           <1>12, <1>13, <1>14, <1>15, <1>16, <1>17, <1>18, <1>19, <1>20 DEF
           ExecStep, Executes

\* What a step does to the slot, when the slot is not its executor's.
SlotMove(e) ==
    slot.by # e => \/ slot'.state = slot.state /\ slot'.by = slot.by
                   \/ slot.state = "none"

\* The slot is taken when nobody has it, and moved by who has it.
LEMMA OwnSlotStep ==
    ASSUME NEW e \in Executors, ExecStep(e), RowTyped, SlotRow(e),
           exec[e].pc = "answered" => exec[e].verdict \in Answers
    PROVE  SlotRow(e)' /\ SlotMove(e)
<1> USE DEF RowTyped, ExecSort, SlotSort, SlotStates, RunnerSort, JitSort,
            JitStates, At, Goes, Decides, callVars, Resting, SlotRow, SlotMove,
            Path, Places, Answers, PreSend, Unknown, Verdicts
<1>1. ASSUME NEW answer \in Answers \cup {Unknown}, Send(e, answer)
      PROVE  SlotRow(e)' /\ SlotMove(e)
  BY <1>1 DEF Send
<1>2. CASE Begin(e)
  BY <1>2 DEF Begin
<1>3. CASE Grant(e)
  BY <1>3 DEF Grant
<1>4. CASE Prepare(e)
  BY <1>4 DEF Prepare
<1>5. CASE Start(e)
  BY <1>5 DEF Start
<1>6. CASE Arm(e)
  BY <1>6 DEF Arm
<1>7. CASE Record(e)
  BY <1>7 DEF Record
<1>8. CASE StoreResult(e)
  BY <1>8 DEF StoreResult
<1>9. CASE CloseRunner(e)
  BY <1>9 DEF CloseRunner, Finished
<1>10. CASE Fault(e)
  BY <1>10 DEF Fault
<1>11. CASE Abort(e)
  BY <1>11 DEF Abort, Aborted
<1>12. CASE Doubt(e)
  BY <1>12 DEF Doubt
<1>13. CASE Conclude(e)
  BY <1>13 DEF Conclude, MayFollow
<1>14. CASE Clean(e)
  BY <1>14 DEF Clean, Released, Concluded
<1>15. CASE Crash(e)
  BY <1>15 DEF Crash
<1>16. CASE e = Live /\ Check
  BY <1>16 DEF Check
<1>17. CASE e = Live /\ Consume
  BY <1>17 DEF Consume
<1>18. CASE e = Live /\ Lease
  BY <1>18 DEF Lease, Acquired
<1>19. CASE e = Live /\ Authorise
  BY <1>19 DEF Authorise
<1>20. CASE e = Live /\ ArmFails
  BY <1>20 DEF ArmFails
<1> QED BY <1>1, <1>2, <1>3, <1>4, <1>5, <1>6, <1>7, <1>8, <1>9, <1>10, <1>11,
           <1>12, <1>13, <1>14, <1>15, <1>16, <1>17, <1>18, <1>19, <1>20 DEF
           ExecStep, Executes

\* Records and results stay, and so does what is settled.
ResultMove ==
    /\ record # "none" => record' = record
    /\ runner.result = "succeeded" => runner'.result = "succeeded"
    /\ Settled => Settled'

\* Nothing is recorded twice, and a success is not taken back.
LEMMA ResultMoves ==
    ASSUME NEW e \in Executors, ExecStep(e), RowTyped
    PROVE  ResultMove
<1> USE DEF RowTyped, ExecSort, SlotSort, SlotStates, RunnerSort, JitSort,
            JitStates, At, callVars, ResultMove, Settled
<1>1. ASSUME NEW answer \in Answers \cup {Unknown}, Send(e, answer)
      PROVE  ResultMove
  BY <1>1 DEF Send
<1>2. CASE Begin(e)
  BY <1>2 DEF Begin
<1>3. CASE Grant(e)
  BY <1>3 DEF Grant
<1>4. CASE Prepare(e)
  BY <1>4 DEF Prepare
<1>5. CASE Start(e)
  BY <1>5 DEF Start
<1>6. CASE Arm(e)
  BY <1>6 DEF Arm
<1>7. CASE Record(e)
  BY <1>7 DEF Record
<1>8. CASE StoreResult(e)
  BY <1>8 DEF StoreResult
<1>9. CASE CloseRunner(e)
  BY <1>9 DEF CloseRunner, Finished
<1>10. CASE Fault(e)
  BY <1>10 DEF Fault
<1>11. CASE Abort(e)
  BY <1>11 DEF Abort, Aborted
<1>12. CASE Doubt(e)
  BY <1>12 DEF Doubt
<1>13. CASE Conclude(e)
  BY <1>13 DEF Conclude
<1>14. CASE Clean(e)
  BY <1>14 DEF Clean, Released, Concluded
<1>15. CASE Crash(e)
  BY <1>15 DEF Crash
<1>16. CASE e = Live /\ Check
  BY <1>16 DEF Check
<1>17. CASE e = Live /\ Consume
  BY <1>17 DEF Consume
<1>18. CASE e = Live /\ Lease
  BY <1>18 DEF Lease, Acquired
<1>19. CASE e = Live /\ Authorise
  BY <1>19 DEF Authorise
<1>20. CASE e = Live /\ ArmFails
  BY <1>20 DEF ArmFails
<1> QED BY <1>1, <1>2, <1>3, <1>4, <1>5, <1>6, <1>7, <1>8, <1>9, <1>10, <1>11,
           <1>12, <1>13, <1>14, <1>15, <1>16, <1>17, <1>18, <1>19, <1>20 DEF
           ExecStep, Executes

\* An executor concludes with success what it has settled.
LEMMA OwnResultStep ==
    ASSUME NEW e \in Executors, ExecStep(e), RowTyped, ResultRow(e), ResultMove
    PROVE  ResultRow(e)'
<1> USE DEF RowTyped, ExecSort, SlotSort, SlotStates, RunnerSort, JitSort,
            JitStates, At, Goes, Decides, callVars, Resting, ResultRow, ResultMove,
            Settled, Places, Answers, PreSend, Unknown, Verdicts, Path
<1>1. ASSUME NEW answer \in Answers \cup {Unknown}, Send(e, answer)
      PROVE  ResultRow(e)'
  BY <1>1 DEF Send
<1>2. CASE Begin(e)
  BY <1>2 DEF Begin
<1>3. CASE Grant(e)
  BY <1>3 DEF Grant
<1>4. CASE Prepare(e)
  BY <1>4 DEF Prepare
<1>5. CASE Start(e)
  BY <1>5 DEF Start
<1>6. CASE Arm(e)
  BY <1>6 DEF Arm
<1>7. CASE Record(e)
  BY <1>7 DEF Record
<1>8. CASE StoreResult(e)
  BY <1>8 DEF StoreResult
<1>9. CASE CloseRunner(e)
  <2>1. /\ exec[e].pc = "stored" /\ exec[e].verdict \in Answers /\ record = exec[e].verdict
        /\ exec' = [exec EXCEPT ![e].pc = "concluding"] /\ UNCHANGED record
        /\ exec[e].verdict = "succeeded" => runner.result = "succeeded"
    BY <1>9 DEF CloseRunner
  <2>2. exec[e].verdict = "succeeded" =>
          runner' = [runner EXCEPT !.iteration = "completed", !.reservation = "spent"]
    BY <1>9 DEF CloseRunner, Finished
  <2>3. exec[e].verdict = "succeeded" => Settled'
    BY <2>1, <2>2
  <2>4. exec'[e].pc = "concluding" /\ exec'[e].verdict = exec[e].verdict
    BY <2>1
  <2> QED BY <2>1, <2>3, <2>4
<1>10. CASE Fault(e)
  BY <1>10 DEF Fault
<1>11. CASE Abort(e)
  BY <1>11 DEF Abort, Aborted
<1>12. CASE Doubt(e)
  BY <1>12 DEF Doubt
<1>13. CASE Conclude(e)
  BY <1>13 DEF Conclude
<1>14. CASE Clean(e)
  BY <1>14 DEF Clean, Released, Concluded
<1>15. CASE Crash(e)
  BY <1>15 DEF Crash
<1>16. CASE e = Live /\ Check
  BY <1>16 DEF Check
<1>17. CASE e = Live /\ Consume
  BY <1>17 DEF Consume
<1>18. CASE e = Live /\ Lease
  BY <1>18 DEF Lease, Acquired
<1>19. CASE e = Live /\ Authorise
  BY <1>19 DEF Authorise
<1>20. CASE e = Live /\ ArmFails
  BY <1>20 DEF ArmFails
<1> QED BY <1>1, <1>2, <1>3, <1>4, <1>5, <1>6, <1>7, <1>8, <1>9, <1>10, <1>11,
           <1>12, <1>13, <1>14, <1>15, <1>16, <1>17, <1>18, <1>19, <1>20 DEF
           ExecStep, Executes

\* The live path starts with an approval nobody used, and uses it up.
LEMMA LiveStep ==
    ASSUME NEW e \in Executors, ExecStep(e), RowTyped, LiveOnce, e = Live, SlotRow(e), ResultRow(e)
    PROVE  LiveOnce'
<1> USE DEF RowTyped, ExecSort, SlotSort, SlotStates, RunnerSort, JitSort,
            JitStates, At, Goes, Decides, callVars, humanVars, Resting, LiveOnce,
            SlotRow, PreSent, Ready, Approved, Answers, PreSend, Unknown, Verdicts,
            Path, Executors
<1>1. ASSUME NEW answer \in Answers \cup {Unknown}, Send(e, answer)
      PROVE  LiveOnce'
  BY <1>1 DEF Send
<1>2. CASE Begin(e)
  BY <1>2, ExecutorsAssumption DEF Begin
<1>3. CASE Grant(e)
  BY <1>3 DEF Grant
<1>4. CASE Prepare(e)
  BY <1>4 DEF Prepare
<1>5. CASE Start(e)
  BY <1>5 DEF Start
<1>6. CASE Arm(e)
  BY <1>6 DEF Arm
<1>7. CASE Record(e)
  BY <1>7 DEF Record
<1>8. CASE StoreResult(e)
  BY <1>8 DEF StoreResult
<1>9. CASE CloseRunner(e)
  BY <1>9 DEF CloseRunner, Finished, ResultRow
<1>10. CASE Fault(e)
  BY <1>10 DEF Fault
<1>11. CASE Abort(e)
  BY <1>11 DEF Abort, Aborted
<1>12. CASE Doubt(e)
  BY <1>12 DEF Doubt
<1>13. CASE Conclude(e)
  BY <1>13 DEF Conclude
<1>14. CASE Clean(e)
  BY <1>14 DEF Clean, Released, Concluded
<1>15. CASE Crash(e)
  BY <1>15 DEF Crash
<1>16. CASE e = Live /\ Check
  BY <1>16 DEF Check
<1>17. CASE e = Live /\ Consume
  BY <1>17 DEF Consume
<1>18. CASE e = Live /\ Lease
  BY <1>18 DEF Lease, Acquired
<1>19. CASE e = Live /\ Authorise
  BY <1>19 DEF Authorise
<1>20. CASE e = Live /\ ArmFails
  BY <1>20 DEF ArmFails
<1> QED BY <1>1, <1>2, <1>3, <1>4, <1>5, <1>6, <1>7, <1>8, <1>9, <1>10, <1>11,
           <1>12, <1>13, <1>14, <1>15, <1>16, <1>17, <1>18, <1>19, <1>20 DEF
           ExecStep, Executes

\* The hermetic path has no part in it.
LEMMA HermeticKeepsLive ==
    ASSUME NEW e \in Executors, ExecStep(e), RowTyped, LiveOnce, e # Live
    PROVE  LiveOnce'
<1> USE DEF RowTyped, ExecSort, SlotSort, SlotStates, RunnerSort, JitSort,
            JitStates, At, Goes, Decides, callVars, humanVars, Resting, LiveOnce,
            Executors
<1>1. ASSUME NEW answer \in Answers \cup {Unknown}, Send(e, answer)
      PROVE  LiveOnce'
  BY <1>1 DEF Send
<1>2. CASE Begin(e)
  BY <1>2 DEF Begin
<1>3. CASE Grant(e)
  BY <1>3 DEF Grant
<1>4. CASE Prepare(e)
  BY <1>4 DEF Prepare
<1>5. CASE Start(e)
  BY <1>5 DEF Start
<1>6. CASE Arm(e)
  BY <1>6 DEF Arm
<1>7. CASE Record(e)
  BY <1>7 DEF Record
<1>8. CASE StoreResult(e)
  BY <1>8 DEF StoreResult
<1>9. CASE CloseRunner(e)
  BY <1>9 DEF CloseRunner, Finished
<1>10. CASE Fault(e)
  BY <1>10 DEF Fault
<1>11. CASE Abort(e)
  BY <1>11 DEF Abort, Aborted
<1>12. CASE Doubt(e)
  BY <1>12 DEF Doubt
<1>13. CASE Conclude(e)
  BY <1>13 DEF Conclude
<1>14. CASE Clean(e)
  BY <1>14 DEF Clean, Released, Concluded
<1>15. CASE Crash(e)
  BY <1>15 DEF Crash
<1>16. CASE e = Live /\ Check
  BY <1>16 DEF Check
<1>17. CASE e = Live /\ Consume
  BY <1>17 DEF Consume
<1>18. CASE e = Live /\ Lease
  BY <1>18 DEF Lease, Acquired
<1>19. CASE e = Live /\ Authorise
  BY <1>19 DEF Authorise
<1>20. CASE e = Live /\ ArmFails
  BY <1>20 DEF ArmFails
<1> QED BY <1>1, <1>2, <1>3, <1>4, <1>5, <1>6, <1>7, <1>8, <1>9, <1>10, <1>11,
           <1>12, <1>13, <1>14, <1>15, <1>16, <1>17, <1>18, <1>19, <1>20 DEF
           ExecStep, Executes

\* An authority is only ever closed with what its executor concluded.
JitMove ==
    /\ jit["hermetic"].state # "none" => jit'["hermetic"].state # "none"
    /\ \A p \in DOMAIN jit' : jit'[p].state = "succeeded" =>
         \/ p \in DOMAIN jit /\ jit[p].state = "succeeded"
         \/ Settled

\* So the authority of a step.
LEMMA JitMoves ==
    ASSUME NEW e \in Executors, ExecStep(e), RowTyped, ResultRow(e)
    PROVE  JitMove
<1> USE DEF RowTyped, ExecSort, SlotSort, SlotStates, RunnerSort, JitSort,
            JitStates, At, Goes, Decides, callVars, humanVars, prepVars, runVars,
            reviewVars, dnsVars, JitMove, ResultRow, Path, Answers, PreSend,
            Unknown, Verdicts
<1>1. ASSUME NEW answer \in Answers \cup {Unknown}, Send(e, answer)
      PROVE  JitMove
  BY <1>1 DEF Send
<1>2. CASE Begin(e)
  BY <1>2 DEF Begin
<1>3. CASE Grant(e)
  BY <1>3 DEF Grant
<1>4. CASE Prepare(e)
  BY <1>4 DEF Prepare
<1>5. CASE Start(e)
  BY <1>5 DEF Start
<1>6. CASE Arm(e)
  BY <1>6 DEF Arm
<1>7. CASE Record(e)
  BY <1>7 DEF Record
<1>8. CASE StoreResult(e)
  BY <1>8 DEF StoreResult
<1>9. CASE CloseRunner(e)
  BY <1>9 DEF CloseRunner, Finished
<1>10. CASE Fault(e)
  BY <1>10 DEF Fault
<1>11. CASE Abort(e)
  BY <1>11 DEF Abort, Aborted
<1>12. CASE Doubt(e)
  BY <1>12 DEF Doubt
<1>13. CASE Conclude(e)
  BY <1>13 DEF Conclude
<1>14. CASE Clean(e)
  BY <1>14 DEF Clean, Released, Concluded
<1>15. CASE Crash(e)
  BY <1>15 DEF Crash
<1>16. CASE e = Live /\ Check
  BY <1>16 DEF Check
<1>17. CASE e = Live /\ Consume
  BY <1>17 DEF Consume
<1>18. CASE e = Live /\ Lease
  BY <1>18 DEF Lease, Acquired
<1>19. CASE e = Live /\ Authorise
  BY <1>19 DEF Authorise
<1>20. CASE e = Live /\ ArmFails
  BY <1>20 DEF ArmFails
<1> QED BY <1>1, <1>2, <1>3, <1>4, <1>5, <1>6, <1>7, <1>8, <1>9, <1>10, <1>11,
           <1>12, <1>13, <1>14, <1>15, <1>16, <1>17, <1>18, <1>19, <1>20 DEF
           ExecStep, Executes

\* Until the hermetic authority is there, only the live path moves.
LEMMA HermeticWaitsStep ==
    ASSUME NEW e \in Executors, ExecStep(e), RowTyped, HermeticWaits, LiveOnce, SlotRow(e), JitMove
    PROVE  HermeticWaits'
<1> USE DEF RowTyped, ExecSort, SlotSort, SlotStates, RunnerSort, JitSort,
            JitStates, At, Goes, Decides, callVars, humanVars, prepVars, runVars,
            reviewVars, dnsVars, HermeticWaits, LiveOnce, SlotRow, PreSent, Ready,
            Approved, Path, Answers, PreSend, Unknown, Verdicts, Executors, Resting
<1>1. ASSUME NEW answer \in Answers \cup {Unknown}, Send(e, answer)
      PROVE  HermeticWaits'
  BY <1>1 DEF Send
<1>2. CASE Begin(e)
  BY <1>2 DEF Begin
<1>3. CASE Grant(e)
  BY <1>3 DEF Grant
<1>4. CASE Prepare(e)
  BY <1>4 DEF Prepare
<1>5. CASE Start(e)
  BY <1>5 DEF Start
<1>6. CASE Arm(e)
  BY <1>6 DEF Arm
<1>7. CASE Record(e)
  BY <1>7 DEF Record
<1>8. CASE StoreResult(e)
  BY <1>8 DEF StoreResult
<1>9. CASE CloseRunner(e)
  BY <1>9 DEF CloseRunner, Finished
<1>10. CASE Fault(e)
  BY <1>10 DEF Fault
<1>11. CASE Abort(e)
  BY <1>11 DEF Abort, Aborted
<1>12. CASE Doubt(e)
  BY <1>12 DEF Doubt
<1>13. CASE Conclude(e)
  <2>1. CASE jit["hermetic"].state # "none"
    BY <2>1 DEF JitMove
  <2>2. CASE jit["hermetic"].state = "none"
    <3>1. e = Live
      BY <1>13, <2>2 DEF Conclude
    <3>2. exec'[e].pc \notin PreSent /\ UNCHANGED <<runner, human2, sent>>
      BY <1>13 DEF Conclude
    <3>3. \A h \in Hermetic : exec'[h] = exec[h]
      BY <1>13, <3>1, ExecutorsAssumption DEF Conclude
    <3> QED BY <2>2, <3>1, <3>2, <3>3
  <2> QED BY <2>1, <2>2
<1>14. CASE Clean(e)
  BY <1>14 DEF Clean, Released, Concluded
<1>15. CASE Crash(e)
  BY <1>15 DEF Crash
<1>16. CASE e = Live /\ Check
  BY <1>16, ExecutorsAssumption DEF Check
<1>17. CASE e = Live /\ Consume
  BY <1>17 DEF Consume
<1>18. CASE e = Live /\ Lease
  BY <1>18 DEF Lease, Acquired
<1>19. CASE e = Live /\ Authorise
  BY <1>19 DEF Authorise
<1>20. CASE e = Live /\ ArmFails
  BY <1>20 DEF ArmFails
<1> QED BY <1>1, <1>2, <1>3, <1>4, <1>5, <1>6, <1>7, <1>8, <1>9, <1>10, <1>11,
           <1>12, <1>13, <1>14, <1>15, <1>16, <1>17, <1>18, <1>19, <1>20 DEF
           ExecStep, Executes

(***************************************************************************)
(* Types                                                                   *)
(***************************************************************************)

\* The token of a lease that is acquired is one of the tokens.
LEMMA LeaseTyped ==
    ASSUME PrepTypeOK, Acquired
    PROVE  lease.token + 1 \in 0..MaxToken
  BY TtlsAssumption DEF PrepTypeOK, Acquired

\* What moves an executor leaves it a state of its sort.
LEMMA GoesTyped ==
    ASSUME NEW e \in Executors, exec \in [Executors -> ExecSort], NEW pc \in Places, Goes(e, pc)
    PROVE  exec' \in [Executors -> ExecSort]
<1>1. [exec[e] EXCEPT !.pc = pc] \in ExecSort
  BY DEF ExecSort
<1>2. exec' = [exec EXCEPT ![e] = [exec[e] EXCEPT !.pc = pc]]
  BY DEF Goes
<1> QED BY <1>1, <1>2

\* So does what decides.
LEMMA DecidesTyped ==
    ASSUME NEW e \in Executors, exec \in [Executors -> ExecSort], NEW pc \in Places,
           NEW verdict \in Verdicts, Decides(e, pc, verdict)
    PROVE  exec' \in [Executors -> ExecSort]
<1>1. [exec[e] EXCEPT !.pc = pc, !.verdict = verdict] \in ExecSort
  BY DEF ExecSort
<1>2. exec' = [exec EXCEPT ![e] = [exec[e] EXCEPT !.pc = pc, !.verdict = verdict]]
  BY DEF Decides
<1> QED BY <1>1, <1>2

\* And what lets it rest.
LEMMA RestingTyped ==
    ASSUME NEW e \in Executors, exec \in [Executors -> ExecSort],
           exec' = [exec EXCEPT ![e] = Resting]
    PROVE  exec' \in [Executors -> ExecSort]
<1>1. Resting \in ExecSort
  BY TtlsAssumption DEF Resting, ExecSort, Places
<1> QED BY <1>1

\* The events of an authority.
LEMMA JitUpdates ==
    ASSUME NEW f \in [{"hermetic", "live"} -> JitSort], NEW p \in {"hermetic", "live"},
           NEW state \in JitStates
    PROVE  /\ [f EXCEPT ![p].state = state] \in [{"hermetic", "live"} -> JitSort]
           /\ [f EXCEPT ![p].state = state, ![p].closed = TRUE]
                \in [{"hermetic", "live"} -> JitSort]
<1>1. /\ [f[p] EXCEPT !.state = state] \in JitSort
      /\ [f[p] EXCEPT !.state = state, !.closed = TRUE] \in JitSort
  BY DEF JitSort
<1>2. /\ [f EXCEPT ![p].state = state] = [f EXCEPT ![p] = [f[p] EXCEPT !.state = state]]
      /\ [f EXCEPT ![p].state = state, ![p].closed = TRUE]
           = [f EXCEPT ![p] = [f[p] EXCEPT !.state = state, !.closed = TRUE]]
  OBVIOUS
<1> QED BY <1>1, <1>2

\* An executor's state has its type.
LEMMA ExecTyped ==
    ASSUME NEW e \in Executors, ExecStep(e), RowTyped, PrepTypeOK
    PROVE  exec' \in [Executors -> ExecSort]
<1> USE DEF Places, Answers, PreSend, Unknown, Verdicts, RowTyped
<1>1. ASSUME NEW answer \in Answers \cup {Unknown}, Send(e, answer)
      PROVE  exec' \in [Executors -> ExecSort]
  BY <1>1, GoesTyped, DecidesTyped, RestingTyped DEF Send
<1>2. CASE Begin(e)
  <2>1. jit["hermetic"].token \in 0..MaxToken
    BY DEF JitSort
  <2>2. PICK pc \in Places : exec' = [exec EXCEPT ![e] = [pc |-> pc, verdict |-> "none",
                                                       token |-> jit["hermetic"].token]]
    BY <1>2 DEF Begin
  <2>3. [pc |-> pc, verdict |-> "none", token |-> jit["hermetic"].token] \in ExecSort
    BY <2>1 DEF ExecSort
  <2> QED BY <2>2, <2>3
<1>3. CASE Grant(e)
  BY <1>3, GoesTyped, DecidesTyped, RestingTyped DEF Grant
<1>4. CASE Prepare(e)
  BY <1>4, GoesTyped, DecidesTyped, RestingTyped DEF Prepare
<1>5. CASE Start(e)
  BY <1>5, GoesTyped, DecidesTyped, RestingTyped DEF Start
<1>6. CASE Arm(e)
  BY <1>6, GoesTyped, DecidesTyped, RestingTyped DEF Arm
<1>7. CASE Record(e)
  BY <1>7, GoesTyped, DecidesTyped, RestingTyped DEF Record
<1>8. CASE StoreResult(e)
  BY <1>8, GoesTyped, DecidesTyped, RestingTyped DEF StoreResult
<1>9. CASE CloseRunner(e)
  BY <1>9, GoesTyped, DecidesTyped, RestingTyped DEF CloseRunner
<1>10. CASE Fault(e)
  BY <1>10, GoesTyped, DecidesTyped, RestingTyped DEF Fault
<1>11. CASE Abort(e)
  BY <1>11, GoesTyped, DecidesTyped, RestingTyped DEF Abort
<1>12. CASE Doubt(e)
  BY <1>12, GoesTyped, DecidesTyped, RestingTyped DEF Doubt
<1>13. CASE Conclude(e)
  BY <1>13, GoesTyped, DecidesTyped, RestingTyped DEF Conclude
<1>14. CASE Clean(e)
  BY <1>14, GoesTyped, DecidesTyped, RestingTyped DEF Clean
<1>15. CASE Crash(e)
  BY <1>15, GoesTyped, DecidesTyped, RestingTyped DEF Crash
<1>16. CASE e = Live /\ Check
  BY <1>16, GoesTyped, DecidesTyped, RestingTyped DEF Check
<1>17. CASE e = Live /\ Consume
  BY <1>17, GoesTyped, DecidesTyped, RestingTyped DEF Consume
<1>18. CASE e = Live /\ Lease
  <2>1. [exec[e] EXCEPT !.pc = "begun", !.token = lease.token + 1] \in ExecSort
    <3>1. lease.token + 1 \in 0..MaxToken
      BY <1>18, LeaseTyped DEF Lease
    <3>2. exec[e] \in ExecSort
      OBVIOUS
    <3> QED BY ONLY <3>1, <3>2 DEF ExecSort, Places
  <2>2. exec' = [exec EXCEPT ![e] = [exec[e] EXCEPT !.pc = "begun", !.token = lease.token + 1]]
    BY <1>18 DEF Lease
  <2> QED BY <2>1, <2>2
<1>19. CASE e = Live /\ Authorise
  BY <1>19, GoesTyped, DecidesTyped, RestingTyped DEF Authorise
<1>20. CASE e = Live /\ ArmFails
  BY <1>20, GoesTyped, DecidesTyped, RestingTyped DEF ArmFails
<1> QED BY <1>1, <1>2, <1>3, <1>4, <1>5, <1>6, <1>7, <1>8, <1>9, <1>10, <1>11,
           <1>12, <1>13, <1>14, <1>15, <1>16, <1>17, <1>18, <1>19, <1>20 DEF
           ExecStep, Executes

\* So have the call and its authorities.
LEMMA CallTyped ==
    ASSUME NEW e \in Executors, ExecStep(e), RowTyped, SlotRow(e), ResultRow(e)
    PROVE  /\ slot' \in SlotSort /\ record' \in {"none"} \cup Answers /\ runner' \in RunnerSort
           /\ human2' \in [given : BOOLEAN, expires : Nat, used : BOOLEAN]
           /\ sent' \in [Executors -> 0..2] /\ jit' \in [{"hermetic", "live"} -> JitSort]
<1> USE DEF RowTyped, callVars, humanVars
<1>1. ASSUME NEW answer \in Answers \cup {Unknown}, Send(e, answer)
      PROVE  /\ slot' \in SlotSort /\ record' \in {"none"} \cup Answers /\ runner' \in RunnerSort
             /\ human2' \in [given : BOOLEAN, expires : Nat, used : BOOLEAN]
             /\ sent' \in [Executors -> 0..2] /\ jit' \in [{"hermetic", "live"} -> JitSort]
  BY <1>1 DEF Send, SlotRow, At
<1>2. CASE Begin(e)
  BY <1>2 DEF Begin
<1>3. CASE Grant(e)
  BY <1>3 DEF Grant, SlotSort, SlotStates
<1>4. CASE Prepare(e)
  BY <1>4 DEF Prepare, SlotSort, SlotStates
<1>5. CASE Start(e)
  BY <1>5 DEF Start, SlotSort, SlotStates
<1>6. CASE Arm(e)
  BY <1>6, JitUpdates DEF Arm, Path, JitStates
<1>7. CASE Record(e)
  BY <1>7 DEF Record, SlotSort, SlotStates, ResultRow, At, Answers
<1>8. CASE StoreResult(e)
  BY <1>8 DEF StoreResult, RunnerSort, ResultRow, At, Answers
<1>9. CASE CloseRunner(e)
  BY <1>9 DEF CloseRunner, Finished, RunnerSort, ResultRow, At, Answers
<1>10. CASE Fault(e)
  BY <1>10 DEF Fault
<1>11. CASE Abort(e)
  BY <1>11 DEF Abort, Aborted, SlotSort, SlotStates, RunnerSort
<1>12. CASE Doubt(e)
  BY <1>12 DEF Doubt, SlotSort, SlotStates
<1>13. CASE Conclude(e)
  <2>1. Path(e) \in {"hermetic", "live"} /\ exec[e].verdict \in {"none"} \cup Verdicts
    BY DEF Path, ExecSort
  <2>2. MayFollow(Path(e), exec[e].verdict) => exec[e].verdict \in JitStates
    BY <2>1 DEF JitStates, MayFollow
  <2>3. \/ jit' = jit
        \/ /\ exec[e].verdict \in JitStates
           /\ jit' = [jit EXCEPT ![Path(e)].state = exec[e].verdict, ![Path(e)].closed = TRUE]
    BY <1>13, <2>2 DEF Conclude
  <2>4. jit' \in [{"hermetic", "live"} -> JitSort]
    BY ONLY <2>1, <2>3, JitUpdates, jit \in [{"hermetic", "live"} -> JitSort]
  <2> QED BY <1>13, <2>4 DEF Conclude
<1>14. CASE Clean(e)
  BY <1>14 DEF Clean, Released, Concluded
<1>15. CASE Crash(e)
  BY <1>15 DEF Crash
<1>16. CASE e = Live /\ Check
  BY <1>16 DEF Check
<1>17. CASE e = Live /\ Consume
  BY <1>17 DEF Consume
<1>18. CASE e = Live /\ Lease
  BY <1>18 DEF Lease, Acquired
<1>19. CASE e = Live /\ Authorise
  <2>1. [state |-> "ready", closed |-> FALSE, token |-> exec[Live].token] \in JitSort
    BY <1>19 DEF JitSort, JitStates, ExecSort
  <2> QED BY <1>19, <2>1 DEF Authorise
<1>20. CASE e = Live /\ ArmFails
  BY <1>20 DEF ArmFails
<1> QED BY <1>1, <1>2, <1>3, <1>4, <1>5, <1>6, <1>7, <1>8, <1>9, <1>10, <1>11,
           <1>12, <1>13, <1>14, <1>15, <1>16, <1>17, <1>18, <1>19, <1>20 DEF
           ExecStep, Executes

\* What the preparation does, whatever became of its call.
PrepStep ==
    \/ Tick \/ Change \/ Pause \/ Resume \/ Work \/ CreateSnapshot
    \/ \E c \in Contents : Invalidate(c) \/ IssueJit(c) \/ ShowPreview(c) \/ RequestDns(c)
    \/ \E c \in Contents, result \in {"passed", "failed"} : RecordReceipt(c, result)
    \/ \E t \in 1..MaxToken, c \in Contents, done \in BOOLEAN : HandOff(t, c, done)
    \/ \E done \in BOOLEAN : CloseWaiting(done) \/ BeginAttempt(done)
    \/ ResolverLost \/ RecoverUnknown
    \/ \E result \in {"passed", "failed", "unknown"} : ResolverReturns(result)

\* What goes on while a call is executed is of this kind.
LEMMA PreparesIsStep ==
    ASSUME Prepares
    PROVE  PrepStep /\ UNCHANGED nativeVars
<1>1. 1 \in Contents
  BY ContentsAssumption
<1>2. Touched \in BOOLEAN /\ Begun \in BOOLEAN
  BY DEF Touched, Begun
<1> QED BY <1>1, <1>2 DEF Prepares, PrepStep

\* And so is what happens to a call that nobody executes.
LEMMA PrepNextIsStep ==
    ASSUME PrepTypeOK, PrepNext
    PROVE  PrepStep
  BY DEF PrepTypeOK, PrepNext, PrepStep

\* Leases and claims keep their types.
LEMMA AcquiredTyped ==
    ASSUME PrepTypeOK, Acquired
    PROVE  /\ lease' \in [token : 1..MaxToken, expires : Nat] /\ claims' \in [1..MaxToken -> Nat]
           /\ lease'.token = lease.token + 1
<1>1. now + LeaseTtl \in Nat /\ lease.token + 1 \in 1..MaxToken
  BY TtlsAssumption DEF PrepTypeOK, Acquired
<1> QED BY <1>1 DEF PrepTypeOK, Acquired

LEMMA ReleasedTyped ==
    ASSUME PrepTypeOK, NEW t, Released(t)
    PROVE  /\ lease' \in [token : 1..MaxToken, expires : Nat] /\ claims' \in [1..MaxToken -> Nat]
           /\ lease'.token = lease.token
  BY DEF PrepTypeOK, Released

\* A handoff that moves remains that of its call.
LEMMA HandoffTyped ==
    ASSUME PrepTypeOK, NEW state \in HandoffStates,
           \/ handoff' = [handoff EXCEPT !.state = state]
           \/ handoff' = handoff
    PROVE  /\ handoff' \in [state : HandoffStates, of : {0} \cup Contents, token : 0..MaxToken]
           /\ handoff'.of = handoff.of /\ handoff'.token = handoff.token
  BY DEF PrepTypeOK


\* The preparation keeps its types.
LEMMA PrepTyped ==
    ASSUME PrepTypeOK, PrepStep
    PROVE  PrepTypeOK'
<1> USE DEF PrepTypeOK, runVars, reviewVars, dnsVars
<1>1. CASE Tick
  BY <1>1, TtlsAssumption DEF Tick
<1>2. CASE Change
  BY <1>2 DEF Change
<1>3. CASE Pause
  BY <1>3 DEF Pause, Paused, Paused
<1>4. CASE Resume
  BY <1>4 DEF Resume
<1>5. CASE Work
  BY <1>5, AcquiredTyped DEF Work
<1>6. CASE CreateSnapshot
  BY <1>6 DEF CreateSnapshot, SnapshotStates
<1>7. ASSUME NEW c \in Contents,
             Invalidate(c)
      PROVE  PrepTypeOK'
  BY <1>7 DEF Invalidate, SnapshotStates
<1>8. ASSUME NEW c \in Contents,
             IssueJit(c)
      PROVE  PrepTypeOK'
  BY <1>8, AcquiredTyped DEF IssueJit, SnapshotStates
<1>9. ASSUME NEW c \in Contents,
             ShowPreview(c)
      PROVE  PrepTypeOK'
  BY <1>9 DEF ShowPreview
<1>10. ASSUME NEW c \in Contents,
             RequestDns(c)
      PROVE  PrepTypeOK'
  BY <1>10, TtlsAssumption DEF RequestDns
<1>11. ASSUME NEW c \in Contents, NEW result \in {"passed", "failed"},
             RecordReceipt(c, result)
      PROVE  PrepTypeOK'
  BY <1>11 DEF RecordReceipt
<1>12. ASSUME NEW t \in 1..MaxToken, NEW c \in Contents, NEW done \in BOOLEAN,
             HandOff(t, c, done)
      PROVE  PrepTypeOK'
  <2>1. handoff' \in [state : HandoffStates, of : {0} \cup Contents, token : 0..MaxToken]
    BY <1>12 DEF HandOff, HandoffStates
  <2> QED BY <1>12, <2>1, ReleasedTyped DEF HandOff
<1>13. ASSUME NEW done \in BOOLEAN,
             CloseWaiting(done)
      PROVE  PrepTypeOK'
  BY <1>13, HandoffTyped DEF CloseWaiting, HandoffStates
<1>14. ASSUME NEW done \in BOOLEAN,
             BeginAttempt(done)
      PROVE  PrepTypeOK'
  BY <1>14 DEF BeginAttempt, AttemptStates
<1>15. CASE ResolverLost
  BY <1>15 DEF ResolverLost
<1>16. CASE RecoverUnknown
  BY <1>16 DEF RecoverUnknown, AttemptStates
<1>17. ASSUME NEW result \in {"passed", "failed", "unknown"},
             ResolverReturns(result)
      PROVE  PrepTypeOK'
  BY <1>17 DEF ResolverReturns, Commits, AttemptStates
<1> HIDE DEF PrepTypeOK
<1> QED BY <1>1, <1>2, <1>3, <1>4, <1>5, <1>6, <1>7, <1>8, <1>9, <1>10, <1>11,
           <1>12, <1>13, <1>14, <1>15, <1>16, <1>17 DEF PrepStep

\* A handoff that waits gave up a claim no later step brings back.
HandedInv == HandedUnder /\ ClaimGivenUp

\* A new token is not the one the call was handed over under.
LEMMA AcquiredHands ==
    ASSUME PrepTypeOK, HandedInv, Acquired, UNCHANGED handoff
    PROVE  HandedInv'
<1>1. lease'.token = lease.token + 1 /\ lease.token \in Nat /\ handoff.token \in Nat
  BY AcquiredTyped DEF PrepTypeOK
<1>2. claims' = [claims EXCEPT ![lease.token + 1] = now + LeaseTtl]
  BY DEF Acquired
<1>3. claims'[handoff.token] = claims[handoff.token]
  BY <1>1, <1>2 DEF PrepTypeOK, HandedInv, HandedUnder
<1> QED BY <1>1, <1>3 DEF HandedInv, HandedUnder, ClaimGivenUp

\* A claim that is given up stays so.
LEMMA ReleasedHands ==
    ASSUME PrepTypeOK, HandedInv, NEW t, Released(t),
           handoff'.token = handoff.token, handoff'.state = Waiting => handoff.state = Waiting
    PROVE  HandedInv'
<1>1. lease'.token = lease.token /\ handoff.token \in 0..MaxToken
  BY ReleasedTyped DEF PrepTypeOK
<1>2. ASSUME NEW i \in 1..MaxToken, claims[i] = 0
      PROVE  claims'[i] = 0
  BY <1>2 DEF Released, PrepTypeOK
<1>3. handoff.state = Waiting => handoff.token \in 1..MaxToken /\ claims[handoff.token] = 0
  BY <1>1, TtlsAssumption DEF HandedInv, HandedUnder, ClaimGivenUp
<1> QED BY <1>1, <1>2, <1>3 DEF HandedInv, HandedUnder, ClaimGivenUp

\* The preparation takes claims under new tokens only.
LEMMA PrepHands ==
    ASSUME PrepTypeOK, HandedInv, PrepStep
    PROVE  HandedInv'
<1> USE DEF PrepTypeOK, HandedInv, HandedUnder, ClaimGivenUp, runVars, reviewVars,
            dnsVars
<1>1. CASE Tick
  BY <1>1 DEF Tick
<1>2. CASE Change
  BY <1>2 DEF Change
<1>3. CASE Pause
  BY <1>3 DEF Pause, Paused
<1>4. CASE Resume
  BY <1>4 DEF Resume
<1>5. CASE Work
  BY <1>5, AcquiredHands DEF Work
<1>6. CASE CreateSnapshot
  BY <1>6 DEF CreateSnapshot
<1>7. ASSUME NEW c \in Contents,
             Invalidate(c)
      PROVE  HandedInv'
  BY <1>7 DEF Invalidate
<1>8. ASSUME NEW c \in Contents,
             IssueJit(c)
      PROVE  HandedInv'
  BY <1>8, AcquiredHands DEF IssueJit
<1>9. ASSUME NEW c \in Contents,
             ShowPreview(c)
      PROVE  HandedInv'
  BY <1>9 DEF ShowPreview
<1>10. ASSUME NEW c \in Contents,
             RequestDns(c)
      PROVE  HandedInv'
  BY <1>10 DEF RequestDns
<1>11. ASSUME NEW c \in Contents, NEW result \in {"passed", "failed"},
             RecordReceipt(c, result)
      PROVE  HandedInv'
  BY <1>11 DEF RecordReceipt
<1>12. ASSUME NEW t \in 1..MaxToken, NEW c \in Contents, NEW done \in BOOLEAN,
             HandOff(t, c, done)
      PROVE  HandedInv'
  <2>1. Fenced(t) /\ handoff' = [state |-> Waiting, of |-> c, token |-> t] /\ Released(t)
    BY <1>12 DEF HandOff
  <2>2. claims'[t] = 0 /\ lease'.token = lease.token /\ lease.token = t
    BY <2>1 DEF Released, Fenced
  <2>3. t # 0 /\ t <= lease'.token
    BY <2>2, TtlsAssumption
  <2> QED BY <2>1, <2>2, <2>3
<1>13. ASSUME NEW done \in BOOLEAN,
             CloseWaiting(done)
      PROVE  HandedInv'
  BY <1>13 DEF CloseWaiting, Waiting, Withdrawn
<1>14. ASSUME NEW done \in BOOLEAN,
             BeginAttempt(done)
      PROVE  HandedInv'
  BY <1>14 DEF BeginAttempt
<1>15. CASE ResolverLost
  BY <1>15 DEF ResolverLost
<1>16. CASE RecoverUnknown
  BY <1>16 DEF RecoverUnknown
<1>17. ASSUME NEW result \in {"passed", "failed", "unknown"},
             ResolverReturns(result)
      PROVE  HandedInv'
  BY <1>17 DEF ResolverReturns, Commits
<1> HIDE DEF HandedInv
<1> QED BY <1>1, <1>2, <1>3, <1>4, <1>5, <1>6, <1>7, <1>8, <1>9, <1>10, <1>11,
           <1>12, <1>13, <1>14, <1>15, <1>16, <1>17 DEF PrepStep

\* Nothing moves an attempt that is over.
LEMMA PrepVerdict ==
    ASSUME PrepTypeOK, PrepStep
    PROVE  VerdictStep
<1> USE DEF PrepTypeOK, VerdictStep, runVars, reviewVars, dnsVars
<1>1. CASE Tick
  BY <1>1 DEF Tick
<1>2. CASE Change
  BY <1>2 DEF Change
<1>3. CASE Pause
  BY <1>3 DEF Pause, Paused
<1>4. CASE Resume
  BY <1>4 DEF Resume
<1>5. CASE Work
  BY <1>5 DEF Work
<1>6. CASE CreateSnapshot
  BY <1>6 DEF CreateSnapshot
<1>7. ASSUME NEW c \in Contents,
             Invalidate(c)
      PROVE  VerdictStep
  BY <1>7 DEF Invalidate
<1>8. ASSUME NEW c \in Contents,
             IssueJit(c)
      PROVE  VerdictStep
  BY <1>8 DEF IssueJit
<1>9. ASSUME NEW c \in Contents,
             ShowPreview(c)
      PROVE  VerdictStep
  BY <1>9 DEF ShowPreview
<1>10. ASSUME NEW c \in Contents,
             RequestDns(c)
      PROVE  VerdictStep
  BY <1>10 DEF RequestDns
<1>11. ASSUME NEW c \in Contents, NEW result \in {"passed", "failed"},
             RecordReceipt(c, result)
      PROVE  VerdictStep
  BY <1>11 DEF RecordReceipt
<1>12. ASSUME NEW t \in 1..MaxToken, NEW c \in Contents, NEW done \in BOOLEAN,
             HandOff(t, c, done)
      PROVE  VerdictStep
  BY <1>12 DEF HandOff
<1>13. ASSUME NEW done \in BOOLEAN,
             CloseWaiting(done)
      PROVE  VerdictStep
  BY <1>13 DEF CloseWaiting
<1>14. ASSUME NEW done \in BOOLEAN,
             BeginAttempt(done)
      PROVE  VerdictStep
  BY <1>14 DEF BeginAttempt
<1>15. CASE ResolverLost
  BY <1>15 DEF ResolverLost
<1>16. CASE RecoverUnknown
  BY <1>16 DEF RecoverUnknown
<1>17. ASSUME NEW result \in {"passed", "failed", "unknown"},
             ResolverReturns(result)
      PROVE  VerdictStep
  BY <1>17 DEF ResolverReturns, Commits
<1> QED BY <1>1, <1>2, <1>3, <1>4, <1>5, <1>6, <1>7, <1>8, <1>9, <1>10, <1>11,
           <1>12, <1>13, <1>14, <1>15, <1>16, <1>17 DEF PrepStep

\* What an executor does to the run: it takes a lease and gives it back.
LEMMA ExecPrepares ==
    ASSUME NEW e \in Executors, ExecStep(e), TypeOK, ResultRow(e)
    PROVE  /\ PrepTypeOK' /\ VerdictStep /\ UNCHANGED <<human1, window>>
           /\ HandedInv => HandedInv'
<1>1. CASE e = Live /\ Lease
  <2>1. /\ Acquired
        /\ UNCHANGED <<now, running, content, reviewVars, dnsVars, handoff, human1, window>>
    BY <1>1 DEF Lease, humanVars
  <2> QED BY <2>1, AcquiredTyped, AcquiredHands
          DEF PrepTypeOK, reviewVars, dnsVars, TypeOK, VerdictStep
<1>2. CASE Clean(e)
  <2>1. /\ Released(exec[e].token)
        /\ UNCHANGED <<now, running, content, reviewVars, dnsVars, human1, window>>
    BY <1>2 DEF Clean, humanVars
  <2>2. PICK state \in HandoffStates \ {Waiting} :
          handoff' = [handoff EXCEPT !.state = state] \/ handoff' = handoff
    <3>1. CASE UNCHANGED handoff
      BY <3>1 DEF HandoffStates, Waiting
    <3>2. PICK state \in {"SUCCEEDED", "UNKNOWN", "FAILED"} : Concluded(state) \/ UNCHANGED handoff
      BY <1>2 DEF Clean
    <3>3. CASE Concluded(state)
      BY <3>3 DEF Concluded, HandoffStates, Waiting, PrepTypeOK, TypeOK
    <3> QED BY <3>1, <3>2, <3>3
  <2>3. /\ handoff' \in [state : HandoffStates, of : {0} \cup Contents, token : 0..MaxToken]
        /\ handoff'.token = handoff.token
        /\ handoff'.state = Waiting => handoff.state = Waiting
    BY <2>2, HandoffTyped DEF TypeOK, PrepTypeOK
  <2> QED BY <2>1, <2>3, ReleasedTyped, ReleasedHands
          DEF PrepTypeOK, reviewVars, dnsVars, TypeOK, VerdictStep
<1>3. CASE UNCHANGED <<prepVars, human1, window>>
  BY <1>3 DEF TypeOK, PrepTypeOK, VerdictStep, HandedInv, HandedUnder, ClaimGivenUp, prepVars,
              runVars, reviewVars, dnsVars
<1>4. \/ e = Live /\ Lease
      \/ Clean(e)
      \/ UNCHANGED <<prepVars, human1, window>>
  BY DEF ExecStep, Executes, Send, Begin, Grant, Prepare, Start, Arm, Record, StoreResult,
         CloseRunner, Fault, Abort, Doubt, Conclude, Crash, Check, Consume, Authorise, ArmFails,
         humanVars
<1> QED BY <1>1, <1>2, <1>3, <1>4

(***************************************************************************)
(* What is done around the executors                                       *)
(***************************************************************************)

\* The call is the executors', and an approval is used by them alone.
AroundMove ==
    /\ UNCHANGED <<slot, record, runner, exec, sent>>
    /\ human2'.used = human2.used
    /\ jit'["live"] = jit["live"]
    /\ \/ jit' = jit
       \/ jit["hermetic"].state = "none" /\ jit'["hermetic"].state = "ready"
    /\ DOMAIN jit' = DOMAIN jit

\* So it is, and the preparation's invariants are kept.
LEMMA AroundSteps ==
    ASSUME TypeOK, Around
    PROVE  /\ TypeOK' /\ AroundMove /\ VerdictStep
           /\ HandedInv => HandedInv'
<1> DEFINE Goal == TypeOK' /\ AroundMove /\ VerdictStep /\ (HandedInv => HandedInv')
<1>t. TypeOK <=> PrepTypeOK /\ RowTyped
                 /\ human1 \in [of : {0} \cup Contents, expires : Nat, revoked : BOOLEAN,
                                used : BOOLEAN]
                 /\ window \in [gen : 0..MaxWindows, expires : Nat, authorised : BOOLEAN]
  BY DEF TypeOK, RowTyped, ExecSort, SlotSort, SlotStates, RunnerSort, JitSort, JitStates
<1>u. TypeOK' <=> PrepTypeOK' /\ RowTyped'
                 /\ human1' \in [of : {0} \cup Contents, expires : Nat, revoked : BOOLEAN,
                                used : BOOLEAN]
                 /\ window' \in [gen : 0..MaxWindows, expires : Nat, authorised : BOOLEAN]
  BY DEF TypeOK, RowTyped, ExecSort, SlotSort, SlotStates, RunnerSort, JitSort, JitStates
<1>1. CASE Prepares
  <2>1. PrepStep /\ UNCHANGED nativeVars
    BY <1>1, PreparesIsStep
  <2>2. PrepTypeOK' /\ VerdictStep /\ (HandedInv => HandedInv')
    BY <1>t, <2>1, PrepTyped, PrepVerdict, PrepHands
  <2> QED BY <1>t, <1>u, <2>1, <2>2 DEF AroundMove, RowTyped, nativeVars, humanVars, callVars
<1>2. ASSUME UNCHANGED <<prepVars, jit, callVars, exec, sent>>, human2'.used = human2.used,
             human1' \in [of : {0} \cup Contents, expires : Nat, revoked : BOOLEAN,
                          used : BOOLEAN],
             human2' \in [given : BOOLEAN, expires : Nat, used : BOOLEAN],
             window' \in [gen : 0..MaxWindows, expires : Nat, authorised : BOOLEAN]
      PROVE  Goal
  <2>1. PrepTypeOK' /\ VerdictStep /\ (HandedInv => HandedInv')
    BY <1>t, <1>2 DEF PrepTypeOK, VerdictStep, HandedInv, HandedUnder, ClaimGivenUp, prepVars,
                      runVars, reviewVars, dnsVars
  <2> QED BY <1>t, <1>u, <1>2, <2>1 DEF AroundMove, RowTyped, callVars
<1>p. now \in Nat /\ {ApprovalTtl, WindowTtl} \subseteq Nat /\ MaxWindows \in Nat
  BY <1>t, TtlsAssumption, WindowsAssumption DEF PrepTypeOK
<1>3. CASE Approve(1)
  <2>1. 1 \in {0} \cup Contents /\ now + ApprovalTtl \in Nat
    BY <1>p, ContentsAssumption
  <2>2. human1' = [human1 EXCEPT !.of = 1, !.expires = now + ApprovalTtl]
    BY <1>3 DEF Approve
  <2>3. human1' \in [of : {0} \cup Contents, expires : Nat, revoked : BOOLEAN, used : BOOLEAN]
    BY <1>t, <2>1, <2>2
  <2> QED BY <1>t, <1>2, <1>3, <2>3 DEF Approve, RowTyped
<1>4. CASE Revoke
  BY <1>t, <1>2, <1>4 DEF Revoke, RowTyped
<1>5. CASE ShowApproval
  BY <1>t, <1>p, <1>2, <1>5 DEF ShowApproval, RowTyped
<1>6. CASE ApproveLive
  BY <1>t, <1>2, <1>6 DEF ApproveLive, RowTyped
<1>7. CASE OpenWindow
  BY <1>t, <1>p, <1>2, <1>7 DEF OpenWindow, RowTyped
<1>8. CASE AuthoriseWindow
  BY <1>t, <1>2, <1>8 DEF AuthoriseWindow, RowTyped
<1>9. CASE CreateJit
  <2>1. /\ Acquired /\ UNCHANGED <<now, running, content, reviewVars, dnsVars>>
        /\ jit["hermetic"].state = "none"
        /\ handoff' = [handoff EXCEPT !.state = "JIT_EXECUTING"]
        /\ human1' = [human1 EXCEPT !.used = TRUE]
        /\ jit' = [jit EXCEPT !["hermetic"] = [state |-> "ready", closed |-> FALSE,
                                               token |-> lease.token + 1]]
        /\ UNCHANGED <<human2, window, callVars, exec, sent>>
    BY <1>9 DEF CreateJit, Executing
  <2>2. PrepTypeOK' /\ VerdictStep
    BY <1>t, <2>1, AcquiredTyped, HandoffTyped
       DEF PrepTypeOK, reviewVars, dnsVars, HandoffStates, VerdictStep
  <2>3. HandedInv => HandedInv'
    BY <1>t, <2>1, AcquiredTyped DEF PrepTypeOK, HandedInv, HandedUnder, ClaimGivenUp, Waiting
  <2>4. [state |-> "ready", closed |-> FALSE, token |-> lease.token + 1] \in JitSort
    BY <1>t, <2>1, LeaseTyped DEF JitSort, JitStates
  <2>5. jit' \in [{"hermetic", "live"} -> JitSort] /\ jit'["live"] = jit["live"]
        /\ jit'["hermetic"].state = "ready" /\ DOMAIN jit' = DOMAIN jit
    BY <1>t, <2>1, <2>4 DEF RowTyped
  <2> QED BY <1>t, <1>u, <2>1, <2>2, <2>3, <2>5 DEF AroundMove, RowTyped, callVars
<1> QED BY <1>1, <1>3, <1>4, <1>5, <1>6, <1>7, <1>8, <1>9 DEF Around

(***************************************************************************)
(* Executions                                                              *)
(***************************************************************************)

\* A step of an executor keeps the invariant.
LEMMA ExecutorStep ==
    ASSUME NEW e \in Executors, ExecStep(e), ExecInv
    PROVE  ExecInv'
<1> USE DEF ExecInv
<1>t. RowTyped
  BY TypesGiveRows
<1>1. RowTyped'
  BY <1>t, ExecTyped, CallTyped DEF RowTyped, TypeOK
<1>2. PrepTypeOK' /\ UNCHANGED <<human1, window>>
  BY ExecPrepares
<1>3. TypeOK'
  BY <1>1, <1>2 DEF TypeOK, RowTyped, ExecSort, SlotSort, SlotStates, RunnerSort, JitSort, JitStates
<1>4. SlotRow(e)' /\ SlotMove(e)
  BY <1>t, OwnSlotStep DEF ResultRow
<1>5. ResultMove
  BY <1>t, ResultMoves
<1>6. ResultRow(e)' /\ JitMove
  BY <1>t, <1>5, OwnResultStep, JitMoves
<1>7. ASSUME NEW f \in Executors, f # e
      PROVE  SlotRow(f)' /\ ResultRow(f)'
  <2>1. exec'[f] = exec[f] /\ sent'[f] = sent[f]
    BY <1>t, <1>7, OthersStay
  <2>2. slot.by = f /\ slot.state # "none" => slot'.state = slot.state /\ slot'.by = slot.by
    BY <1>4, <1>7 DEF SlotMove
  <2>3. SlotRow(f)'
    BY <2>1, <2>2 DEF SlotRow
  <2>4. ResultRow(f)'
    BY <1>5, <2>1 DEF ResultRow, ResultMove, Answers
  <2> QED BY <2>3, <2>4
<1>8. \A f \in Executors : SlotRow(f)' /\ ResultRow(f)'
  BY <1>4, <1>6, <1>7
<1>9. AuthoritySettled'
  BY <1>5, <1>6 DEF JitMove, ResultMove, AuthoritySettled
<1>10. LiveOnce'
  BY <1>t, LiveStep, HermeticKeepsLive
<1>11. HermeticWaits'
  BY <1>t, <1>6, HermeticWaitsStep
<1> QED BY <1>3, <1>8, <1>9, <1>10, <1>11

\* So does what is done around the executors.
LEMMA AroundStep ==
    ASSUME Around, ExecInv
    PROVE  ExecInv'
<1> USE DEF ExecInv
<1>1. TypeOK' /\ AroundMove
  BY AroundSteps
<1>2. \A e \in Executors : SlotRow(e)' /\ ResultRow(e)'
  BY <1>1 DEF AroundMove, SlotRow, ResultRow, Settled
<1>3. AuthoritySettled'
  BY <1>1 DEF AroundMove, AuthoritySettled, Settled, TypeOK
<1>4. LiveOnce' /\ HermeticWaits'
  BY <1>1 DEF AroundMove, LiveOnce, HermeticWaits
<1> QED BY <1>1, <1>2, <1>3, <1>4

\* And so does every step.
LEMMA ExecInvStep ==
    ASSUME ExecInv, HandedInv, [Next]_vars
    PROVE  ExecInv' /\ HandedInv' /\ VerdictStep
<1>1. CASE Around
  BY <1>1, AroundStep, AroundSteps DEF ExecInv
<1>2. ASSUME NEW e \in Executors, ExecStep(e)
      PROVE  ExecInv' /\ HandedInv' /\ VerdictStep
  BY <1>2, ExecutorStep, ExecPrepares DEF ExecInv
<1>3. CASE UNCHANGED vars
  <2> USE <1>3 DEF vars, prepVars, runVars, reviewVars, dnsVars, nativeVars, humanVars, callVars
  <2>1. TypeOK'
    BY DEF ExecInv, TypeOK, PrepTypeOK
  <2>2. \A e \in Executors : SlotRow(e)' /\ ResultRow(e)'
    BY DEF ExecInv, SlotRow, ResultRow, Settled
  <2>3. AuthoritySettled' /\ LiveOnce' /\ HermeticWaits'
    BY DEF ExecInv, AuthoritySettled, Settled, LiveOnce, HermeticWaits
  <2>4. HandedInv' /\ VerdictStep
    BY DEF HandedInv, HandedUnder, ClaimGivenUp, VerdictStep
  <2> QED BY <2>1, <2>2, <2>3, <2>4 DEF ExecInv
<1> QED BY <1>1, <1>2, <1>3, NextSplits

\* It holds of a call that has just been handed over.
LEMMA ExecInvInit ==
    ASSUME Init
    PROVE  ExecInv /\ HandedInv
<1> USE TtlsAssumption, ContentsAssumption, WindowsAssumption
    DEF Init, HandedOver, NothingExecuted, Resting
<1>1. PrepTypeOK
  BY DEF PrepTypeOK, SnapshotStates, AttemptStates, HandoffStates, Waiting
<1>2. TypeOK
  BY <1>1 DEF TypeOK, Executors, Places
<1>3. \A e \in Executors : SlotRow(e) /\ ResultRow(e)
  BY DEF SlotRow, ResultRow
<1>4. AuthoritySettled /\ LiveOnce /\ HermeticWaits
  BY DEF AuthoritySettled, LiveOnce, HermeticWaits, PreSent, Executors
<1>5. HandedInv
  BY DEF HandedInv, HandedUnder, ClaimGivenUp
<1> QED BY <1>2, <1>3, <1>4, <1>5 DEF ExecInv

\* And for good.
LEMMA ExecInvHolds == Spec => [](ExecInv /\ HandedInv)
<1>1. Init => ExecInv /\ HandedInv
  BY ExecInvInit
<1>2. (ExecInv /\ HandedInv) /\ [Next]_vars => (ExecInv /\ HandedInv)'
  BY ExecInvStep
<1> QED BY <1>1, <1>2, PTL DEF Spec

\* What the invariant says of requests and of success.
LEMMA ExecInvTells ==
    ASSUME ExecInv
    PROVE  TypeOK /\ NeverTwice /\ LiveSendIsKept /\ CommittedIsSettled
<1> USE DEF ExecInv
<1>1. NeverTwice
  <2>1. ASSUME NEW e \in Executors
        PROVE  sent[e] <= 1
    BY <2>1 DEF SlotRow, TypeOK
  <2>2. ASSUME NEW e \in Executors, NEW f \in Executors \ {e}
        PROVE  sent[e] + sent[f] <= 1
    <3>1. SlotRow(e) /\ SlotRow(f) /\ sent[e] \in 0..2 /\ sent[f] \in 0..2
      BY DEF TypeOK
    <3>2. sent[e] = 0 \/ sent[f] = 0
      BY <3>1 DEF SlotRow
    <3> QED BY <2>1, <3>1, <3>2
  <2> QED BY <2>1, <2>2 DEF NeverTwice
<1>2. LiveSendIsKept
  BY DEF LiveSendIsKept, HermeticWaits, TypeOK
<1>3. CommittedIsSettled
  BY DEF CommittedIsSettled, AuthoritySettled, Settled
<1> QED BY <1>1, <1>2, <1>3

(***************************************************************************)
(* The theorems of an execution                                            *)
(***************************************************************************)

\* A call is requested once: along either path, by whichever of any number of
\* processes, after whatever crash; and a request of the live path alone is
\* never taken for one that was not sent.
THEOREM CallsLeaveOnce == Spec => [](TypeOK /\ NeverTwice /\ LiveSendIsKept)
  BY ExecInvHolds, ExecInvTells, PTL

\* An authority that closes with the provider's success leaves the result, the
\* budget and the iteration of its call settled for good.
THEOREM SuccessIsSettled == Spec => []CommittedIsSettled
  BY ExecInvHolds, ExecInvTells, PTL

\* While a call is executed, the verdict of its lookup stands, and a handoff
\* that waits for people holds up nobody.
THEOREM HandoffsHoldUpNobody == Spec => PreparationStands
<1>1. ExecInv /\ HandedInv /\ [Next]_vars => [ClaimGivenUp' /\ VerdictStep]_vars
  BY ExecInvStep DEF HandedInv
<1> QED BY <1>1, ExecInvHolds, PTL DEF Spec, PreparationStands

\* So it is while a call is prepared that nobody executes.
THEOREM PreparationHoldsUpNobody ==
    PrepSpec => [](PrepTypeOK /\ ClaimGivenUp) /\ LookupVerdictStands
<1> DEFINE Prepared == PrepTypeOK /\ HandedInv
<1>1. PrepInit => Prepared
  BY TtlsAssumption, ContentsAssumption
     DEF PrepInit, PrepTypeOK, SnapshotStates, AttemptStates, HandoffStates, HandedInv,
         HandedUnder, ClaimGivenUp, Waiting
<1>2. Prepared /\ [PrepNext]_prepVars => Prepared' /\ VerdictStep
  <2>1. CASE PrepNext
    BY <2>1, PrepNextIsStep, PrepTyped, PrepHands, PrepVerdict
  <2>2. CASE UNCHANGED prepVars
    BY <2>2 DEF prepVars, runVars, reviewVars, dnsVars, PrepTypeOK, HandedInv, HandedUnder,
                ClaimGivenUp, VerdictStep
  <2> QED BY <2>1, <2>2
<1>3. Prepared => PrepTypeOK /\ ClaimGivenUp
  BY DEF HandedInv
<1> HIDE DEF Prepared
<1> QED BY <1>1, <1>2, <1>3, PTL DEF PrepSpec, LookupVerdictStands

(***************************************************************************)
(* The live authority                                                      *)
(***************************************************************************)

\* The live authority is open from the request to the executor's conclusion.
LEMMA LiveAuthorityStep ==
    ASSUME NEW e \in Executors, ExecStep(e), RowTyped, LiveAuthority, e = Live,
           ResultRow(e), ResultMove
    PROVE  LiveAuthority'
<1> USE DEF RowTyped, ExecSort, SlotSort, SlotStates, RunnerSort, JitSort,
            JitStates, At, Goes, Decides, callVars, Resting, LiveAuthority,
            ResultRow, ResultMove, Settled, Path, Answers, PreSend, Unknown,
            Verdicts, Executors
<1>1. ASSUME NEW answer \in Answers \cup {Unknown}, Send(e, answer)
      PROVE  LiveAuthority'
  BY <1>1 DEF Send
<1>2. CASE Begin(e)
  BY <1>2, ExecutorsAssumption DEF Begin
<1>3. CASE Grant(e)
  BY <1>3 DEF Grant
<1>4. CASE Prepare(e)
  BY <1>4 DEF Prepare
<1>5. CASE Start(e)
  BY <1>5 DEF Start
<1>6. CASE Arm(e)
  BY <1>6 DEF Arm
<1>7. CASE Record(e)
  BY <1>7 DEF Record
<1>8. CASE StoreResult(e)
  BY <1>8 DEF StoreResult
<1>9. CASE CloseRunner(e)
  BY <1>9 DEF CloseRunner, Finished
<1>10. CASE Fault(e)
  BY <1>10 DEF Fault
<1>11. CASE Abort(e)
  BY <1>11 DEF Abort, Aborted
<1>12. CASE Doubt(e)
  BY <1>12 DEF Doubt
<1>13. CASE Conclude(e)
  BY <1>13 DEF Conclude, MayFollow
<1>14. CASE Clean(e)
  BY <1>14 DEF Clean, Released, Concluded
<1>15. CASE Crash(e)
  BY <1>15 DEF Crash
<1>16. CASE e = Live /\ Check
  BY <1>16 DEF Check
<1>17. CASE e = Live /\ Consume
  BY <1>17 DEF Consume
<1>18. CASE e = Live /\ Lease
  BY <1>18 DEF Lease, Acquired
<1>19. CASE e = Live /\ Authorise
  BY <1>19 DEF Authorise
<1>20. CASE e = Live /\ ArmFails
  BY <1>20 DEF ArmFails
<1> QED BY <1>1, <1>2, <1>3, <1>4, <1>5, <1>6, <1>7, <1>8, <1>9, <1>10, <1>11,
           <1>12, <1>13, <1>14, <1>15, <1>16, <1>17, <1>18, <1>19, <1>20 DEF
           ExecStep, Executes

\* It is not the hermetic path's.
LEMMA HermeticKeepsAuthority ==
    ASSUME NEW e \in Executors, ExecStep(e), RowTyped, e # Live
    PROVE  exec'[Live] = exec[Live] /\ jit'["live"] = jit["live"]
<1> USE DEF RowTyped, At, Goes, Decides, callVars, Path, Executors
<1>1. ASSUME NEW answer \in Answers \cup {Unknown}, Send(e, answer)
      PROVE  exec'[Live] = exec[Live] /\ jit'["live"] = jit["live"]
  BY <1>1 DEF Send
<1>2. CASE Begin(e)
  BY <1>2 DEF Begin
<1>3. CASE Grant(e)
  BY <1>3 DEF Grant
<1>4. CASE Prepare(e)
  BY <1>4 DEF Prepare
<1>5. CASE Start(e)
  BY <1>5 DEF Start
<1>6. CASE Arm(e)
  BY <1>6 DEF Arm
<1>7. CASE Record(e)
  BY <1>7 DEF Record
<1>8. CASE StoreResult(e)
  BY <1>8 DEF StoreResult
<1>9. CASE CloseRunner(e)
  BY <1>9 DEF CloseRunner, Finished
<1>10. CASE Fault(e)
  BY <1>10 DEF Fault
<1>11. CASE Abort(e)
  BY <1>11 DEF Abort, Aborted
<1>12. CASE Doubt(e)
  BY <1>12 DEF Doubt
<1>13. CASE Conclude(e)
  BY <1>13 DEF Conclude
<1>14. CASE Clean(e)
  BY <1>14 DEF Clean, Released, Concluded
<1>15. CASE Crash(e)
  BY <1>15 DEF Crash
<1>16. CASE e = Live /\ Check
  BY <1>16 DEF Check
<1>17. CASE e = Live /\ Consume
  BY <1>17 DEF Consume
<1>18. CASE e = Live /\ Lease
  BY <1>18 DEF Lease, Acquired
<1>19. CASE e = Live /\ Authorise
  BY <1>19 DEF Authorise
<1>20. CASE e = Live /\ ArmFails
  BY <1>20 DEF ArmFails
<1> QED BY <1>1, <1>2, <1>3, <1>4, <1>5, <1>6, <1>7, <1>8, <1>9, <1>10, <1>11,
           <1>12, <1>13, <1>14, <1>15, <1>16, <1>17, <1>18, <1>19, <1>20 DEF
           ExecStep, Executes

\* Nothing else opens or closes it.
LEMMA LiveAuthorityKept ==
    ASSUME ExecInv, LiveAuthority, [Next]_vars
    PROVE  LiveAuthority'
<1>t. RowTyped
  BY TypesGiveRows DEF ExecInv
<1>1. CASE Around
  <2>1. AroundMove
    BY <1>1, AroundSteps DEF ExecInv
  <2> QED BY <2>1 DEF AroundMove, LiveAuthority, Settled
<1>2. ASSUME NEW e \in Executors, ExecStep(e)
      PROVE  LiveAuthority'
  <2>1. ResultMove /\ ResultRow(e)
    BY <1>t, <1>2, ResultMoves DEF ExecInv
  <2>2. CASE e = Live
    BY <1>t, <1>2, <2>1, <2>2, LiveAuthorityStep
  <2>3. CASE e # Live
    <3>1. exec'[Live] = exec[Live] /\ jit'["live"] = jit["live"]
      BY <1>t, <1>2, <2>3, HermeticKeepsAuthority
    <3> QED BY <2>1, <3>1 DEF LiveAuthority, ResultMove, Answers
  <2> QED BY <2>2, <2>3
<1>3. CASE UNCHANGED vars
  BY <1>3 DEF vars, nativeVars, callVars, LiveAuthority, Settled
<1> QED BY <1>1, <1>2, <1>3, NextSplits

(***************************************************************************)
(* Capsules                                                                *)
(***************************************************************************)

\* The live path is an executor.
LEMMA LiveInExecutors == Live \in Executors
  BY DEF Executors

\* A step of a capsule is one of the execution it is about: what its owner
\* loses in a crash is either its lookup or its executor.
LEMMA CapsuleStepIsStep ==
    ASSUME ExecInv, OwnerWorks, [CapsuleNext]_<<vars, capsuleVars>>
    PROVE  [Next]_vars
<1>1. CASE UNCHANGED vars
  BY <1>1
<1>2. CASE Lookup \/ \E result \in {"passed", "failed", "unknown"} : LookedUp(result)
  BY <1>2 DEF Lookup, LookedUp, Next, Prepares
<1>3. CASE Approvals
  BY <1>3 DEF Approvals, Next
<1>4. CASE ExecutesLive(Live)
  BY <1>4, LiveInExecutors DEF ExecutesLive, Next, Executes
<1>5. CASE Meanwhile
  BY <1>5 DEF Meanwhile, Next, Prepares
<1>6. ASSUME exec' = [exec EXCEPT ![Live] = Resting], UNCHANGED resolver,
             UNCHANGED <<runVars, reviewVars, attempt, handoff, humanVars, jit, callVars, sent>>
      PROVE  [Next]_vars
  <2>1. CASE exec[Live].pc = "idle"
    <3>1. exec[Live] = Resting
      BY <2>1, LiveInExecutors DEF ExecInv, ResultRow
    <3>2. exec' = exec
      BY <1>6, <3>1 DEF ExecInv, TypeOK
    <3> QED BY <1>6, <3>2 DEF vars, prepVars, nativeVars, dnsVars
  <2>2. CASE exec[Live].pc # "idle"
    <3>1. Crash(Live)
      BY <1>6, <2>2 DEF Crash, At, prepVars, dnsVars
    <3> QED BY <3>1, LiveInExecutors DEF Next, Executes
  <2> QED BY <2>1, <2>2
<1>7. ASSUME resolver = "out", resolver' = "idle", exec' = [exec EXCEPT ![Live] = Resting],
             UNCHANGED <<runVars, reviewVars, attempt, handoff, humanVars, jit, callVars, sent>>
      PROVE  [Next]_vars
  <2>1. exec[Live] = Resting
    BY <1>7, LiveInExecutors DEF OwnerWorks, ExecInv, ResultRow
  <2>2. exec' = exec
    BY <1>7, <2>1 DEF ExecInv, TypeOK
  <2>3. ResolverLost /\ UNCHANGED nativeVars
    BY <1>7, <2>2 DEF ResolverLost, nativeVars
  <2> QED BY <2>3 DEF Next, Prepares
<1>8. resolver \in {"idle", "out"}
  BY DEF ExecInv, TypeOK, PrepTypeOK
<1>9. CASE Raises \/ OwnerCrashes
  <2>1. /\ exec' = [exec EXCEPT ![Live] = Resting]
        /\ UNCHANGED <<runVars, reviewVars, attempt, handoff, humanVars, jit, callVars, sent>>
        /\ UNCHANGED resolver \/ resolver' = "idle"
    BY <1>9 DEF Raises, OwnerCrashes
  <2> QED BY <1>6, <1>7, <1>8, <2>1
<1>10. CASE CreateCapsule \/ ClaimCapsule \/ Close \/ CloseFails \/ Recover
  BY <1>1, <1>10 DEF CreateCapsule, ClaimCapsule, Close, CloseFails, Recover
<1> QED BY <1>1, <1>2, <1>3, <1>4, <1>5, <1>9, <1>10 DEF CapsuleNext

\* What the steps of the live path are to its capsule.
LEMMA LiveLeavesCapsule ==
    ASSUME NEW e \in Executors, ExecStep(e), RowTyped, e = Live
    PROVE  /\ UNCHANGED resolver
           /\ exec'[e].pc = "checked" => exec[e].pc = "idle" /\ sent' = sent
           /\ record' = record \/ exec[e].pc = "answered"
           /\ sent[e] # 0 => sent'[e] # 0
<1> USE DEF RowTyped, ExecSort, At, Goes, Decides, callVars, prepVars, dnsVars,
            Resting, Executors
<1>1. ASSUME NEW answer \in Answers \cup {Unknown}, Send(e, answer)
      PROVE  /\ UNCHANGED resolver
             /\ exec'[e].pc = "checked" => exec[e].pc = "idle" /\ sent' = sent
             /\ record' = record \/ exec[e].pc = "answered"
             /\ sent[e] # 0 => sent'[e] # 0
  BY <1>1 DEF Send
<1>2. CASE Begin(e)
  BY <1>2, ExecutorsAssumption DEF Begin
<1>3. CASE Grant(e)
  BY <1>3 DEF Grant
<1>4. CASE Prepare(e)
  BY <1>4 DEF Prepare
<1>5. CASE Start(e)
  BY <1>5 DEF Start
<1>6. CASE Arm(e)
  BY <1>6 DEF Arm
<1>7. CASE Record(e)
  BY <1>7 DEF Record
<1>8. CASE StoreResult(e)
  BY <1>8 DEF StoreResult
<1>9. CASE CloseRunner(e)
  BY <1>9 DEF CloseRunner, Finished
<1>10. CASE Fault(e)
  BY <1>10 DEF Fault
<1>11. CASE Abort(e)
  BY <1>11 DEF Abort, Aborted
<1>12. CASE Doubt(e)
  BY <1>12 DEF Doubt
<1>13. CASE Conclude(e)
  BY <1>13 DEF Conclude
<1>14. CASE Clean(e)
  BY <1>14 DEF Clean, Released, Concluded
<1>15. CASE Crash(e)
  BY <1>15 DEF Crash
<1>16. CASE e = Live /\ Check
  BY <1>16 DEF Check
<1>17. CASE e = Live /\ Consume
  BY <1>17 DEF Consume
<1>18. CASE e = Live /\ Lease
  BY <1>18 DEF Lease, Acquired
<1>19. CASE e = Live /\ Authorise
  BY <1>19 DEF Authorise
<1>20. CASE e = Live /\ ArmFails
  BY <1>20 DEF ArmFails
<1> QED BY <1>1, <1>2, <1>3, <1>4, <1>5, <1>6, <1>7, <1>8, <1>9, <1>10, <1>11,
           <1>12, <1>13, <1>14, <1>15, <1>16, <1>17, <1>18, <1>19, <1>20 DEF
           ExecStep, Executes

\* The executor returns when it has concluded, and its verdict is true then.
LEMMA LiveReturns ==
    ASSUME ExecInv, LiveAuthority, ExecutesLive(Live), exec'[Live].pc = "idle",
           exec[Live].pc # "idle"
    PROVE  /\ exec[Live].verdict \in Verdicts /\ UNCHANGED <<record, runner, sent, jit>>
           /\ OutcomeTells(exec[Live].verdict)
<1> DEFINE v == exec[Live].verdict
<1>t. RowTyped
  BY TypesGiveRows DEF ExecInv
<1>1. Conclude(Live) \/ Clean(Live)
  BY <1>t, LiveInExecutors, ExecutorsAssumption
     DEF ExecutesLive, RowTyped, ExecSort, Check, Consume, Lease, Authorise, ArmFails, Grant,
         Prepare, Start, Arm, Send, Record, StoreResult, CloseRunner, Fault, Abort, Doubt, Goes,
         Decides, At
<1>2. exec[Live].pc \in {"concluding", "cleaning"}
  BY <1>1 DEF Conclude, Clean, At
<1>3. v \in Verdicts /\ v # "none"
  BY <1>t, <1>2, LiveInExecutors DEF ExecInv, ResultRow, RowTyped, ExecSort
<1>4. \/ exec[Live].pc = "cleaning" /\ Clean(Live)
      \/ exec[Live].pc = "concluding" /\ v \notin Answers /\ UNCHANGED jit
  <2>1. CASE Clean(Live)
    <3>1. exec[Live].pc = "cleaning"
      BY <2>1 DEF Clean, At
    <3> QED BY <2>1, <3>1
  <2>2. CASE Conclude(Live)
    <3>1. exec[Live].pc = "concluding" /\ Path(Live) = "live"
      BY <2>2 DEF Conclude, At, Path
    <3>2. ~MayFollow("live", v) /\ UNCHANGED jit
      <4>1. CASE MayFollow("live", v)
        <5>1. exec'[Live].pc = "cleaning"
          BY <1>t, <2>2, <3>1, <4>1, LiveInExecutors DEF Conclude, Goes, RowTyped, ExecSort
        <5> QED BY <5>1
      <4>2. CASE ~MayFollow("live", v)
        BY <2>2, <3>1, <4>2 DEF Conclude
      <4> QED BY <4>1, <4>2
    <3>3. v \notin Answers
      BY <3>1, <3>2 DEF LiveAuthority, MayFollow, Answers, PreSend
    <3> QED BY <3>1, <3>2, <3>3
  <2> QED BY <1>1, <2>1, <2>2
<1>5. UNCHANGED <<record, runner, sent, jit>>
  BY <1>1, <1>4 DEF Clean, Conclude, callVars
<1>6. OutcomeTells(v)
  BY <1>2, <1>3, <1>4 DEF OutcomeTells, LiveAuthority, ExecInv, LiveOnce, Answers
<1> QED BY <1>3, <1>5, <1>6

\* The capsule's outcomes are the verdicts'.
LEMMA TerminalsAre ==
    /\ Outcomes["succeeded"] = "SUCCEEDED" /\ Outcomes["failed"] = "KNOWN_PROVIDER_FAILURE"
    /\ Outcomes[PreSend] = "KNOWN_PRE_SEND_FAILURE" /\ Outcomes[Unknown] = "UNKNOWN_AFTER_SEND"
    /\ Verdicts = {"succeeded", "failed", PreSend, Unknown}
    /\ Terminals = {"SUCCEEDED", "KNOWN_PROVIDER_FAILURE", "KNOWN_PRE_SEND_FAILURE",
                    "UNKNOWN_AFTER_SEND"}
<1>1. Verdicts = {"succeeded", "failed", PreSend, Unknown}
  BY DEF Verdicts, Answers
<1>2. /\ Outcomes["succeeded"] = "SUCCEEDED" /\ Outcomes["failed"] = "KNOWN_PROVIDER_FAILURE"
      /\ Outcomes[PreSend] = "KNOWN_PRE_SEND_FAILURE" /\ Outcomes[Unknown] = "UNKNOWN_AFTER_SEND"
  BY DEF Outcomes, PreSend, Unknown
<1>3. Terminals = {Outcomes["succeeded"], Outcomes["failed"], Outcomes[PreSend], Outcomes[Unknown]}
  BY <1>1 DEF Terminals
<1> QED BY <1>1, <1>2, <1>3

\* Every step of a capsule keeps its invariant.
LEMMA CapsuleInvStep ==
    ASSUME ExecInv, LiveAuthority, CapsuleInv, [CapsuleNext]_<<vars, capsuleVars>>
    PROVE  CapsuleInv'
<1> USE DEF CapsuleInv
<1>t. RowTyped /\ now \in Nat
  <2>1. TypeOK
    BY DEF ExecInv
  <2>2. now \in 1..MaxTime
    BY <2>1 DEF TypeOK, PrepTypeOK
  <2> QED BY <2>1, <2>2, TypesGiveRows
<1>v. PreSend \in Verdicts /\ "none" \notin Verdicts
  BY DEF Verdicts, Answers, PreSend, Unknown
<1>1. CASE ExecutesLive(Live)
  <2>1. ExecStep(Live) /\ owner.stage = "native"
    BY <1>1 DEF ExecutesLive, ExecStep, Executes
  <2>2. /\ UNCHANGED resolver
        /\ exec'[Live].pc = "checked" => exec[Live].pc = "idle" /\ sent' = sent
        /\ record' = record \/ exec[Live].pc = "answered"
        /\ sent[Live] # 0 => sent'[Live] # 0
    BY <1>t, <2>1, LiveInExecutors, LiveLeavesCapsule
  <2>3. \A h \in Hermetic : exec'[h] = exec[h]
    BY <1>t, <2>1, LiveInExecutors, ExecutorsAssumption, OthersStay DEF Executors
  <2>4. UNCHANGED capsule /\ capsule.state \notin {"none", "AWAITING_EXECUTION"}
    BY <1>1, <2>1 DEF ExecutesLive, Ends, capsuleVars, ClaimedOnce
  <2>5. record' # "none" => sent'[Live] # 0
    BY <2>2, LiveInExecutors DEF ClaimedOnce, ExecInv, SlotRow
  <2>6. capsule.state \notin {"SUCCEEDED", "KNOWN_PROVIDER_FAILURE", "KNOWN_PRE_SEND_FAILURE"}
    BY <2>1 DEF CapsuleKeeps
  <2>7. exec[Live].pc = "idle" => exec'[Live].pc # "idle"
    BY <1>1, <1>t, LiveInExecutors
       DEF ExecutesLive, Check, Consume, Lease, Authorise, ArmFails, Grant, Prepare, Start, Arm,
           Send, Record, StoreResult, CloseRunner, Fault, Abort, Doubt, Conclude, Clean, Goes, At,
           RowTyped, ExecSort
  <2>8. CASE exec'[Live].pc = "idle"
    <3>1. /\ exec[Live].verdict \in Verdicts /\ UNCHANGED <<record, runner, sent, jit>>
          /\ OutcomeTells(exec[Live].verdict)
      BY <1>1, <2>7, <2>8, LiveReturns
    <3>2. owner' = [stage |-> "closing", verdict |-> exec[Live].verdict]
      BY <1>1, <2>8 DEF ExecutesLive, Ends, Outcome
    <3>3. OwnerTells'
      <4>1. PICK w \in Verdicts : w = exec[Live].verdict
        BY <3>1
      <4>2. owner'.stage = "closing" /\ owner'.verdict = w /\ w # "none"
        BY <1>v, <3>2, <4>1
      <4>3. OutcomeTells(w)
        BY <3>1, <4>1 DEF OutcomeTells
      <4>4. OutcomeTells(w)'
        BY <3>1, <4>3 DEF OutcomeTells, Settled
      <4>5. OutcomeTells(owner.verdict)'
        BY <4>2, <4>4 DEF OutcomeTells
      <4> QED BY <4>2, <4>5 DEF OwnerTells
    <3>4. CapsuleTyped'
      BY <2>4, <3>1, <3>2 DEF CapsuleTyped, Stages
    <3>5. OwnerWorks' /\ ClaimedOnce'
      BY <2>1, <2>2, <2>3, <2>4, <2>5, <2>8, <3>2 DEF OwnerWorks, ClaimedOnce, BeforeNative
    <3>6. CapsuleKeeps'
      BY <2>4, <2>6 DEF CapsuleKeeps
    <3> QED BY <3>3, <3>4, <3>5, <3>6
  <2>9. CASE exec'[Live].pc # "idle"
    <3>1. UNCHANGED owner
      BY <1>1, <2>9 DEF ExecutesLive, capsuleVars
    <3> QED BY <2>1, <2>2, <2>3, <2>4, <2>5, <2>6, <2>9, <3>1
            DEF CapsuleTyped, OwnerWorks, ClaimedOnce, CapsuleKeeps, OwnerTells, BeforeNative
  <2> QED BY <2>8, <2>9
\* Steps that leave the execution alone but for its lookup and approvals.
<1>2. ASSUME UNCHANGED <<record, runner, sent, exec, jit>>
      PROVE  \A v : OutcomeTells(v) <=> OutcomeTells(v)'
  BY <1>2 DEF OutcomeTells, Settled
<1>3. CASE CreateCapsule
  <2>1. capsule' = [state |-> "AWAITING_EXECUTION", expires |-> now + CapsuleTtl, lost |-> FALSE]
    BY <1>3 DEF CreateCapsule
  <2>2. UNCHANGED <<record, runner, sent, exec, jit, resolver, owner>> /\ capsule.state = "none"
    BY <1>3 DEF CreateCapsule, vars, prepVars, dnsVars, nativeVars, callVars
  <2> QED BY <1>t, <1>2, <2>1, <2>2, CapsuleTtlAssumption
          DEF CapsuleTyped, OwnerWorks, ClaimedOnce, CapsuleKeeps, OwnerTells
<1>4. CASE ClaimCapsule
  <2>1. /\ capsule' = [capsule EXCEPT !.state = "EXECUTING"]
        /\ owner' = [stage |-> "lookup", verdict |-> "none"]
    BY <1>4 DEF ClaimCapsule, NoOwner
  <2>2. /\ UNCHANGED <<record, runner, sent, exec, jit, resolver>>
        /\ capsule.state = "AWAITING_EXECUTION"
    BY <1>4 DEF ClaimCapsule, vars, prepVars, dnsVars, nativeVars, callVars
  <2>3. resolver # "out" /\ exec[Live].pc = "idle" /\ sent[Live] = 0
    BY <2>2 DEF OwnerWorks, ClaimedOnce
  <2> QED BY <1>2, <2>1, <2>2, <2>3
          DEF CapsuleTyped, OwnerWorks, ClaimedOnce, CapsuleKeeps, OwnerTells, Stages, BeforeNative
<1>5. CASE Lookup \/ Approvals \/ \E result \in {"passed", "failed", "unknown"} : LookedUp(result)
  <2>1. UNCHANGED <<record, runner, sent, exec, jit, capsule>>
    BY <1>5 DEF Lookup, Approvals, LookedUp, OwnerDoes, Ends, ShowApproval, ApproveLive, OpenWindow,
                AuthoriseWindow, callVars, nativeVars
  <2>2. /\ owner.stage \in BeforeNative
        /\ \/ owner'.stage \in (BeforeNative \cup {"native"}) \ {"lookup"}
              /\ owner' = [owner EXCEPT !.stage = owner'.stage]
           \/ owner' = [stage |-> "closing", verdict |-> PreSend]
        /\ resolver' = "out" => \/ resolver = "out" /\ owner' = owner
                                \/ owner'.stage = "looking"
    BY <1>5 DEF Lookup, Approvals, LookedUp, OwnerDoes, Ends, BeforeNative, BeginAttempt,
                ResolverReturns, ShowApproval, ApproveLive, OpenWindow, AuthoriseWindow,
                CapsuleTyped,
                prepVars, dnsVars, OwnerWorks
  <2>3. exec[Live].pc = "idle" /\ sent[Live] = 0
    BY <2>2 DEF OwnerWorks, ClaimedOnce, BeforeNative
  <2>4. OwnerTells'
    BY <2>1, <2>2, <2>3 DEF OwnerTells, OutcomeTells, BeforeNative, PreSend
  <2> QED BY <1>2, <1>v, <2>1, <2>2, <2>3, <2>4
          DEF CapsuleTyped, OwnerWorks, ClaimedOnce, CapsuleKeeps, Stages, BeforeNative
<1>6. CASE Raises
  <2>1. /\ owner' = [stage |-> "handling", verdict |-> PreSend]
        /\ exec' = [exec EXCEPT ![Live] = Resting]
        /\ resolver' = "out" => resolver = "out" /\ owner.stage # "looking"
        /\ UNCHANGED <<record, runner, sent, jit, capsule>>
        /\ owner.stage # "none" /\ sent[Live] = 0
    BY <1>6 DEF Raises, Handles, callVars, At, ClaimedOnce, BeforeNative
  <2>2. exec'[Live].pc = "idle" /\ \A h \in Hermetic : exec'[h] = exec[h]
    BY <1>t, <2>1, LiveInExecutors, ExecutorsAssumption DEF RowTyped, Executors, Resting
  <2>3. OwnerTells' /\ resolver' # "out"
    BY <2>1 DEF OwnerTells, OutcomeTells, PreSend, OwnerWorks
  <2> QED BY <1>v, <2>1, <2>2, <2>3
          DEF CapsuleTyped, OwnerWorks, ClaimedOnce, CapsuleKeeps, OutcomeTells, Settled, Stages,
              BeforeNative
<1>7. CASE OwnerCrashes
  <2>1. /\ owner' = NoOwner /\ exec' = [exec EXCEPT ![Live] = Resting] /\ resolver' = "idle"
        /\ UNCHANGED <<record, runner, sent, jit, capsule>>
    BY <1>7 DEF OwnerCrashes, callVars
  <2>2. exec'[Live].pc = "idle" /\ \A h \in Hermetic : exec'[h] = exec[h]
    BY <1>t, <2>1, LiveInExecutors, ExecutorsAssumption DEF RowTyped, Executors, Resting
  <2> QED BY <2>1, <2>2
          DEF CapsuleTyped, OwnerWorks, ClaimedOnce, OwnerTells, CapsuleKeeps, OutcomeTells,
              Settled,
              Stages, BeforeNative, NoOwner
<1>8. CASE Recover
  <2>1. /\ capsule.state = "EXECUTING"
        /\ capsule' = [capsule EXCEPT !.state = "UNKNOWN_AFTER_SEND"]
        /\ UNCHANGED <<record, runner, sent, exec, jit, resolver, owner>>
    BY <1>8 DEF Recover, Terminalized, Outcomes, Unknown, CapsuleTyped, vars, prepVars, dnsVars,
                nativeVars, callVars
  <2> QED BY <1>2, <2>1, TerminalsAre
          DEF CapsuleTyped, OwnerWorks, ClaimedOnce, CapsuleKeeps, OwnerTells
<1>9. CASE Close
  <2>1. /\ owner.stage \in {"closing", "handling"} /\ owner' = NoOwner
        /\ UNCHANGED <<record, runner, sent, exec, jit, resolver>>
    BY <1>9 DEF Close, vars, prepVars, dnsVars, nativeVars, callVars
  <2>2. /\ owner.verdict \in Verdicts
        /\ OutcomeTells(owner.verdict) \/ (owner.verdict = PreSend /\ capsule.lost)
    <3>1. CASE owner.stage = "closing"
      <4>1. owner.verdict # "none" /\ OutcomeTells(owner.verdict)
        BY <3>1 DEF OwnerTells
      <4>2. owner.verdict \in {"none"} \cup Verdicts
        BY DEF CapsuleTyped
      <4> QED BY <4>1, <4>2
    <3>2. CASE owner.stage = "handling"
      <4>1. owner.verdict = PreSend
        BY <3>2 DEF OwnerTells
      <4>2. capsule.lost \/ OutcomeTells(PreSend)
        BY <3>2 DEF OwnerTells
      <4> QED BY <1>v, <4>1, <4>2 DEF OutcomeTells
    <3> QED BY <2>1, <3>1, <3>2
  <2>3. capsule' = capsule \/ capsule' = [capsule EXCEPT !.state = Outcomes[owner.verdict]]
    BY <1>9 DEF Close, Terminalized, CapsuleTyped
  <2>4. /\ capsule'.state \in {"none", "AWAITING_EXECUTION", "EXECUTING"} \cup Terminals
        /\ capsule' \in [state : {"none", "AWAITING_EXECUTION", "EXECUTING"} \cup Terminals,
                          expires : Nat, lost : BOOLEAN]
        /\ capsule'.lost = capsule.lost
        /\ \/ capsule' = capsule
           \/ capsule'.state = "SUCCEEDED" /\ owner.verdict = "succeeded"
           \/ capsule'.state = "KNOWN_PROVIDER_FAILURE" /\ owner.verdict = "failed"
           \/ capsule'.state = "KNOWN_PRE_SEND_FAILURE" /\ owner.verdict = PreSend
           \/ capsule'.state = "UNKNOWN_AFTER_SEND"
    BY <2>2, <2>3, TerminalsAre DEF CapsuleTyped
  <2>5. OwnerWorks' /\ ClaimedOnce' /\ OwnerTells'
    BY <2>1, <2>4 DEF OwnerWorks, ClaimedOnce, OwnerTells, NoOwner, BeforeNative, CapsuleTyped
  <2>6. owner'.stage = "none" /\ \A w : OutcomeTells(w) <=> OutcomeTells(w)'
    BY <1>2, <2>1 DEF NoOwner
  <2>7. /\ capsule'.state = "SUCCEEDED" => OutcomeTells("succeeded")'
        /\ capsule'.state = "KNOWN_PROVIDER_FAILURE" => OutcomeTells("failed")'
    <3>1. /\ capsule'.state = "SUCCEEDED" => OutcomeTells("succeeded")
          /\ capsule'.state = "KNOWN_PROVIDER_FAILURE" => OutcomeTells("failed")
      BY <2>2, <2>4 DEF CapsuleKeeps, OutcomeTells, PreSend
    <3> QED BY <2>6, <3>1
  <2>8. capsule'.state = "KNOWN_PRE_SEND_FAILURE" => capsule'.lost \/ OutcomeTells(PreSend)'
    <3>1. capsule'.state = "KNOWN_PRE_SEND_FAILURE" => capsule.lost \/ OutcomeTells(PreSend)
      BY <2>2, <2>4 DEF CapsuleKeeps, OutcomeTells
    <3> QED BY <2>4, <2>6, <3>1
  <2>9. CapsuleKeeps'
    BY <2>6, <2>7, <2>8 DEF CapsuleKeeps
  <2> QED BY <2>1, <2>4, <2>5, <2>9 DEF CapsuleTyped, NoOwner, Stages
<1>11. CASE CloseFails
  <2>1. /\ owner.stage = "closing" /\ owner' = [stage |-> "handling", verdict |-> PreSend]
        /\ UNCHANGED <<record, runner, sent, exec, jit, resolver>>
    BY <1>11 DEF CloseFails, Handles, vars, prepVars, dnsVars, nativeVars, callVars
  <2>2. /\ capsule' \in [state : {"none", "AWAITING_EXECUTION", "EXECUTING"} \cup Terminals,
                          expires : Nat, lost : BOOLEAN]
        /\ capsule'.state = capsule.state
        /\ capsule'.lost <=> owner.verdict # PreSend
    BY <1>11 DEF CloseFails, CapsuleTyped
  <2>3. OwnerWorks' /\ ClaimedOnce'
    BY <2>1, <2>2 DEF OwnerWorks, ClaimedOnce, BeforeNative
  <2>4. OwnerTells'
    BY <1>2, <2>1, <2>2 DEF OwnerTells
  <2>5. CapsuleKeeps'
    BY <2>1, <2>2 DEF CapsuleKeeps
  <2> QED BY <1>v, <2>1, <2>2, <2>3, <2>4, <2>5 DEF CapsuleTyped, Stages
<1>10. CASE Meanwhile \/ UNCHANGED <<vars, capsuleVars>>
  <2>1. /\ UNCHANGED <<record, runner, sent, exec, jit, capsule, owner>>
        /\ resolver' = "out" => resolver = "out"
    BY <1>10 DEF Meanwhile, vars, prepVars, dnsVars, nativeVars, callVars, capsuleVars, Tick,
                 Change,
                 Pause, Resume, Invalidate, RecoverUnknown, CloseWaiting
  <2> QED BY <1>2, <2>1 DEF CapsuleTyped, OwnerWorks, ClaimedOnce, CapsuleKeeps, OwnerTells
<1> QED BY <1>1, <1>3, <1>4, <1>5, <1>6, <1>7, <1>8, <1>9, <1>10, <1>11 DEF CapsuleNext

\* It holds before there is a capsule.
LEMMA CapsuleInvInit ==
    ASSUME CapsuleInit
    PROVE  ExecInv /\ HandedInv /\ LiveAuthority /\ CapsuleInv
<1>1. ExecInv /\ HandedInv
  BY ExecInvInit DEF CapsuleInit
<1>2. LiveAuthority
  BY LiveInExecutors
     DEF CapsuleInit, Init, NothingExecuted, Resting, LiveAuthority
<1>3. CapsuleInv
  BY LiveInExecutors
     DEF CapsuleInit, Init, HandedOver, NothingExecuted, NoCapsule, NoOwner, Resting, Executors,
         CapsuleInv, CapsuleTyped, Stages, OwnerWorks, ClaimedOnce, OwnerTells, CapsuleKeeps,
         BeforeNative
<1> QED BY <1>1, <1>2, <1>3

AllInv == ExecInv /\ HandedInv /\ LiveAuthority /\ CapsuleInv

\* And for good, each step being one of the execution.
LEMMA CapsuleInvHolds == CapsuleSpec => []AllInv /\ [][Next]_vars
<1>1. CapsuleInit => AllInv
  BY CapsuleInvInit DEF AllInv
<1>2. AllInv /\ [CapsuleNext]_<<vars, capsuleVars>> => AllInv' /\ [Next]_vars
  BY CapsuleStepIsStep, ExecInvStep, LiveAuthorityKept, CapsuleInvStep DEF AllInv, CapsuleInv
<1> QED BY <1>1, <1>2, PTL DEF CapsuleSpec

(***************************************************************************)
(* The theorems of a capsule                                               *)
(***************************************************************************)

\* A capsule has nothing done to its call that an execution by hand would not
\* do: whoever crashed, was recovered or closed when, what NativeExecution
\* promises of a call it promises of one in a capsule.
THEOREM CapsuleExecutes == CapsuleSpec => Spec
<1>1. CapsuleInit => Init
  BY DEF CapsuleInit
<1> QED BY <1>1, CapsuleInvHolds, PTL DEF Spec, CapsuleSpec

\* So its call is requested once, and a live request is not forgotten.
THEOREM CapsuleSendsAreKnown == CapsuleSpec => []SendsAreKnown
<1>1. AllInv => SendsAreKnown
  BY ExecInvTells DEF AllInv, CapsuleInv, CapsuleTyped, SendsAreKnown, CapsuleTypeOK
<1> QED BY <1>1, CapsuleInvHolds, PTL

\* A capsule closed with success has the provider's record and a settled
\* runner, one closed with the provider's failure the record of it, and one
\* closed as never sent has no request on the wire, unless the outcome it had
\* to be closed with could not be written.
THEOREM CapsulesTell == CapsuleSpec => []CapsuleTells
<1>1. AllInv => CapsuleTells
  BY DEF AllInv, CapsuleInv, CapsuleKeeps, ClaimedOnce, OutcomeTells, Settled, CapsuleTells, PreSend
<1> QED BY <1>1, CapsuleInvHolds, PTL
=============================================================================
