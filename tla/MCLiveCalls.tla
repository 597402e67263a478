----------------------------- MODULE MCLiveCalls -----------------------------
(***************************************************************************)
(* The preparation of a call that nobody executes yet, the execution of a  *)
(* call that was prepared, and its execution by a capsule, side by side: a *)
(* behaviour is of one of them, chosen at the start, so that their states  *)
(* add up.                                                                 *)
(***************************************************************************)
EXTENDS Capsule

VARIABLE phase

MCContents == 1..2

MCInit ==
    /\ NothingExecuted /\ NoCapsule
    /\ \/ phase = "preparation" /\ PrepInit
       \/ phase \in {"execution", "capsule"} /\ HandedOver

MCNext ==
    /\ \/ phase = "preparation" /\ PrepNext /\ UNCHANGED <<nativeVars, capsuleVars>>
       \/ phase = "execution" /\ Next /\ UNCHANGED capsuleVars
       \/ phase = "capsule" /\ CapsuleNext
    /\ UNCHANGED phase

MCSpec == MCInit /\ [][MCNext]_<<vars, capsuleVars, phase>>
==============================================================================
