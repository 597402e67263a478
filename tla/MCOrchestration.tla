--------------------------- MODULE MCOrchestration ---------------------------
(***************************************************************************)
(* Orchestration for TLC.  Parts with sessions of their own have one       *)
(* initial state each up to symmetry.                                      *)
(***************************************************************************)
EXTENDS Orchestration, TLC

CONSTANTS b1, b2, p1, p2, s1, s2, w1, w2

ASSUME HandoffAssumption == BackendsAssumption /\ HandoffBoundsAssumption

MCBackends == {b1, b2}
MCProcesses == {p1, p2}
MCSessions == {s1, s2}
MCWorkerSessions == {w1, w2}

\* Processes are interchangeable, and so are sessions.
Symmetry ==
    Permutations(MCProcesses) \cup Permutations(MCSessions) \cup Permutations(MCWorkerSessions)
=============================================================================
