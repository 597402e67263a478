---------------------------- MODULE MCRunControl ----------------------------
(* One administrator and two runners that share one run. *)
EXTENDS RunControl, TLC

CONSTANTS h, r1, r2

MCActors == {h, r1, r2}
MCAdmins == {h}

\* The two runners are interchangeable.
RunnerSymmetry == Permutations({r1, r2})
=============================================================================
