----------------------------- MODULE MCLiveCanary -----------------------------
(***************************************************************************)
(* Two claims of one call and two executors: the smallest instance where   *)
(* one execution closes what another one is still doing.                   *)
(***************************************************************************)
EXTENDS LiveCanary, TLC

MCClaims == 1..2
MCSymmetry == Permutations(Executors)
==============================================================================
