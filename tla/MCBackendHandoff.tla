-------------------------- MODULE MCBackendHandoff --------------------------
(* Two backends and up to two handoffs between them. *)
EXTENDS BackendHandoff, TLC

CONSTANTS b1, b2

MCBackends == {b1, b2}

BackendSymmetry == Permutations(MCBackends)
=============================================================================
