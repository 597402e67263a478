------------------------- MODULE MCProviderDispatch -------------------------
(***************************************************************************)
(* Instance of ProviderDispatch for TLC: one hermetic and one live call of *)
(* two processes, interchangeable like their sessions.                     *)
(***************************************************************************)
EXTENDS ProviderDispatch, TLC

Symmetry == Permutations(Workers) \cup Permutations(Sessions)
=============================================================================
