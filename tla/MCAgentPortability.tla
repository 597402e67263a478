-------------------------- MODULE MCAgentPortability --------------------------
(* Two backends of one model on one host. *)
EXTENDS AgentPortability

MCModelOf == [b \in Backends |-> "m1"]
===============================================================================
