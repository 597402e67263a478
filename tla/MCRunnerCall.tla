---------------------------- MODULE MCRunnerCall ----------------------------
(* One call, with a provider that can be asked for a result and does not know
   idempotency keys. *)
EXTENDS RunnerCall

MCQueryOnly == {[query |-> TRUE, idempotent |-> FALSE]}
=============================================================================
