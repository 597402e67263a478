--------------------------- MODULE MCBudgetLedger ---------------------------
(* A Charter that allows for one call and its whole reservation. *)
EXTENDS BudgetLedger, TLC

MCLimits == ("tokens" :> 2) @@ ("iteration_count" :> 3)
=============================================================================
