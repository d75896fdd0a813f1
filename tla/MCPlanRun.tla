------------------------------ MODULE MCPlanRun ------------------------------
(* Four files side by side, for TLC.                                       *)
EXTENDS PlanRun, TLC

FlatAbove == [p \in 1..NPaths |-> {}]
Contents == Permutations(Content)
=============================================================================
