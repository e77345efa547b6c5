------------------------------ MODULE MCPlanLog ------------------------------
(* Instances of PlanLog for TLC. *)
EXTENDS PlanLog, TLC

Symmetry == Permutations(Mcp)
=============================================================================
