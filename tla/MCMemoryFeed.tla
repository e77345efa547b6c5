---------------------------- MODULE MCMemoryFeed ----------------------------
(* An instance of MemoryFeed for TLC: a scope with a plan, and a scope that *)
(* sorts behind them.                                                       *)
EXTENDS MemoryFeed

OuterScopes == {1, 3}
OnePlan == {2}
Owner == [k \in {1, 2, 3} |-> IF k = 2 THEN 1 ELSE k]
FirstKey == {1}
=============================================================================
