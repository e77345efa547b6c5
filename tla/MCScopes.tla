------------------------------- MODULE MCScopes -------------------------------
(* Instances of Scopes for TLC. *)
EXTENDS Scopes, TLC
CONSTANTS m1, m2, c1, c2
TwoDeep == {<<1>>, <<1, 1>>}
ThreeDeep == {<<1>>, <<1, 1>>, <<1, 1, 1>>}
Symmetry == Permutations(Machines) \cup Permutations(Callers)
===============================================================================
