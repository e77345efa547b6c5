----------------------------- MODULE MCPullCursor -----------------------------
(* Instances of PullCursor for TLC.  The event with key 10 * s + n is the   *)
(* n-th of session s.                                                       *)
EXTENDS PullCursor

TwoSessions == {1, 2}
FourEvents == {11, 12, 21, 22}
FourOwners == [e \in FourEvents |-> e \div 10]

FourSessions == {1, 2, 3, 4}
TwoEvents == {11, 41}
TwoOwners == [e \in TwoEvents |-> e \div 10]
===============================================================================
