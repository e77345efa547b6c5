------------------------------ MODULE MCSealGate ------------------------------
(* Instances of SealGate for TLC. *)
EXTENDS SealGate

CONSTANTS mine, team

(* Rows of both forms in both brains; the second page of the one, after the *)
(* first row, is all envelopes.                                             *)
RowsOf == [b \in Brains |-> IF b = mine THEN {1, 2, 4} ELSE {1, 3}]
EnvelopesOf == [b \in Brains |-> IF b = mine THEN {2, 4} ELSE {3}]
===============================================================================
