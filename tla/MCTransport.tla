----------------------------- MODULE MCTransport -----------------------------
(* Instances of Transport for TLC. *)
EXTENDS Transport, TLC
CONSTANTS m1, m2
FirstIsAhead == (m1 :> 1) @@ (m2 :> 0)
=============================================================================
