------------------------------- MODULE MCAccounts -------------------------------
(* Instances of Accounts for TLC. *)
EXTENDS Accounts, TLC

CONSTANTS r1, r2, l1, i1, a1, a2, o1, A, B, C

Verb == r1 :> "register" @@ r2 :> "register" @@ l1 :> "login" @@ i1 :> "invite"
        @@ a1 :> "accept" @@ a2 :> "accept" @@ o1 :> "logout"
KindOf == [c \in Calls |-> Verb[c]]

(* r1, the invite and the logout share a machine; two machines accept. *)
Place == r1 :> A @@ r2 :> B @@ l1 :> B @@ i1 :> A @@ a1 :> B @@ a2 :> C @@ o1 :> A
PlaceOf == [c \in Calls |-> Place[c]]

(* One machine runs its accept twice. *)
SamePlace == [c \in Calls |-> IF c = a2 THEN B ELSE Place[c]]
===============================================================================
