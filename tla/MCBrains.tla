-------------------------------- MODULE MCBrains --------------------------------
(* Instances of Brains for TLC. *)
EXTENDS Brains, TLC

CONSTANTS n1, n2, p1, p2, g1, g2, a1, d1, d2, old, ann, bob, k1, k2

KindOf == [c \in Reqs |-> (n1 :> "create" @@ n2 :> "create" @@ p1 :> "push" @@ p2 :> "push"
             @@ g1 :> "pull" @@ g2 :> "pull" @@ a1 :> "add" @@ d1 :> "remove" @@ d2 :> "remove")[c]]

(* ann owns the old brain and creates two; bob is added to the first. *)
UserOf == [c \in Reqs |-> IF c \in {p2, g2} THEN bob ELSE ann]

SelectorOf == [c \in Reqs |-> (n1 :> n1 @@ n2 :> n2 @@ p1 :> None @@ p2 :> n1
                 @@ g1 :> None @@ g2 :> n1 @@ a1 :> n1 @@ d1 :> n1 @@ d2 :> n1)[c]]

RowOf == [c \in Reqs |-> IF c = p1 THEN k1 ELSE k2]
TargetOf == [c \in Reqs |-> IF c = d1 THEN ann ELSE bob]
OldOwnerOf == [b \in Old |-> ann]

===============================================================================
