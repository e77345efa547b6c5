----------------------------- MODULE MCLifecycle -----------------------------
(* Instances of Lifecycle for TLC. *)
EXTENDS Lifecycle, TLC

CONSTANTS u1, u2, d1, p1, i1, x1

KindOf == [c \in Cmds |-> (u1 :> "up" @@ u2 :> "up" @@ d1 :> "down" @@ p1 :> "purge"
                          @@ i1 :> "install" @@ x1 :> "uninstall")[c]]

(* up edits the hooks, down has --keep-bridge; the install has --mcp-only, the uninstall --mcp. *)
EditsOf == [c \in Cmds |-> (u1 :> <<"settings">> @@ u2 :> <<"settings">> @@ d1 :> <<>>
             @@ p1 :> <<>> @@ i1 :> <<"mcp">> @@ x1 :> <<"settings", "mcp">>)[c]]
===============================================================================
