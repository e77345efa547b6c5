------------------------------- MODULE MCCapture -------------------------------
(* Instances of Capture for TLC: the SessionStart hook and a PostToolUse     *)
(* hook, which sends a call and its result.                                  *)
EXTENDS Capture, TLC

StartAndTool == {<<0>>, <<2, 3>>}
===============================================================================
