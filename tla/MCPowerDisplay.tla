--------------------------- MODULE MCPowerDisplay ---------------------------
(* Two percent of range, eight filter units each, and delays just long      *)
(* enough for a press to be followed by a full round of the state task.     *)
EXTENDS PowerDisplay
=============================================================================
