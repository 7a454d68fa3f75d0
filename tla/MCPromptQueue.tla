--------------------------- MODULE MCPromptQueue ---------------------------
(* PromptQueue on small instances: two prompts, two goroutines. *)
EXTENDS PromptQueue

CONSTANTS c1, c2
=============================================================================
