------------------------------ MODULE SpecSlot ------------------------------
(***************************************************************************)
(* What projects-svc promises about the CREATING_SPEC state                *)
(* (dispatch/dispatch.go:1-6): one slot, given to one prompt only while it *)
(* is empty.  A prompt whose state the user edits is not in it.            *)
(***************************************************************************)
CONSTANT Prompts

VARIABLE slot   \* the prompts dispatched and CREATING_SPEC

Init == slot = {}

Take(p) == slot = {} /\ slot' = {p}

Leave == slot # {} /\ slot' = {}

Next == (\E p \in Prompts : Take(p)) \/ Leave

Spec == Init /\ [][Next]_slot
=============================================================================
