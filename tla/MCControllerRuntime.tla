------------------------ MODULE MCControllerRuntime -------------------------
(* Prompts that take two chunks, followed by a decode step.                *)
EXTENDS ControllerRuntime

MCRequests == 1..2
MCPayloads == {[prompt_tokens |-> 3, maximum_new_tokens |-> 2]}
MCBursts == 0..1
=============================================================================
