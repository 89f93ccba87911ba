--------------------------- MODULE MCPackedEngine ---------------------------
(* Two sequences share plans; one of them may need two chunks for its      *)
(* prompt, or three decode steps.                                          *)
EXTENDS PackedEngine

MCRequests == 1..2
ChunkedPrompt == [prompt_tokens |-> 3, maximum_new_tokens |-> 1]
ShortPrompt == [prompt_tokens |-> 1, maximum_new_tokens |-> 3]
MCPayloads == {ChunkedPrompt, ShortPrompt}
ChunkedPayloads == {ChunkedPrompt}
MCBursts == 0..1
=============================================================================
