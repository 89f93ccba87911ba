------------------------- MODULE MCBatchGeneration -------------------------
(* Calls for one or two tokens, and calls the engine refuses as too long.  *)
EXTENDS BatchGeneration

CONSTANTS c1, c2

TwoCallers == {c1, c2}
MCRequests == 1..3
OneToken == [prompt_tokens |-> 1, maximum_new_tokens |-> 1]
TwoTokens == [prompt_tokens |-> 1, maximum_new_tokens |-> 2]
TooLong == [prompt_tokens |-> 3, maximum_new_tokens |-> 1]
TwoOrRefused == {TwoTokens, TooLong}
MixedPayloads == {OneToken, TwoTokens}
MCBursts == 0..1
=============================================================================
