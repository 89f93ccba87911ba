------------------------ MODULE MCSequenceLifecycle -------------------------
(* Two-token prompts and up to two generated tokens: chunked and final     *)
(* prefill, decode and verify plans all occur, and plan numbers repeat.    *)
EXTENDS SequenceLifecycle

MCPromptLengths == 1..3
MCPlanNumbers == 0..2
MCTokenCounts == 0..4
MCStateGenerations == 1..4
=============================================================================
