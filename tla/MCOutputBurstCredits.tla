------------------------ MODULE MCOutputBurstCredits ------------------------
(* Two credits, so that a freed credit is reused while the other is out;   *)
(* three generations each, so that the generation limit is reached.        *)
EXTENDS OutputBurstCredits

MCPlanNumbers == 0..3
=============================================================================
