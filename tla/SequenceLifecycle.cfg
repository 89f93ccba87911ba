SPECIFICATION Spec
CONSTANTS
  PromptLengths <- MCPromptLengths
  PlanNumbers <- MCPlanNumbers
  TokenCounts <- MCTokenCounts
  StateGenerations <- MCStateGenerations
INVARIANTS
  TokenLedger
PROPERTIES
  CommittedWorkIsNeverDropped
  EachPlanCountsOnce
  CancelIsFinal
\* A sequence that reached a terminal state accepts no further call.
CHECK_DEADLOCK FALSE
