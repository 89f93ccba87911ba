SPECIFICATION Spec
CONSTANTS
  CreditCount = 2
  Bursts = {small, large, oversized}
  Envelope = {small, large}
  NoBurst = none
  CreditGenerationLimit = 2
  PlanNumbers <- MCPlanNumbers
INVARIANTS
  EveryCreditHasOneOwner
PROPERTY
  CreditsMoveInOrder
\* Once every generation is used up the pool accepts no further plan.
CHECK_DEADLOCK FALSE
