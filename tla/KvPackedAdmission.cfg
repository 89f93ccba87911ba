SPECIFICATION Spec
CONSTANTS
  SlotCount = 3
  TokensPerSlot = 2
  NoOwner = NoOwner
  KvGenerationLimit = 3
  SequenceGenerationLimit = 4
  MaximumSequences = 3
  ControllerRequests = 2
  Unclearable = {1}
  RequestTokens = {2, 3}
  MaxRequests = 4
  MaxEvents = 4
INVARIANTS
  GenerationsStayInStep
  SlotsFollowAdmissions
\* A poisoned engine accepts nothing.
CHECK_DEADLOCK FALSE
