SPECIFICATION Spec
CONSTANTS
  SlotCount = 3
  TokensPerSlot = 2
  NoOwner = NoOwner
  KvGenerationLimit = 3
  SequenceGenerationLimit = 9
  MaximumSequences = 3
  ControllerRequests = 2
  Unclearable = {}
  RequestTokens = {2, 3}
  MaxRequests = 4
  MaxEvents = 4
PROPERTY DrainReleasesKv
CHECK_DEADLOCK FALSE
