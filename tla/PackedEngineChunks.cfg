SPECIFICATION EngineSpec
CONSTANTS
  None = none
  Requests <- MCRequests
  Payloads <- ChunkedPayloads
  CommandCapacity = 1
  EventCapacity = 4
  MaximumRequests = 2
  MaximumCandidates = 2
  MaximumPromptTokens = 3
  MaximumContextTokens = 4
  MaximumPrefillChunkTokens = 2
  MaximumSequencesPerPlan = 2
  MaximumRealTokensPerPlan = 2
  MaxConsecutiveDecodeRounds = 1
  PrefillStarvationThreshold = 1
  AdmissionOutcomes = {"ok"}
  MaxNow = 0
  SlotGenerationLimit = 1
  CreditGenerationLimit = 9
  PlanSequenceLimit = 4
  CreditCount = 2
  Bursts <- MCBursts
  Envelope <- MCBursts
  NoBurst = noburst
  ExecutionOutcomes = {"ok"}
  RecycleOutcomes = {"ok"}
  ReceiptCapacity = 2
INVARIANT
  ExecutedPlansComplete
CHECK_DEADLOCK FALSE
