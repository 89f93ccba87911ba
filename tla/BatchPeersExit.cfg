SPECIFICATION BatchSpec
CONSTANTS
  c1 = c1
  c2 = c2
  Callers <- TwoCallers
  PromptCallers = {c1}
  Sequences = 2
  Pending = 1
  OutputLimit = 1
  CleanupTimeouts = FALSE
  None = none
  Requests <- MCRequests
  Payloads <- MixedPayloads
  CommandCapacity = 4
  EventCapacity = 4
  MaximumRequests = 2
  MaximumCandidates = 2
  MaximumPromptTokens = 2
  MaximumContextTokens = 3
  MaximumPrefillChunkTokens = 2
  MaximumSequencesPerPlan = 2
  MaximumRealTokensPerPlan = 2
  MaxConsecutiveDecodeRounds = 1
  PrefillStarvationThreshold = 1
  AdmissionOutcomes = {"ok"}
  MaxNow = 0
  SlotGenerationLimit = 9
  CreditGenerationLimit = 99
  PlanSequenceLimit = 99
  CreditCount = 2
  Bursts <- MCBursts
  Envelope <- MCBursts
  NoBurst = noburst
  ExecutionOutcomes = {"ok"}
  RecycleOutcomes = {"ok"}
  ReceiptCapacity = 2
INVARIANT PeersExitWithoutFailure
