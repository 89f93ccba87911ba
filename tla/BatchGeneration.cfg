SPECIFICATION FairBatchSpec
CONSTANTS
  c1 = c1
  c2 = c2
  Callers <- TwoCallers
  PromptCallers = {c1}
  Sequences = 1
  Pending = 1
  OutputLimit = 1
  CleanupTimeouts = TRUE
  None = none
  Requests <- MCRequests
  Payloads <- TwoOrRefused
  CommandCapacity = 2
  EventCapacity = 2
  MaximumRequests = 1
  MaximumCandidates = 1
  MaximumPromptTokens = 2
  MaximumContextTokens = 3
  MaximumPrefillChunkTokens = 1
  MaximumSequencesPerPlan = 1
  MaximumRealTokensPerPlan = 1
  MaxConsecutiveDecodeRounds = 1
  PrefillStarvationThreshold = 1
  AdmissionOutcomes = {"ok", "exhausted"}
  MaxNow = 0
  SlotGenerationLimit = 9
  CreditGenerationLimit = 99
  PlanSequenceLimit = 99
  CreditCount = 1
  Bursts <- MCBursts
  Envelope <- MCBursts
  NoBurst = noburst
  ExecutionOutcomes = {"ok", "failed"}
  RecycleOutcomes = {"ok", "failed"}
  ReceiptCapacity = 1
INVARIANTS
  
  IdleOwnerHoldsNothing
  TokensReachTheCaller
  ReturnedCallsAreComplete
PROPERTIES
  StoppedOwnerEnds
  EveryCallReturns
