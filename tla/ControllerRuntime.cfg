SPECIFICATION Spec
CONSTANTS
  None = none
  Requests <- MCRequests
  Payloads <- MCPayloads
  CommandCapacity = 1
  EventCapacity = 4
  MaximumRequests = 2
  MaximumCandidates = 2
  MaximumPromptTokens = 3
  MaximumContextTokens = 5
  MaximumPrefillChunkTokens = 2
  MaximumSequencesPerPlan = 2
  MaximumRealTokensPerPlan = 3
  MaxConsecutiveDecodeRounds = 1
  PrefillStarvationThreshold = 1
  AdmissionOutcomes = {"ok", "exhausted", "reserve_failed", "publish_failed"}
  MaxNow = 0
  SlotGenerationLimit = 1
  CreditGenerationLimit = 9
  PlanSequenceLimit = 3
  CreditCount = 2
  Bursts <- MCBursts
  Envelope <- MCBursts
  NoBurst = noburst
INVARIANTS
  TypeOK
  PayloadsHaveOneOwner
  CreditsHaveOneOwner
  PlanAndMembersAgree
  ReadyMeansSchedulable
  BundlesAreContiguous
  ConsumerCatchesUp
  NextInputIsLastToken
PROPERTY ImplementsRequestStream
\* A failed runtime, or one whose generations are used up, accepts nothing.
CHECK_DEADLOCK FALSE
