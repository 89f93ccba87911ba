SPECIFICATION Spec
CONSTANTS
  MaximumCandidates = 3
  MaximumSequencesPerPlan = 1
  MaximumRealTokensPerPlan = 2
  MaxConsecutiveDecodeRounds = 2
  PrefillStarvationThreshold = 2
  Slots = 3
  Prompts = {1,2}
  NewTokens = {1,2}
  Chunk = 1
  TimePerRound = 1
INVARIANTS DecodesAreNotStarved PrefillsAreNotStarved
