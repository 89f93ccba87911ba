CONSTANTS
  SlotCount = 2
  TokensPerSlot = 2
  NoOwner = NoOwner
  KvGenerationLimit = 3
  SequenceGenerationLimit = 2
  SequenceIndices = {0, 1}
  MaxEvents = 8
SPECIFICATION FairSpec
INVARIANTS
  TypeOK
  CreditsCountCleanSlots
  ReservedSlotsAreErased
  NoReuseBeforeLastUse
  RetiredHandlesStayStale
PROPERTY ReleasedSlotsComeBack
CHECK_DEADLOCK FALSE
