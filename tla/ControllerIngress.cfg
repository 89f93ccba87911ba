SPECIFICATION FairSpec
CONSTANTS
  t1 = t1
  t2 = t2
  t3 = t3
  Threads <- MCThreads
  NoThread = none
  Requests <- MCRequests
  Payloads <- MCPayloads
  CommandCapacity = 2
  MaximumRequests = 2
  MaximumPromptTokens = 1
  MaximumContextTokens = 3
  SlotGenerationLimit = 2
INVARIANTS
  AdmitFindsItsPayload
  RollbackFindsItsPayload
  PublishedHasOneHolder
  ClaimsStayLive
PROPERTY PublishedIsServed
