SPECIFICATION Spec
CONSTANTS
  Chunks <- MCChunks
  Facts <- MCFacts
  Entities <- MCEntities
  Drafts <- MCDrafts
  ObservedAt <- MCObservedAt
  KeyOf <- MCKeyOf
  EntityOf <- MCEntityOf
  ValidFrom <- MCValidFrom
  ChatScoped <- MCChatScoped
  Boundary <- MCBoundary
  NoEntity = "none"
  Questions <- MCQuestions
  PathResults <- MCPathResults
  TopK = 2
  OverfetchMultiplier = 1
  OverfetchFloor = 2
  ChatTTL = 1
  RrfK = 60
  PathCap = 3
  SiblingLimit = 1
  MaxHops = 2
  Forever = 9
CHECK_DEADLOCK FALSE
INVARIANTS NoStaleBesideSuccessor FoundIsKept WindowRespectsChannels
