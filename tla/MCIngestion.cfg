SPECIFICATION MCSpec
CONSTANTS
  c1 = c1  c2 = c2  c3 = c3  w1 = w1  w2 = w2  v1 = v1  v2 = v2  k1 = k1  k2 = k2
  Chunks = {c1, c2, c3}
  Versions = {v1, v2}
  Workers = {w1, w2}
  Keys = {k1, k2}
  Drafts <- OneOrNone
  ObservedAt <- MCObservedAt
  EffectiveAt <- MCObservedAt
  DraftValidTo <- NoValidTo
  Forever <- MCForever
  StableIds = FALSE
  MaxRuns <- Once
  MaxFaults = 1
  MaxClock = 0
CHECK_DEADLOCK FALSE
INVARIANTS  StageMeansDone SearchableIsInGraph  GraphWasRegistered SerialStoresAgree
PROPERTIES JobStoreSpec 
