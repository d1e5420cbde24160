SPECIFICATION FairSpec
CONSTANTS
  Nodes = {"n1", "n2"}
  Cells = {"c1", "c2"}
  NodeId <- MCNodeId
  Score <- MCScore
  Interval = 1
  Timeout = 2
  NodeFaults = {"n1"}
  ListFaults = {"n2"}
  PutFaults = {"n2"}
CHECK_DEADLOCK FALSE
INVARIANTS StaleViewIsShed
PROPERTIES PlacementHeals
