SPECIFICATION Spec
CONSTANTS
  e1 = e1
  e2 = e2
  w = w
  r = r
  bw = bw
  br = br
  qw = qw
  qr = qr
  Edges = {e1, e2}
  Direct = {e1}
  Nodes = {w, r}
  Writer = w
  Builders = {bw, br}
  Readers = {qw, qr}
  NodeOf <- MCNodeOf
  Chunks = {1, 2}
  MaxSeq = 6
  Retain = 0
  MaxTail = 2
  MaxAffected = 1
  Attempts = 2
  MinEdges = 0
  Setups <- MCSetups
CHECK_DEADLOCK FALSE
INVARIANTS ReadsItsSnapshot PublishedIsWhole
PROPERTIES PublishedAdvances
