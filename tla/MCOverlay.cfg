CONSTANTS
  MaxInt = 7
  Floats <- MCFloats
  MaxVertex = 4
  Jobs <- MCOverlayJobs
  Cap = 12
  MaxPaths = 40
  MaxWalks = 2
  MaxCursors = 2
  MaxCursorRows = 10
  CursorTtl = 1
SPECIFICATION Spec
CHECK_DEADLOCK FALSE
INVARIANT
  TraversalsAgree
