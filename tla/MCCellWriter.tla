---------------------------- MODULE MCCellWriter ----------------------------
EXTENDS CellWriter

MCProcOf == [t \in Tasks |-> IF t \in {"w1", "w2", "r1"} THEN "p1" ELSE "p2"]
=============================================================================
