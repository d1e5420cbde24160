SPECIFICATION Spec
CONSTANTS
    Vertices <- MCVertices
    Pairs <- MCPairs
    Legacy = {}
    Workloads <- MCWorkloads
    GcCap = 2
    MaxSeq = 5
    MaxStops = 1
CHECK_DEADLOCK FALSE
INVARIANTS StructuresAgree DropIsFinal
PROPERTIES DeletesComplete
