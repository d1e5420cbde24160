SPECIFICATION Spec
CONSTANTS
    Clients <- MCClients
    Keys <- MCKeys
    Gates <- MCGates
    Capacity <- MCCapacity
    Plans <- MCPlans
    MaxCursors = 2
    MaxBytes = 3
    MaxCursorId = 5
    MaxGen = 10
    Bolt = "bolt"
    Prefetch = 2
    QueueLimit = 2
    Everything = 9
CHECK_DEADLOCK FALSE
INVARIANTS NothingLeaks 
 
