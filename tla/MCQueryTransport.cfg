SPECIFICATION Spec
CONSTANTS
    Requests <- MCRequests
    Conns <- MCConns
    Keys <- MCKeys
    Gates <- MCGates
    Capacity <- MCCapacity
    Plans <- MCPlans
    ClientConns = 3
    MaxIdle = 1
    ServerConns = 2
    ControlConns = 1
    MaxServed = 2
CHECK_DEADLOCK FALSE
INVARIANTS NoCrossedAnswers ServerAccounts
PROPERTIES EverythingEnds
