SPECIFICATION Spec
CONSTANTS
    NScopes = 4
    Name <- MCSorted
    Setups <- MCSmallSlices
    Threshold = 2
    MaxFaults = 1
INVARIANTS ReadersWellKept
 
