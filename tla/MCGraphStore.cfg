SPECIFICATION StoreSpec
CONSTANTS
    s1 = s1
    s2 = s2
    a = a
    b = b
    c = c
    Stores = {s1, s2}
    Callers = {a, b, c}
    Setups <- MCSetups
    MaxSeq = 3
    MaxEpoch = 3
CHECK_DEADLOCK FALSE
INVARIANTS ReadsAreFresh WriterIsOwned
PROPERTIES EveryCallReturns
