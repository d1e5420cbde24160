SPECIFICATION Spec
CONSTANTS
  Procs = {"p1", "p2"}
  Tasks = {"w1","r1","v1"}
  Requests = {"w1","v1"}
  Renewers = {"r1"}
  ProcOf <- MCProcOf
  Duration = 2
  Guard = 0
  MaxAttempts = 2
  Patience = 0
  MaxTime = 2
  MaxBeat = 2
  MaxUsers = 1
  Interval = 1
  Floor = 1
  Ceiling = 2
  Faults = {"open", "store", "crash", "cancel"}
  MaxFaults = 1
  MaxEpoch = 2
  MaxCommits = 1
CHECK_DEADLOCK FALSE
INVARIANTS  GenerationUnique
PROPERTIES GenerationNeverDecreases FencedSpec
