SPECIFICATION Spec
CONSTANTS
    d1 = d1
    d2 = d2
    d3 = d3
    Drainer = {d1, d2}
    Procs <- OneProcess
    Daemon <- BothDrains
    MaxEvents = 2
    MaxAttempts = 2
    Batch = 2
    Expiring = {1}
    Repeated = {1}
    MaxCrashes = 0
INVARIANTS
    VectorsMatch
CHECK_DEADLOCK FALSE
