SPECIFICATION FairSpec
CONSTANTS
    d1 = d1
    d2 = d2
    d3 = d3
    Drainer = {d1, d2, d3}
    Procs <- Mixed
    Daemon <- BothDrains
    MaxEvents = 2
    MaxAttempts = 3
    Batch = 2
    Expiring = {1}
    Repeated = {1}
    MaxCrashes = 2
PROPERTIES
    SummarizedStays
    ImplementsWorkQueue
    EventuallyDrained
CHECK_DEADLOCK FALSE
