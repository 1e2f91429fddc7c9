SPECIFICATION Spec
CONSTANTS
    d1 = d1
    d2 = d2
    d3 = d3
    Drainer = {d1, d3}
    Procs <- TwoProcess
    Daemon <- DaemonOnly
    MaxEvents = 3
    MaxAttempts = 2
    Batch = 2
    Expiring = {1}
    Repeated = {1}
    MaxCrashes = 1
INVARIANTS
    IInv
    ClaimExclusive
    SummarizedIsBacked
    ClaimedHasOwner
CHECK_DEADLOCK FALSE
