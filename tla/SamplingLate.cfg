SPECIFICATION HostSpec
CONSTANTS
    d1 = d1
    m1 = m1
    m2 = m2
    Drainer = {d1}
    Procs <- OnlyProc
    Daemon <- OneDrain
    Host = {m1, m2}
    MaxEvents = 2
    MaxAttempts = 2
    Batch = 2
    Expiring = {}
    Repeated = {1}
    MaxCrashes = 1
    MaxCalls = 2
    MaxFaults = 1
INVARIANTS
    HostsExclusive
    ClaimsTraced
SYMMETRY SameHost
CHECK_DEADLOCK FALSE
