SPECIFICATION DaemonSpec
CONSTANTS
    Daemon = {d1, d2}
    Session = {}
    Start = {c1, c2}
    Check = {}
    NoDaemon = NoDaemon
    MaxFaults = 0
    MaxStops = 0
INVARIANT
    OneServer
CHECK_DEADLOCK FALSE
