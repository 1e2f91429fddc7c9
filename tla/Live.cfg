SPECIFICATION LiveSpec
CONSTANTS
    Daemon = {d1, d2}
    Session = {s1, s2}
    Start = {}
    Check = {c1}
    NoDaemon = NoDaemon
    MaxFaults = 1
    MaxStops = 1
    Style = {"rpc", "send", "stream"}
    MaxFrames = 2
    MaxBody = 2
    MaxParts = 1
    MaxDrops = 1
    Asked <- AskedAll
    MaxTicks = 1
    DrainBatch = 2
    MaxSamples = 3
    MaxId = 3
    Point = {0, 1, 2}
    Foreign = {2}
    MinDelta = 1
    PairLimit = 2
    MaxEdits = 2
    MaxRestarts = 1
    MaxEvent = 4
    Code = {1, 2}
    Batch = 2
    MaxBusy = 3
    MaxRaw = 2
    MaxBackoff = 2
    MaxErrors = 3
INVARIANTS
    SecondServerNeedsRace
    OrphanNeedsRaceOrStop
    DecodesEveryCut
    LinesAnsweredOnce
    PinProtects
    HeirRemains
    OneChain
PROPERTIES
    SpawnEndsReachable
    GoodCallResolves
    EveryCallAnswered
    BacklogCompared
    AllAnnotated
    RawGetsDrained
CHECK_DEADLOCK FALSE
