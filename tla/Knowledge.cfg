SPECIFICATION KnowledgeSpec
CONSTANTS
    MaxSum = 3
    Fresh = {2, 3}
    Hot = {3}
    k = 2
    pool = 2
    rrfK = 1
    scale = 60
    MaxTouch = 2
    Files = {f1}
    Sessions = {s1, s2}
    Kinds = {"trace", "subgraph", "path"}
    MaxCaptures = 3
    MaxRepeats = 1
    MaxSweeps = 1
    maxDepth = 2
    maxEdges = 2
    MaxRows = 2
    MaxOwn = 1
    MaxPasses = 2
INVARIANTS
    ShownRightly
    FusionMonotonic
    WalksRight
    ChainFollowsSession
    RestoresSnapshot
    ImportTakesNothing
CHECK_DEADLOCK FALSE
SYMMETRY Symmetric
