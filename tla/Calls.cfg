SPECIFICATION CallsSpec
CONSTANTS
    MaxTurns = 3
    v = v
    w = w
    Workspace = {v, w}
    Ports = 2
    derived <- DerivedSame
    pinnedPort = {w}
    MaxRetries = 1
    MaxBoots = 3
    MaxTokens = 3
    MaxAsks = 4
    Pin = {p1, p2}
    Summary = {m1, m2}
    Calls = {d1, d2}
    MaxClock = 1
    Window = 0
    Event = {"e1", "e2", "e3"}
    Input = {"same", "other"}
    input <- TwoInputs
    NoAnswer = NoAnswer
    MaxModelRetries = 1
    MaxFaults = 2
INVARIANTS
    AtMostOneExecutor
    TokenAgrees
    AnswersOwnWorkspace
    QuietShowsLast
    HealExplained
    ProbesSpaced
    SummaryOfOwnInput
    PaidOnce
CHECK_DEADLOCK FALSE
SYMMETRY Symmetric
