\* A replay that fails.
SPECIFICATION Spec
CONSTANTS
    h1 = h1
    h2 = h2
    note = note
    fact = fact
    NoRow = NoRow
    Handler <- TwoHandlers
    Payload <- TwoPayloads
    Ephemeral <- OnlyFact
    MaxStops = 2
PROPERTIES TruncatedFolded
CHECK_DEADLOCK FALSE
