\* Captures, backfills, deletions, checkpoints and two stops, power losses among them.
SPECIFICATION FairSpec
CONSTANTS
    h1 = h1
    h2 = h2
    note = note
    fact = fact
    NoRow = NoRow
    Handler <- TwoHandlers
    Payload <- TwoPayloads
    Ephemeral <- OnlyFact
    MaxStops = 2
INVARIANTS IInv WriteAhead LoggedKept
PROPERTIES Recovered
CHECK_DEADLOCK FALSE
