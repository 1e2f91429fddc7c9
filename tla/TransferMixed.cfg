SPECIFICATION TransferSpec
CONSTANTS
    MaxRows = 2
    MaxOwn = 1
    MaxPasses = 2
INVARIANT SummariesKeepTheirEvent
CHECK_DEADLOCK FALSE
