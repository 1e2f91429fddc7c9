\* A pinned summary is pruned.
SPECIFICATION CurationSpec
CONSTANTS
    MaxId = 3
    Point = {0, 1, 2}
    Foreign = {2}
    MinDelta = 1
    PairLimit = 2
    MaxEdits = 2
    MaxRestarts = 1
PROPERTIES
    PinsSurvive
CHECK_DEADLOCK FALSE
