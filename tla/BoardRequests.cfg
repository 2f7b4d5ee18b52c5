SPECIFICATION RequestSpec
SYMMETRY Symmetry
CONSTANTS
    Calls = {c1, c2}
    MaxOverlaps = 1
    DefaultColumns = 1
    MaxBoards = 1
    MaxColumns = 2
    MaxGroups = 1
    MaxItems = 2
    MaxIndex = 0
    MaxBatch = 1
    RepeatedGroups = FALSE
PROPERTIES SerialCallsAreAtomic SyncRepairsOrder
CHECK_DEADLOCK FALSE
