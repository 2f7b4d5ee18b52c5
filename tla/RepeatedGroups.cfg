SPECIFICATION Spec
CONSTANTS
    DefaultColumns = 2
    MaxBoards = 1
    MaxColumns = 2
    MaxGroups = 1
    MaxItems = 1
    MaxIndex = 0
    MaxBatch = 2
    RepeatedGroups = TRUE
INVARIANTS GroupedItemsShareColumn
CHECK_DEADLOCK FALSE
