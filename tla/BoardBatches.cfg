SPECIFICATION Spec
CONSTANTS
    DefaultColumns = 1
    MaxBoards = 2
    MaxColumns = 3
    MaxGroups = 1
    MaxItems = 2
    MaxIndex = 2
    MaxBatch = 2
    RepeatedGroups = FALSE
INVARIANTS
    TypeOK ColumnOrderDense RootOrderUnique GroupOrderUnique
    GroupedItemsShareColumn
CHECK_DEADLOCK FALSE
