SPECIFICATION Spec
CONSTANTS
    DefaultColumns = 2
    MaxBoards = 1
    MaxColumns = 2
    MaxGroups = 2
    MaxItems = 2
    MaxIndex = 3
    MaxBatch = 1
    RepeatedGroups = FALSE
PROPERTIES MoveLandsWhereAsked  GapsOnlyFromDeletedItems UngroupKeepsPlace
CHECK_DEADLOCK FALSE
