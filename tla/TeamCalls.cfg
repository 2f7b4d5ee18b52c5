SPECIFICATION Spec
CONSTANTS
    Users = {u1, u2, u3}
    Calls = {c1, c2}
    MaxRows = 4
    MaxCodes = 3
    Nobody = Nobody
SYMMETRY Symmetry
PROPERTIES
    OwnerGoesOnlyByLeaving OnlyFoundMembershipsEnd
    RetiredCodesStayRetired
    SerialOwnerLeavesAlone SerialWorkingLinkKept SerialJoinsAreAuthorised
CHECK_DEADLOCK FALSE
