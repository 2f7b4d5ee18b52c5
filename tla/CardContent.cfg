SPECIFICATION Spec
SYMMETRY Symmetry
CONSTANTS
    Users = {u1}
    Guest = Guest
    Calls = {c1, c2}
    Repertoires <- MCRepertoires
    MaxComments = 2
    MaxOverlaps = 1
INVARIANTS LikedOnce SerialNothingLost
PROPERTIES WritesAreAuthorised AnswersHideWhatIsHidden SerialRefusedForCause
