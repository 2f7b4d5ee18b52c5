SPECIFICATION Spec
CONSTANTS
    Calls = {c1, c2}
    Passwords = {p1, p2, p3}
    NoPassword = NoPassword
    Life = 2
    MaxTime = 4
SYMMETRY Symmetry
INVARIANTS ParentRetiredFirst SerialOneHeirPerToken SerialTokensFollowPassword
PROPERTIES RevokedForGood
