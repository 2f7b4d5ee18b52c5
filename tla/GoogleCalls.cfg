SPECIFICATION Spec
CONSTANTS
    Calls = {c1, c2}
    Subs = {s1, s2}
    Emails = {e1, e2}
    NoSub = NoSub
    NoEmail = NoEmail
    MaxStates = 3
    MaxExchanges = 2
SYMMETRY Symmetry
INVARIANTS StateAdmitsOnce ExchangeDeliversOnce SerialSignedInAsLinked
PROPERTIES FirstLoginsAgree
CHECK_DEADLOCK FALSE
