SPECIFICATION Spec
CONSTANTS
    Calls = {c1}
    Passwords = {p1, p2}
    NoPassword = NoPassword
    Life = 3
    MaxTime = 5
INVARIANTS RefreshCanStore
