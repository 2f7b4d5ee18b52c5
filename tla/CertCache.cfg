SPECIFICATION CertsSpec
CONSTANTS
    Lookups = {c1, c2}
    Kids = {"k1", "k2"}
    MaxAge = 2
    MaxTime = 5
INVARIANTS WithdrawnKeysFade
