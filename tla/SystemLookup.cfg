SPECIFICATION Spec
CONSTANTS
    Codes = {c1}
    NoCode = NoCode
    Scanners = {s1, s2}
    Cancellers = {k1}
    LookupAuthenticated = TRUE
    MaxBacklog = 2
    Faults = {"db", "disconnect", "crash"}
SYMMETRY Symmetry
INVARIANTS CreatedNotLost
PROPERTIES NoResurrection
