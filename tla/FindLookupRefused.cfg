SPECIFICATION Spec
CONSTANTS
    Codes = {c1}
    NoCode = NoCode
    Scanners = {s1}
    Cancellers = {k1}
    LookupAuthenticated = FALSE
    MaxBacklog = 2
    Faults = {}
INVARIANTS FallbackAnswers
