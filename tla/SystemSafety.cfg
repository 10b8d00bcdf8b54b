SPECIFICATION Spec
CONSTANTS
    Codes = {c1}
    NoCode = NoCode
    Scanners = {s1, s2}
    Cancellers = {k1, k2}
    LookupAuthenticated = FALSE
    MaxBacklog = 2
    Faults = {"db", "disconnect", "crash", "loss"}
SYMMETRY Symmetry
INVARIANTS TypeOK LateScanRejected UsedOnlyIfAdmitted CancelledOnlyIfWithdrawn
PROPERTIES ImplementsTicketLedger
