SPECIFICATION FairHistorySpec
CONSTANTS
    Codes = {c1}
    NoCode = NoCode
    Scanners = {s1}
    Cancellers = {k1, k2}
    LookupAuthenticated = FALSE
    MaxBacklog = 2
    Faults = {"db", "crash"}
INVARIANTS AdmissionNotLost
PROPERTIES AnnouncedReachesValidator AdmissionReported CancellationSettles ReportSettles
