SPECIFICATION FairSpec
CONSTANTS
    Kids = {k1, k2}
    Requests = {r1, r2}
    NoOne = NoOne
    MaxRotations = 1
    Faults = {"fetch", "error"}
INVARIANTS TypeOK PublishedKeyFound RetiredKeyRefused
PROPERTIES CacheNeverGoesBack EveryRequestAnswered
