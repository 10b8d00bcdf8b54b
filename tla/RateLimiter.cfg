SPECIFICATION Spec
CONSTANTS
    IPs = {a1, a2}
    NoIP = NoIP
    Requests = {r1, r2}
    Limiters = {l1, l2, l3}
    NoLimiter = NoLimiter
    Burst = 2
    Stale = 3
    MaxStall = 1
INVARIANTS TypeOK
PROPERTIES ImplementsTokenBucket
