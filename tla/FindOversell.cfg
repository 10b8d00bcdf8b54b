SPECIFICATION OverlapSpec
CONSTANTS
    Events = {e1}
    Requests = {r1, r2}
    MaxCapacity = 2
    MaxQuantity = 2
    MaxInFlight = 2
    Faults = {}
INVARIANTS NoOversell
CHECK_DEADLOCK FALSE
