SPECIFICATION APISpec
CONSTANTS
    Events = {e1}
    Requests = {r1, r2}
    MaxCapacity = 3
    MaxQuantity = 2
    MaxInFlight = 2
    Faults = {"db", "disconnect", "crash"}
SYMMETRY RequestSymmetry
INVARIANTS ProcessTypeOK
PROPERTIES ImplementsPurchaseService PublishedIsRouted
