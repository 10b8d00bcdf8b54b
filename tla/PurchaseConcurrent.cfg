SPECIFICATION FairOverlapSpec
CONSTANTS
    Events = {e1}
    Requests = {r1, r2, r3}
    MaxCapacity = 3
    MaxQuantity = 2
    MaxInFlight = 3
    Faults = {"db", "disconnect", "crash"}
INVARIANTS OverlapTypeOK SoldWithinCapacity SoldNeverOverstated RefusalIsTruthful CreatedIsWhole OversoldOnlyByOverwriting
PROPERTIES ImplementsTicketIssue ImplementsBoxOffice EveryCallCounts EveryPurchaseEnds
CHECK_DEADLOCK FALSE
