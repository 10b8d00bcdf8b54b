SPECIFICATION FairSpec
CONSTANTS
    Purchases = {p1, p2}
    NoPurchase = NoPurchase
    Workers = {w1, w2}
    MaxMails = 2
    Faults = {"smtp", "hang", "disconnect", "crash", "stop", "loss"}
INVARIANTS TypeOK OneLiveCopy SettledWasMailed SecondMailOnlyAfterFault
PROPERTIES ImplementsMailDelivery EveryPurchaseMailed StopsUnlessMailHangs
