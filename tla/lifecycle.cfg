SPECIFICATION FairSpec
CONSTANTS
    Requests = {r1, r2}
    StoreKinds = {"memory", "database"}
    MaxBoots = 2
INVARIANTS TypeOK AcknowledgedVisible HealsWhatServes NoHalfServer CleanExit
PROPERTY SignalEnds
CHECK_DEADLOCK FALSE
