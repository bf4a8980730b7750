CONSTANTS
    t1 = t1
    t2 = t2
    f1 = f1
    f2 = f2
    Tx = {t1}
    File = {f1, f2}
    Foreign = Foreign
    None = None
    MaxFaults = 3
SPECIFICATION FairSpec
INVARIANTS
    RolledBackLeavesNothing
    BoundIsRetained
    OfferedActionsWork
PROPERTIES
    PublishedGetsCompleted
CHECK_DEADLOCK FALSE
