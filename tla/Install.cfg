CONSTANTS
    t1 = t1
    t2 = t2
    u1 = u1
    Tx = {t1, t2}
    Sources <- EverySource
    Un = {u1}
    None = None
    Torn = Torn
    Foreign = Foreign
    MaxFaults = 2
    MaxEdits = 1
SPECIFICATION FairSpec
INVARIANTS
    RecordsAreTruthful
    StreamInstalledIsOwn
    OneLiveInstallation
PROPERTIES
    PublishedGetsFinalized
CHECK_DEADLOCK FALSE
