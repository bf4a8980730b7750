CONSTANTS
    NFiles = 2
    Ops <- AllOps
    AuditLimit = 2
    MaxFaults = 2
    MaxEdits = 1
SPECIFICATION FairSpec
INVARIANTS
    RecordsAreTruthful
    RecoveryAcceptsItsOwnWork
PROPERTIES
    EffectsAreAuthorized
    StartedGetsCompleted
CHECK_DEADLOCK FALSE
