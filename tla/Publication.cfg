SPECIFICATION FairSpec
CONSTANTS
    Plan <- TwoPlans
    File <- TwoFiles
    Route <- BothRoutes
    MaxAttempts = 2
    MaxFaults = 2
    MaxEdits = 1
INVARIANTS
    ReadersSeeInstallations
PROPERTIES
    PhasesInOrder
    ReportsAreTruthful
    PreparedGetsInstalled
CHECK_DEADLOCK FALSE
