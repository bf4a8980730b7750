SPECIFICATION FairSpec
CONSTANTS
    Controller <- TwoControllers
    Allowed <- Operators
    Request <- TwoRequests
    Lab <- LabRequest
    Envelope <- OneEnvelope
    MaxFaults = 1
    MaxEdits = 1
    MaxStarts = 2
INVARIANTS
    RecoveryMeansAreKept
    RefusedLeftNothing
PROPERTIES
    AdmittedIsHardened
    ForeignServiceIsKept
    InterruptedGetsCompleted
CHECK_DEADLOCK FALSE
