SPECIFICATION FairSpec
CONSTANTS
    NFiles = 2
    Ops <- AllOps
    MaxFaults = 2
    MaxEdits = 1
INVARIANTS
    RestorationIsExact
    JournalIsBacked
    OneActInDoubt
PROPERTIES
    InspectedIsExact
    InterruptedGetsSealed
CHECK_DEADLOCK FALSE
