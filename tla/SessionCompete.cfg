CONSTANTS
    t1 = t1
    t2 = t2
    f1 = f1
    f2 = f2
    Tx = {t1, t2}
    File = {f1}
    Foreign = Foreign
    None = None
    MaxFaults = 1
SPECIFICATION Spec
SYMMETRY Symmetry
INVARIANTS
    StreamCompletionIsTruthful
PROPERTIES
    PublishesRecordedClosure
CHECK_DEADLOCK FALSE
