CONSTANTS
    t1 = t1
    t2 = t2
    t3 = t3
    Tx = {t1, t2, t3}
    BoundTx = {t3}
    Old = Old
    x1 = x1
    x2 = x2
    Foreign = {x1, x2}
    None = None
SPECIFICATION Spec
SYMMETRY Symmetry
INVARIANTS
    NothingLost
    CrashIsClassified
CHECK_DEADLOCK FALSE
