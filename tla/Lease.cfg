CONSTANTS
    p1 = p1
    p2 = p2
    p3 = p3
    i1 = i1
    m1 = m1
    m2 = m2
    Proc = {p1, p2, p3}
    Install = {i1}
    Maint = {m1, m2}
    None = None
    HistoryLimit = 5
    MaxRev = 2
SPECIFICATION Spec
SYMMETRY Symmetry
INVARIANTS
    OneOwner
    HistoryIsTruthful
    HolderCanFinish
CHECK_DEADLOCK FALSE
