CONSTANTS
    t1 = t1
    t2 = t2
    u1 = u1
    Tx = {t1}
    Sources = {{}}
    Un = {}
    None = None
    Torn = Torn
    Foreign = Foreign
    MaxFaults = 2
    MaxEdits = 0
SPECIFICATION Spec
INVARIANTS
    AuditedOnce
CHECK_DEADLOCK FALSE
