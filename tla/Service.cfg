CONSTANTS
    a1 = a1
    a2 = a2
    o1 = o1
    Attempts = {a1, a2}
    Ops = {o1}
    Kinds = {"plan", "apply", "recover", "verify"}
    MaxPid = 2
    MaxFaults = 1
    None = None
SPECIFICATION Spec
SYMMETRY Symmetry
INVARIANTS
    OutcomesAreTruthful
    OneWorker
CHECK_DEADLOCK FALSE
