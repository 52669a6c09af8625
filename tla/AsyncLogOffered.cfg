SPECIFICATION Spec
CONSTANTS
    Logs = {l1, l2, l3, l4, l5}
    Capacity = 2
    BatchLimit = 3
    Backends = {"sqlite", "file"}
    Faults = TRUE
INVARIANTS
    EveryLogIsOffered
CHECK_DEADLOCK FALSE
