SPECIFICATION Spec
CONSTANTS
    Logs = {l1, l2, l3, l4, l5}
    Capacity = 2
    BatchLimit = 3
    Backends = {"sqlite", "file"}
    Faults = TRUE
INVARIANTS
    TypeOK
    Conserved
    BufferedBeforeClose
    LossIsCounted
PROPERTIES
    ImplementsLogSink
CHECK_DEADLOCK FALSE
