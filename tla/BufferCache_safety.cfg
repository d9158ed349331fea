SPECIFICATION Spec
CONSTANTS
    Procs = {p1, p2}
    BUFFER_NUM = 2
    Files = {f1, f2}
    Dir = dir
    Written = {f1, f2}
    Values = {v1, v2}
    None = None
    Preempt = FALSE
    Faults = TRUE
SYMMETRY MCSymmetry
INVARIANTS
    BuffersKeepBlocks
    NoLostWakeup
PROPERTIES
    CacheIsStore
\* A panic stops the machine, and failed copies leave buffers locked.
CHECK_DEADLOCK FALSE
