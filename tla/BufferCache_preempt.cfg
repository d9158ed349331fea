SPECIFICATION Spec
CONSTANTS
    Procs = {p1, p2}
    BUFFER_NUM = 2
    Files = {f1, f2}
    Dir = dir
    Written = {}
    Values = {v1, v2}
    None = None
    Preempt = TRUE
    Faults = FALSE
INVARIANT
    ReadReturnsBlock
