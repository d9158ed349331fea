SPECIFICATION Spec
CONSTANTS
    Procs = {p1}
    BUFFER_NUM = 2
    Files = {f1, f2}
    Dir = dir
    Written = {f1, dir}
    Values = {v1, v2}
    None = None
    Preempt = FALSE
    Faults = FALSE
PROPERTY
    EntryKept
