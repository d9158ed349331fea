SPECIFICATION Spec
CONSTANTS
    Procs = {p1}
    Shared = {p1}
    None = None
    MaxSize = 2
    OffMod = 8
    MaxVec = 2
    Seeks = {}
INVARIANT WriteAccepted
CHECK_DEADLOCK FALSE
