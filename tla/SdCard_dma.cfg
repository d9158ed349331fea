CONSTANTS
    Procs = {p1}
    None = None
    Zero = zero
    Contents = {zero, d1}
    NSectors = 1
    BSIZE = 2
    Tries = 2
    MaxOps = 1
SPECIFICATION SdSpec
CHECK_DEADLOCK FALSE
INVARIANT
    SleepsWhileBusy
