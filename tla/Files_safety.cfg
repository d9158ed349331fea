SPECIFICATION Spec
CONSTANTS
    Procs = {p1, p2}
    First = p1
    None = None
    NOFILE = 3
    NFILE = 1
    MaxFile = 2
    MaxRef = 4
    MaxMore = 2
    Creates <- MCShallow
    BadBuffer = FALSE
INVARIANTS
    HandlesHeld
    InodesHeld
\* A panic stops the kernel.
CHECK_DEADLOCK FALSE
