SPECIFICATION Spec
CONSTANTS
    NCPU = 1
    NTASK = 5
    None = None
    Ticks = Ticks
    SleepTicks = {}
    Killable = {}
    Calls = {"fork"}
    InitCalls = {"fork"}
    OverlappingForks = TRUE
    MaxForks = 3
    MaxForksEach = 2
INVARIANT ForkGivesNewProcess
