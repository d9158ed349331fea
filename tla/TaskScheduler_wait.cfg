SPECIFICATION FairSpec
CONSTANTS
    NCPU = 1
    NTASK = 5
    None = None
    Ticks = Ticks
    SleepTicks = {}
    Killable = {}
    Calls = {"fork", "exit", "wait"}
    InitCalls = {"fork", "wait"}
    OverlappingForks = FALSE
    MaxForks = 3
    MaxForksEach = 1
PROPERTIES
    WaitReturns
