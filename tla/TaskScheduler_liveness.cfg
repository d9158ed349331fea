SPECIFICATION FairSpec
CONSTANTS
    NCPU = 2
    NTASK = 4
    None = None
    Ticks = Ticks
    SleepTicks = {1}
    Killable = {}
    Calls = {"yield", "fork", "exit", "wait", "sleep"}
    InitCalls = {"fork", "wait"}
    OverlappingForks = FALSE
    MaxForks = 2
    MaxForksEach = 1
PROPERTIES
    SleepReturns
    RunnableRuns
