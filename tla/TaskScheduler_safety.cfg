SPECIFICATION Spec
CONSTANTS
    NCPU = 2
    NTASK = 4
    None = None
    Ticks = Ticks
    SleepTicks = {1}
    Killable = {2}
    Calls = {"yield", "fork", "exit", "wait", "wait4", "sleep", "kill"}
    InitCalls = {"yield", "fork", "wait", "wait4", "sleep", "kill"}
    OverlappingForks = FALSE
    MaxForks = 3
    MaxForksEach = 1
INVARIANTS
    TypeOK
    SwitchDiscipline
    RunningIsCurrent
    ParentAlive
    ChildExitSeen
    TickSeen
    WakeupNotStale
PROPERTY
    ZombieStays
