SPECIFICATION MCSpec
CONSTANTS
    FPIOA_NUM_IO = 48
    ResetPads <- MCPads
    Starts <- MCStarts
    Moments <- MCMidnight
    MaxDays = 380
    MaxLag = 1
    Readers = {r1}
    OverlappingReads = FALSE
    Configs <- MCConfigs
    IN0 = 26
    Word = 4294
    Procs = {p1, p2}
    None = None
    Zero = zero
    Contents = {zero, d1, d2}
    NSectors = 2
    BSIZE = 2
    Tries = 3
    MaxOps = 3
CHECK_DEADLOCK FALSE
INVARIANTS
    CardWired
    CalendarAgrees
    TimeReadSane
    TicksServed
    ClocksRight
    BusHeld
    SectorMoved
