SPECIFICATION Spec
CONSTANTS
    Procs = {p1, p2}
    Names = {"a", "Ab"}
    Alike <- MCAlike
    Prefixes = {}
    MaxSlot = 2
    PerSector = 2
    MaxClus = 4
    MaxLen = 2
    Values = {v1}
    None = None
    Races = FALSE
SYMMETRY MCSymmetry
CONSTRAINT MCOneAfterLeak
INVARIANTS
    ClustersOwned
    PlaceRemembered
    ReadsWritten
    OpenFilesAlive
PROPERTIES
    FilesAreStore
\* AllocCluster never returns when the disk is full.
CHECK_DEADLOCK FALSE
