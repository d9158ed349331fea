SPECIFICATION Spec
CONSTANTS
    Procs = {p1, p2}
    Names = {"a"}
    Alike = {}
    Prefixes = {}
    MaxSlot = 1
    PerSector = 1
    MaxClus = 3
    MaxLen = 1
    Values = {v1}
    None = None
    Races = TRUE
INVARIANT
    OpenHasInode
