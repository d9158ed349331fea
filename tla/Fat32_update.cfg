SPECIFICATION Spec
CONSTANTS
    Procs = {p1, p2}
    Names = {"a", "b"}
    Alike = {}
    Prefixes = {}
    MaxSlot = 2
    PerSector = 2
    MaxClus = 4
    MaxLen = 1
    Values = {v1}
    None = None
    Races = TRUE
INVARIANT
    OwnEntryOnly
