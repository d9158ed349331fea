SPECIFICATION Spec
CONSTANTS
    Procs = {p1, p2, p3}
    NUM = 7
    WORD = 7
    Sectors = {s1}
    Values = {v1, v2}
    None = None
INVARIANTS
    DescriptorsOwned
    NoLostWakeup
    CompletionSeen
PROPERTIES
    DiskIsStore
