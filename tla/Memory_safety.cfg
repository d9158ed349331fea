CONSTANTS
    Tasks = {init, child}
    First = init
    None = None
    Frames <- MCFrames
    PGSIZE = 2
    LowPages = 3
    HighPages = 2
    NVMA = 2
    NOMMAPFILE = 2
    Images <- MCImages
    Grow <- MCGrow
    Map <- MCMap
    MaxLost = 1
    Users = {u1}
    Nobody = Nobody
    MIN_LEVEL = 1
    MAX_LEVEL = 3
    HeaderSize = 1
    NPages = 2
    Sizes = {1, 2, 5}
    MaxObjects = 2
    Preemptible = FALSE
    k1 = k1
    k2 = k2
    k3 = k3
    Keys = {k1, k2, k3}
    Vals = {1}
    Order = 2
    Hash <- MCHash
    NodeSize = 1
    MaxLeak = 1
SPECIFICATION MCSpec
VIEW Shape
CHECK_DEADLOCK FALSE
INVARIANTS
    FramesOwned
    AreasOwned
    BlocksOwned
    MapHolds
