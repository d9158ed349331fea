SPECIFICATION RtcSpec
CONSTANTS
    Starts <- MCStarts
    Moments <- MCMoments
    MaxDays = 1
    MaxLag = 1
    Readers = {r1, r2}
    OverlappingReads = TRUE
CHECK_DEADLOCK FALSE
INVARIANTS
    ReadsCurrentTime
