SPECIFICATION RtcSpec
CONSTANTS
    Starts <- MCStarts
    Moments <- MCMoments
    MaxDays = 1
    MaxLag = 1
    Readers = {r1}
    OverlappingReads = FALSE
CHECK_DEADLOCK FALSE
INVARIANTS
    TimeValIsEpoch
