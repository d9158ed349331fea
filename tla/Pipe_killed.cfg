SPECIFICATION Spec
CONSTANTS
    Procs = {p1, p2}
    Creator = p1
    PIPESIZE = 2
    WORD = 4
    Bytes = {0, 1}
    WriteBufs <- MCWriteBufs
    ReadSizes = {2}
    Killable = {p2}
INVARIANTS
    ReaderSleepsOnlyWhenEmpty
\* A process that alone holds the write end and reads waits for ever.
CHECK_DEADLOCK FALSE
