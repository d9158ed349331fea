SPECIFICATION Spec
CONSTANTS
    Procs = {p1, p2, p3}
    Creator = p1
    PIPESIZE = 2
    WORD = 4
    Bytes = {0, 1}
    WriteBufs <- MCWriteBufs
    ReadSizes = {2}
    Killable = {p2}
INVARIANTS
    TypeOK
    NoLostWakeup
    NoUseAfterDelete
PROPERTIES
    PipeIsStream
\* A process that alone holds the write end and reads waits for ever.
CHECK_DEADLOCK FALSE
