SPECIFICATION FairSpec
CONSTANTS
    BufferSize = 1
    MaxBufferSize = 3
    Lazy = TRUE
    MaxSend = 4
    MaxRecv = 2
    Room = 1
INVARIANTS
    NoLostWakeup
PROPERTIES
    ImplementsPipe
    PacketsArrive
CHECK_DEADLOCK FALSE
