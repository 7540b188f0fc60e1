SPECIFICATION FairSpec
CONSTANTS
    MaxDown = 2
    MaxUp = 1
    BufSize = 2
    Room = 2
    Window = 1
INVARIANTS
    CopiesAll
    EndsComplete
    NoLostWakeup
PROPERTIES
    RelaySettles
CHECK_DEADLOCK FALSE
