SPECIFICATION StalledPeerSpec
CONSTANTS
    MaxDown = 2
    MaxUp = 0
    BufSize = 1
    Room = 1
    Window = 1
PROPERTY StopEndsRelay
CHECK_DEADLOCK FALSE
