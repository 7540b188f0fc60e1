SPECIFICATION FairSpec
CONSTANTS
    c1 = c1
    c2 = c2
    Conns = {c1, c2}
    MaxMove = 0
PROPERTIES
    StopTakesEffect
    DrainTerminates
CHECK_DEADLOCK FALSE
