SPECIFICATION Spec
CONSTANTS
    k1 = k1
    p1 = p1
    Streams = {}
    Controllers = {k1}
    Stoppers = {p1}
    Readers = {}
    N = 1
    MaxBuilds = 2
    MaxConfigs = 0
INVARIANT DropToStop
CHECK_DEADLOCK FALSE
