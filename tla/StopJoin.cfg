SPECIFICATION FairSpec
CONSTANTS
    k1 = k1
    p1 = p1
    r1 = r1
    Streams = {}
    Controllers = {k1}
    Stoppers = {p1}
    Readers = {r1}
    N = 1
    MaxBuilds = 2
    MaxConfigs = 0
PROPERTIES
    StopEndsInstance
    DisplacedUnseen
