SPECIFICATION FairSpec
CONSTANTS
    s1 = s1
    r1 = r1
    Streams = {s1}
    Controllers = {}
    Stoppers = {}
    Readers = {r1}
    N = 2
    MaxBuilds = 2
    MaxConfigs = 2
INVARIANTS
    DropToStop
    ExitMeansStopped
    RunningIsComplete
PROPERTIES
    StreamEnds
    ReaderReturns
