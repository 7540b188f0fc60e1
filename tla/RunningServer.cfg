SPECIFICATION FairSpec
CONSTANTS
    r1 = r1
    r2 = r2
    r3 = r3
    Callers = {r1, r2, r3}
INVARIANTS
    ReturnMeansEnded
    WriterWaitsForEndingTask
    ResultTakenOnce
PROPERTIES
    ImplementsLifecycle
    CallsReturn
