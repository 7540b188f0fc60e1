SPECIFICATION ServingSpec
CONSTANTS
    c1 = c1
    c2 = c2
    Conns = {c1, c2}
    MaxMove = 1
SYMMETRY Symmetry
INVARIANTS
    TableTracksConnections
    NoSpuriousAbort
    Stoppable
    BytesAccounted
CHECK_DEADLOCK FALSE
