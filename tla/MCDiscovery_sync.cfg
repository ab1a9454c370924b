CONSTANTS
    a = a
    c = c
    d = d
    Nodes = {a, c, d}
    Links <- RangeLinks
    Mode <- GateMode
    Accepts <- AcceptAny
    Timeout = 1
    Tolerance = 2
    InitialSkews <- Skews
    MaxDelay = 3
    MaxTime = 5
    MaxInFlight = 2
SPECIFICATION Spec
INVARIANTS TypeOK ClientFollowsAuthority ListedIffRecent
PROPERTIES HeardIsListed
