CONSTANTS
    n1 = n1
    n2 = n2
    n3 = n3
    b1 = b1
    b2 = b2
    Nodes = {n1, n2}
    Bodies = {b1}
    Capacity = 10
    PruneLimit = 1
    MaxInteger = 3
    Links <- PairLinks
    FairLinks <- PairLinks
    BatchLimit = 2
    Bytes <- EqualBytes
    OriginBytes = 1
    MaxRequestBytes = 1
    MaxSyncRequestBytes = 2
    StorageFaults = FALSE
    Authors = {n1}
    MaxSequence = 2
    MaxCrashes = 0
    MaxInFlight = 1
SPECIFICATION FairSpec
PROPERTIES MissedRangesRecovered
