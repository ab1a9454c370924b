CONSTANTS
    n1 = n1
    n2 = n2
    n3 = n3
    b1 = b1
    b2 = b2
    Nodes = {n1, n2, n3}
    Bodies = {b1, b2}
    Capacity = 10
    PruneLimit = 1
    MaxInteger = 3
    Links <- RelayLinks
    FairLinks <- RelayLinks
    BatchLimit = 1
    Bytes <- EscapedBytes
    OriginBytes = 1
    MaxRequestBytes = 1
    MaxSyncRequestBytes = 2
    StorageFaults = FALSE
    Authors = {n1}
    MaxSequence = 2
    MaxCrashes = 2
    MaxInFlight = 1
SPECIFICATION FairSpec
INVARIANTS AcknowledgedKept PublishedOnce
PROPERTIES NewestReachesEveryone
