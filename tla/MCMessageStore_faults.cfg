CONSTANTS
    Nodes = {n1, n2}
    Bodies = {b1}
    Capacity = 3
    PruneLimit = 2
    MaxSequence = 4
    MaxInteger = 3
    StorageFaults = TRUE
SYMMETRY Symmetry
SPECIFICATION Spec
INVARIANTS TypeOK UniqueKeys NextSequenceFresh CacheSound
PROPERTIES CacheExact TrimsOldestFirst TrimsOnlyWhenFull
