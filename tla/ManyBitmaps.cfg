SPECIFICATION Spec
CONSTANTS
    U = 9
    MaxArray = 4
    RunEntryBytes = 3
    Threshold = 2
    MaxKey = 1
    LazyLowerBound = 3
    Loads <- MCLoads
    Lists <- MCLists
CHECK_DEADLOCK FALSE
INVARIANTS
    ManyExact
    MemoryExact
    QueueInOrder
