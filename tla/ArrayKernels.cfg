SPECIFICATION Spec
CONSTANTS
    U = 6
    W = 2
    LinearSearch = 2
INVARIANTS
    KernelsExact
    StoresFit
    UnreadIntact
    ArraysExact
PROPERTIES
    Returns
