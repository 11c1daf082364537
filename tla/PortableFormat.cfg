SPECIFICATION Spec
CONSTANTS
    MaxArray = 3
    BitsetBytes = 33
    Bitmaps <- MCBitmaps
    Foreign <- MCForeign
INVARIANTS
    ReadsInBounds
    CleanedUp
    RoundTrips
    ViewsExact
