CONSTANTS
    Bitmaps = {a, b}
    Keys = {0}
    Vals = {v1, v2}
    Containers = {c1, c2, c3, c4, c5}
    Wrappers = {w1, w2}
    Threads = {t1}
    MaxArray = 2
    Null = Null
SPECIFICATION BulkSpec
SYMMETRY Symmetry
INVARIANTS MemorySafe
