CONSTANTS
    Bitmaps = {a, b, c}
    Keys = {k1}
    Vals = {v1, v2}
    Containers = {c1, c2, c3, c4}
    Wrappers = {w1, w2}
    Threads = {t1, t2}
    MaxArray = 1
    Null = Null
SPECIFICATION Spec
SYMMETRY Symmetry
INVARIANTS CloneSourceLive
