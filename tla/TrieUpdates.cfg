SPECIFICATION CarefulSpec
CONSTANTS
    BlockSize = 4
    MaxTrial = 1
    Keys <- MCKeys
    Erasable <- MCErasable
    NoValue <- MCNoValue
    Value <- MCValue
    MaxValue = 5
    MaxBlocks = 4
INVARIANTS
    ValidDoubleArray
    ChildrenLinked
    EmptyCellsLinked
    BlocksListed
    IsDictionary
