CONSTANTS
    Keys = 3
    Lows = 4
    MaxArray = 2
    MaxSize = 2
    MaxCount = 5
SPECIFICATION Spec
INVARIANTS InStep
PROPERTIES IsCursor
