SPECIFICATION KeySpec
CONSTANTS
    Keys <- MCKeys
    Lows <- MCLows
    Inputs <- MCInputs
    Operands <- MCOperands
    Ranges <- MCRanges
    Offsets <- MCOffsets
    Steps <- MCSteps
INVARIANTS
    MergeExact
    RangeEditsExact
    KeyedQueriesExact
CHECK_DEADLOCK FALSE
