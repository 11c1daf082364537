SPECIFICATION Spec
CONSTANTS
    B = 3
    WordCount = 4
    Lane = 1
    MaxList = 2
INVARIANTS
    WordRangesExact
    WordQueriesExact
    DecodingFits
