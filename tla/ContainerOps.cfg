SPECIFICATION Spec
CONSTANTS
    U = 9
    MaxArray = 4
    RunEntryBytes = 3
    Threshold = 2
INVARIANTS
    WellFormed
    ResultsExact
    RangesExact
    NegationFits
    QueriesExact
    OffsetsExact
