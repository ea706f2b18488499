SPECIFICATION LiveSpec
CONSTANTS
    Batches <- MCBatches
    Queries <- MCQueries
    Branches = {0, 1}
    MaxBlock = 3
    MaxWrites = 3
    MaxLimit = 2
    Limits = {0, 9}
    None = None
INVARIANTS TypeOK StreamAscends
PROPERTIES PageIsBlockComplete OnlyLateRowsAreMissed PagingEnds
CHECK_DEADLOCK FALSE
