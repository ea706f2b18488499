SPECIFICATION Spec
CONSTANTS
    MaxTxs = 2
    MaxFrames = 4
    MaxMoves = 3
INVARIANTS
    TypeOK
    OnlyCommittedValue
    TagsInLockstep
    PathsAreUnique
    FailedTxMovesNothing
CHECK_DEADLOCK FALSE
