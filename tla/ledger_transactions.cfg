SPECIFICATION LiveSpec
CONSTANTS
    None = None
    Driver = driver
    Readers = {rpc1}
    Watched = {w1}
    Blocks <- MCBlocks
    Number <- MCNumber
    Parent <- MCParent
    Account <- MCAccount
    Activity <- MCActivity
INVARIANTS
    TypeOK
    MetaPairIsOneBlock
    AnswersAreSnapshots
PROPERTIES
    ImplementsLedger
    WriterIsNotLockedOut
    CallersAreServed
