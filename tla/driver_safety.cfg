SPECIFICATION Spec
CONSTANTS
    None = None
    Watched = {w1}
    TrunkHeight = 4
    ForkHeight = 2
    MaxCommit = 2
    MaxRevert = 2
    Blocks <- MCBlocks
    Number <- MCNumber
    Parent <- MCParent
    Notifications <- MCNotifications
    Account <- QuietAccount
    Activity <- QuietActivity
    Unexplained <- NoneUnexplained
INVARIANTS
    TypeOK
    HighWaterMirrorsMeta
    NoHoles
    FinishedIsDurable
PROPERTIES
    EmitsOnlyAfterDurable
    ImplementsCaptureLog
