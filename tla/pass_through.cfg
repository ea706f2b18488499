SPECIFICATION Spec
CONSTANTS
    None = None
    Watched = {w1}
    TrunkHeight = 2
    ForkHeight = 1
    MaxCommit = 1
    MaxRevert = 2
    Blocks <- MCBlocks
    Number <- MCNumber
    Parent <- MCParent
    Notifications <- MCNotifications
    Account <- MCAccount
    Activity <- MCActivity
    Unexplained <- NoneUnexplained
INVARIANTS
    TransfersAreAccounted
