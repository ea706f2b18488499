SPECIFICATION LiveSpec
CONSTANTS
    None = None
    Watched = {w1}
    TrunkHeight = 3
    ForkHeight = 3
    MaxCommit = 1
    MaxRevert = 2
    Blocks <- MCBlocks
    Number <- MCNumber
    Parent <- MCParent
    Notifications <- MCNotifications
    Account <- MCAccount
    Activity <- MCActivity
    Unexplained <- MCUnexplained
INVARIANTS
    RecordedIsAccounted
    UnrecordedLeavesNothing
    UnreconciledIsFlagged
    StallsAreExplained
PROPERTIES
    NotificationsAreHandled
