SPECIFICATION Spec
CONSTANTS
    Accounts <- MCAccounts
    Watched <- MCWatched
    Coinbase = "coinbase"
    BaseVault = "baseVault"
    L1Vault = "l1Vault"
    OperatorVault = "opVault"
    BaseFee = 1
    Txs <- MCTxs
    Withdrawals <- MCWithdrawals
    Openings <- MCOpenings
    MaxTxs = 3
    MaxWithdrawals = 2
    I128Max = 15
INVARIANTS
    TypeOK
    ChangedBlockReconciles
    StoredRowsAddUp
    MarkersCoverTheGap
    PartiesKeepTheirRows
CHECK_DEADLOCK FALSE
