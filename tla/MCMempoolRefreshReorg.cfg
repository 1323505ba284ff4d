CONSTANTS
    x = x
    y = y
    Tx <- MCTx
    FetchSize = 1
    SyncedThreshold = 1
    MaxIds = 2
SPECIFICATION Spec
INVARIANT ReadyAfterReorgPass
