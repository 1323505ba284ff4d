CONSTANTS
    Root = Root
    G = G
    A1 = A1
    A2 = A2
    A3 = A3
    B1 = B1
    B2 = B2
    Block <- MCBlock
    Parent <- MCParent
    Height <- MCHeight
    UndoBlocks = 2
    BatchBlocks = 3
    PrefetchSize = 2
    SyncedThreshold = 1
    StableReads = 2
    MaxReads = 3
    MaxMoves = 5
    MaxFaults = 2
SPECIFICATION Spec
INVARIANTS
    CursorExtendsTip
PROPERTIES
    RollbackOnlyLacked
    HaltOnlyPastWindow
    RefusalHolds
    Converges
CHECK_DEADLOCK FALSE
