CONSTANTS
    Root = Root
    G = G
    A1 = A1
    A2 = A2
    A3 = A3
    B1 = B1
    B2 = B2
    o1 = o1
    o2 = o2
    o3 = o3
    o4 = o4
    o5 = o5
    p = p
    q = q
    r = r
    Block <- MCBlock
    Out <- MCOut
    Parent <- MCParent
    Height <- MCHeight
    Creates <- MCCreates
    Spends <- MCSpends
    Born <- MCBorn
    Live <- MCLive
    Script <- MCScript
    Tx <- MCOut
    PaysTo <- MCPaysTo
    TxOf <- MCTxOf
    Seen <- MCSeen
    Mined <- MCMined
    UndoSettings = {1, 2}
    BatchBlocks = 3
SPECIFICATION HSpec
INVARIANTS
    TypeOK
    UtxoSetIsLedgerOfTip
    UndoRecordsComplete
    NoStrandedUndoRecords
    WindowFollowsBranch
    HaltIsJustified
    FirstSeenExact
    TxIndexExact
    ReverseIndexesComplete
    MarkWasReached
PROPERTIES
    ImplementsUtxoIndex
CHECK_DEADLOCK FALSE
