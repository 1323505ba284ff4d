SPECIFICATION Spec
CONSTANTS
    MaxHeight = 5
    ChunkSize = 2
    Workers = 2
    TipSafety = 0
    UndoBlocks = 1
    Created <- MCCreated
    Spent <- MCSpent
    Absent = Absent
    MaxEvents = 2
    MaxReruns = 1
INVARIANTS
    SeedIsExactLedger
    InputsNotFreedEarly
    JoinReadsWholeStreams
    SeedEndsBelowUndoWindow
PROPERTY WholeParseIsResumed
CHECK_DEADLOCK FALSE
