SPECIFICATION Spec
CONSTANTS
    Tip = 3
    PrefetchSize = 2
    MaxTries = 2
    MaxFetchRetries = 5
    ReassembleAfter = 2
    FailoverThreshold = 2
    Endpoints = 2
    AuxPow = TRUE
    Nodes <- MCNodes
    MaxFaults = 1
    MaxOutages = 2
    MaxRewinds = 1
INVARIANTS
    ReassemblyHasCause
    DesyncHasCause
PROPERTIES
    FetchesTheNextBlock
    CatchesUp
