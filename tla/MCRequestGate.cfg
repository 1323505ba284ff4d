CONSTANTS
    q1 = q1
    q2 = q2
    q3 = q3
    Request <- MCRequest
    Limit <- MCLimit
    MaxBatch = 2
SPECIFICATION Spec
INVARIANTS
    RunningWithinCap
PROPERTIES
    SlotsComeBack
