SPECIFICATION Spec
CONSTANTS
    Chunks = 3
    Blank <- MCBlank
    MaxUpdates = 3
    MaxPending = 3
INVARIANTS
    TypeOK
    FlashedUnlessEraseLate
PROPERTY UpdateEnds
CHECK_DEADLOCK FALSE
