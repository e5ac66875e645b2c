SPECIFICATION SafetySpec
CONSTANTS
    Chunks = 3
    Blank <- MCBlank
    MaxUpdates = 3
    MaxPending = 3
INVARIANTS
    TrueMeansFlashed
CHECK_DEADLOCK FALSE
