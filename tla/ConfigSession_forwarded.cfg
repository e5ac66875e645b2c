SPECIFICATION Spec
CONSTANTS
    Base = 4
    ExpCount = 8
    FracCount = 16
    TinyFrac = 9
    ChunkBytes = 3
    None = None
    Factory <- MCFactory
    CanIds <- MCCanIds
    Edits <- MCEdits
    Orders <- MCOrders
    Reports <- MCReports
    Text <- MCText
    MaxCalls = 3
    MaxEdits = 1
INVARIANT EveryCommandIsForwarded
CHECK_DEADLOCK FALSE
