SPECIFICATION SafetySpec
CONSTANTS
    t1 = t1
    t2 = t2
    c1 = c1
    c2 = c2
    Thread <- MCThreads
    Controller <- MCControllers
    Chunks = 2
    MaxRequests = 2
    NoThread = NoThread
    None = None
    Open = Open
PROPERTY OnlyForeignDiscarded
CHECK_DEADLOCK FALSE
