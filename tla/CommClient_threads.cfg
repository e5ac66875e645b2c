SPECIFICATION SafetySpec
CONSTANTS
    t1 = t1
    t2 = t2
    k1 = k1
    k2 = k2
    Thread <- MCTwoThreads
    Kind <- MCKinds
    MaxRequests = 3
    MaxWait = 2
    QuietTime = 1
    NoThread = NoThread
    None = None
    Open = Open
    Raised = Raised
INVARIANTS TypeOK DrainedNeverReturned HandedOutOnce HolderIsReading
SYMMETRY Symmetry
CHECK_DEADLOCK FALSE
