SPECIFICATION Spec
CONSTANTS
    t1 = t1
    t2 = t2
    k1 = k1
    k2 = k2
    Thread <- MCOneThread
    Kind <- MCKinds
    MaxRequests = 3
    MaxWait = 4
    QuietTime = 1
    NoThread = NoThread
    None = None
    Open = Open
    Raised = Raised
INVARIANT BoundedWait
PROPERTY ContractSpec
CHECK_DEADLOCK FALSE
