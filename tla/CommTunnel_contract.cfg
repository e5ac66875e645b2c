SPECIFICATION Spec
CONSTANTS
    t1 = t1
    t2 = t2
    c1 = c1
    c2 = c2
    Thread <- MCThreads
    Controller <- MCControllers
    Chunks = 2
    MaxRequests = 3
    NoThread = NoThread
    None = None
    Open = Open
INVARIANTS
    TypeOK
    NoTornReply
    RepliesInOrder
    MisansweredAfterTimeout
    NoLostWakeup
PROPERTIES
    ContractSpec
    LockComesFree
CHECK_DEADLOCK FALSE
