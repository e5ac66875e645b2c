SPECIFICATION MCSpec
CONSTANTS
    t1 = t1
    t2 = t2
    n1 = n1
    n2 = n2
    Thread <- MCThreads
    Node <- MCNodes
    MaxPings = 3
    NoNode = NoNode
    Base = 16
    BufferSize = 24
    Payload <- MCPayload
    Sender = 9
    MaxMessages = 3
    NoReply = NoReply
SYMMETRY Symmetry
INVARIANTS
    BusTypeOK
    FoundAfterPop
    UndisturbedIsWoken
    WholeIsPublished
PROPERTIES
    AnsweredIsFound
