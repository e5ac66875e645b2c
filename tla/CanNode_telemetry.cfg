SPECIFICATION Spec
CONSTANTS
    s1 = s1
    s2 = s2
    Base = 4
    One = 10
    NoDelay = NoDelay
    None = None
    Node <- MCNodes
    Slot <- MCSlots
    Subscriber <- MCSubscribers
    MaxAge = 1
    MaxEvents = 4
    MaxCommanded = 1
    Self = 7
    Commands <- MCCommands
INVARIANTS TypeOK SnapshotStays EachStatusOnce StatusAsReported AliveMeansRecent CommandUnderstood RecordIsGiven
CHECK_DEADLOCK FALSE
