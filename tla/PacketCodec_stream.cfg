SPECIFICATION Spec
CONSTANTS
    ByteCount = 4
    Payloads <- MCPayloads
    MaxPackets = 2
    MaxNoise = 3
    None = None
INVARIANTS
    TypeOK
    CleanStreamReceived
    FirstPacketFound
CHECK_DEADLOCK FALSE
