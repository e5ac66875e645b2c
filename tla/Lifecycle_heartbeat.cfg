SPECIFICATION HeartbeatSpec
CONSTANTS
    device = device
    c1 = c1
    c2 = c2
    Target <- MCTargets
    Device = device
    MaxTargets = 3
INVARIANTS HeartbeatTypeOK SilentAfterStop NoneWhileRebooting
PROPERTIES StopReturns EveryTargetFed
CHECK_DEADLOCK FALSE
