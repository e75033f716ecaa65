SPECIFICATION FairSpec
CONSTANTS
    None = None
    Limits <- MCNoLimit
    U32Max = 3
    MaxShift = 2
    DelayCap = 3
    Timeout = 3
    ForwardLimit = 4
    MaxInbox = 1
    MaxOld = 1
    MaxFaults = 1
PROPERTY DroppedTunnelReestablishes
CHECK_DEADLOCK FALSE
