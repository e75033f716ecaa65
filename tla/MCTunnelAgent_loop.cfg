SPECIFICATION FairSpec
CONSTANTS
    None = None
    Limits <- MCLimits
    U32Max = 3
    MaxShift = 2
    DelayCap = 3
    Timeout = 3
    ForwardLimit = 4
    MaxInbox = 1
    MaxOld = 1
    MaxFaults = 2
INVARIANT TypeOK
PROPERTIES
    KeptWhileAnswering
    DeadAgentIsDropped
    ComesBack
CHECK_DEADLOCK FALSE
