SPECIFICATION FairSpec
CONSTANTS
    p1 = p1
    p2 = p2
    Procs <- MCProcs
    IngressProcs <- MCIngressProcs
    MaxStarts = 2
INVARIANTS
    TypeOK
    ServedPairMatches
    AuditedOrKnownWhy
PROPERTY NoHalfGateway
CHECK_DEADLOCK FALSE
