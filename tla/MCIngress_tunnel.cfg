SPECIFICATION FairSpec
CONSTANTS
    None = None
    a1 = a1
    c1 = c1
    c2 = c2
    f1 = f1
    f2 = f2
    f3 = f3
    Agents <- MCAgents
    Conns <- MCTwoConns
    AgentOf <- MCAgentOf
    Forwards <- MCTwoForwards
    TargetOf <- MCTargetOf
    QueueDepth = 1
INVARIANTS
    TypeOK
    ListedIsLive
    TunnelIsLive
    NobodyForgotten
PROPERTIES
    FailsFast
    SupersededEnds
CHECK_DEADLOCK FALSE
