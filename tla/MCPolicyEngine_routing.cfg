SPECIFICATION Spec
CONSTANTS
    None = None
    r1 = r1
    r2 = r2
    r3 = r3
    r4 = r4
    eve = eve
    bob = bob
    main = main
    backup = backup
    spare = spare
    Requests <- MCAttackRequests
    Clients <- MCClients
    ClientOf <- MCClientOf
    Providers <- MCProviders
    Chain <- MCChain
    Rules <- MCBudgetRules
    Findings <- MCFindings
    Amounts <- MCOneAmount
    BlockSeverity = 1
    Blocking = TRUE
    MinSeverity = 2
    SwitchTo = spare
    BlockSource = TRUE
    Count = 2
    Window = 1
    BlockTtl = 2
    Cooldown = 1
    DayLen = 2
    MaxTime = 2
INVARIANTS
    TypeOK
    BlockIsEarned
    NoMissedAttack
    IsolatedWhileBlocked
    FailoverEnds
    OvershootBounded
SYMMETRY AttackSymmetry
CHECK_DEADLOCK FALSE
