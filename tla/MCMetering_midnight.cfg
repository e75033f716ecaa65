SPECIFICATION Spec
CONSTANTS
    r1 = r1
    r2 = r2
    r3 = r3
    alice = alice
    bob = bob
    prov = prov
    gpt = gpt
    Requests <- MCTwoRequests
    Clients <- MCClients
    Providers <- MCProviders
    Models <- MCModels
    ClientOf <- MCClientOf
    ProviderOf <- MCProviderOf
    ModelOf <- MCModelOf
    Reserves <- MCOneReserve
    Usages <- MCBoundaryUsages
    HonoursCap = FALSE
    ClientTokensPerDay = 3
    ClientRequestsPerDay = 2
    ProviderTokensPerDay = 4
    FailClosed <- MCMixed
    MaxDay = 1
INVARIANTS
    TypeOK
    NeverUnderCounts
    QuotaBound
    GateHolds
    ScriptsExpire
CHECK_DEADLOCK FALSE
