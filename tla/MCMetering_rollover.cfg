SPECIFICATION Spec
CONSTANTS
    r1 = r1
    r2 = r2
    r3 = r3
    alice = alice
    bob = bob
    prov = prov
    gpt = gpt
    Requests <- MCRequests
    Clients <- MCClients
    Providers <- MCProviders
    Models <- MCModels
    ClientOf <- MCClientOf
    ProviderOf <- MCProviderOf
    ModelOf <- MCModelOf
    Reserves <- MCOneReserve
    Usages <- MCUsages
    HonoursCap = TRUE
    ClientTokensPerDay = 3
    ClientRequestsPerDay = 2
    ProviderTokensPerDay = 3
    FailClosed <- MCRequests
    MaxDay = 1
INVARIANT DailyQuota
CHECK_DEADLOCK FALSE
