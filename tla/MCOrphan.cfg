SPECIFICATION FairSpec
CONSTANTS
    k1 = k1
    r1 = r1
    r2 = r2
    p1 = p1
    a1 = a1
    Keys <- OneKey
    Requests <- MCRequests
    Periods <- MCPeriods
    AdjKeys <- NoKeys
    BaseLimits <- MCBaseLimits
    Deltas <- MCDeltas
    ProviderErrors <- MCProviderErrors
    LeaseDuration = 1
    MaxClock = 1
    CrashHorizon = 1
    NoLimit = NoLimit
    NoAccount = NoAccount
    NoToken = NoToken
    NoError = NoError
    Expired = Expired
INVARIANTS
    NoOrphanReservation
