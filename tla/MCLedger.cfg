SPECIFICATION LedgerSpec
CONSTANTS
    k1 = k1
    k2 = k2
    k3 = k3
    p1 = p1
    p2 = p2
    a1 = a1
    a2 = a2
    Keys <- MCKeys
    Periods <- MCPeriods
    AdjKeys <- MCAdjKeys
    BaseLimits <- MCBaseLimits
    Deltas <- MCDeltas
    NoLimit = NoLimit
    NoAccount = NoAccount
SYMMETRY Symmetry
INVARIANTS
    Conservation
    Ceiling
    Materialized
PROPERTIES
    SettlesOnce
    ReservesWithinLimit
