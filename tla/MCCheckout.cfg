SPECIFICATION FairSpec
CONSTANTS
    k1 = k1
    k2 = k2
    r1 = r1
    r2 = r2
    r3 = r3
    Keys <- TwoKeys
    Requests <- MCRequests
    KeyOf <- MCKeyOf
    SessionLength = 2
    MaxClock = 5
    LastCall = 3
    NoKey = NoKey
INVARIANTS
    OnePayableUnlessUndone
PROPERTIES
    RefusedOncePaid
    PaidIsRecorded
    LockoutEnds
CHECK_DEADLOCK FALSE
