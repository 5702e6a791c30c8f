SPECIFICATION FairSpec
CONSTANTS
    j1 = j1
    c1 = c1
    c2 = c2
    w1 = w1
    w2 = w2
    Jobs <- OneJob
    Callers <- TwoCallers
    Workers <- TwoWorkers
    MaxAttempts = 2
    LeaseDuration = 2
    RetryDelay = 1
    RedispatchInterval = 1
    MaxClock = 4
    MaxQueued = 2
    FaultHorizon = 1
    Never = Never
INVARIANTS
    ExclusiveLease
    OutputOfLastAttempt
    NotStranded
PROPERTIES
    TerminalIsFinal
    JobSettles
