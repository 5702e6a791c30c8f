SPECIFICATION Spec
CONSTANTS
    r1 = r1
    r2 = r2
    Requests <- TwoRequests
    MaxTokens = 3
    MaxChallenges = 2
    MaxAttempts = 1
    MaxEpoch = 2
SYMMETRY Symmetry
INVARIANTS
    NoOldSessionUnlessLost
    TwoStepEnforced
    OneLivePerLogin
PROPERTY
    ImplementsRegistry
