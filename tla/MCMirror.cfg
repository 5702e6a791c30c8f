SPECIFICATION Spec
CONSTANTS
    h1 = h1
    h2 = h2
    Handlers <- TwoHandlers
    LiveStatuses <- MCLiveStatuses
    MaxEvents = 2
    NoRow = NoRow
SYMMETRY Symmetry
INVARIANTS
    MirrorConverges
CHECK_DEADLOCK FALSE
