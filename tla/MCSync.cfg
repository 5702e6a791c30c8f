SPECIFICATION FairSpec
CONSTANTS
    h1 = h1
    h2 = h2
    Handlers <- TwoHandlers
    LiveStatuses <- MCLiveStatuses
    MaxEvents = 3
    NoRow = NoRow
INVARIANTS
    MirrorConvergesUnlessOvertaken
    InvoiceConverges
    GrantOnlyOnTrial
PROPERTIES
    EventsProcessed
CHECK_DEADLOCK FALSE
