SPECIFICATION FairSpec
CONSTANTS
    Targets = {a, b, c}
    MaxCanisters = 2
    MaxEvents = 2
    Refusing = {c}
    MaxPushes = 3
INVARIANTS
    QueueMatchesEvents
PROPERTIES
    ImplementsChannel
    AllHandled
CHECK_DEADLOCK FALSE
