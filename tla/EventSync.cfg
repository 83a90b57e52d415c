SPECIFICATION MCFairSpec
CONSTANTS
    Targets = {a, b}
    MaxConcurrency = 2
    BatchSize = 2
    DeferProcessing = TRUE
    Refusing = {b}
    Reordering = {a}
    MaxPushes = 2
    MaxTime = 2
    MaxStale = 1
INVARIANTS
    KeysScheduled
PROPERTIES
    AllHandled
    ImplementsChannel
CHECK_DEADLOCK FALSE
