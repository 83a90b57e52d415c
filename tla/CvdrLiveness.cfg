SPECIFICATION FairSpec
CONSTANTS
    Users = {u1, u2}
    LocalUsers = {u1}
    NoDraft = NoDraft
    Window = 1
    GiveUp = 1
    MaxOffset = 1
    FirstDelay = 0
    RetryDelay = 1
    RawRandMayFail = FALSE
    MaxTime = 4
    MaxUpgrades = 1
INVARIANTS
    JobsArmed
    NeverForgotten
PROPERTIES
    DeletionCompletes
    CaptureResolves
CHECK_DEADLOCK FALSE
