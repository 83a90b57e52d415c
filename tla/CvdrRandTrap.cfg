SPECIFICATION Spec
CONSTANTS
    Users = {u1, u2}
    LocalUsers = {u1, u2}
    NoDraft = NoDraft
    Window = 1
    GiveUp = 1
    MaxOffset = 1
    FirstDelay = 0
    RetryDelay = 1
    RawRandMayFail = TRUE
    MaxTime = 4
    MaxUpgrades = 2
INVARIANTS
    NeverForgotten
CHECK_DEADLOCK FALSE
