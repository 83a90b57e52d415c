SPECIFICATION Spec
CONSTANTS
    Users = {o, a}
    MaxMembers = 2
    Creator = o
    NoOne = NoOne
    Moderators = {}
    NoGate = NoGate
    Behaviours = {"lookup", "check", "lapse"}
    Expiries = {0, 1}
    NoTimer = NoTimer
    Delay = 1
    BatchSize = 2
    NewRoles = {"owner", "member"}
    Deletable = {a}
    Suspendable = {a}
    Invitable = {a}
    Fickle = {a}
    MaxPending = 1
    MaxUpdates = 1
    MaxTime = 2
INVARIANTS
    SetsAgree
    ChecksScheduled
    JobsWake
PROPERTIES
    OwnerRemains
CHECK_DEADLOCK FALSE
