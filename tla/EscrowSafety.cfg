SPECIFICATION Spec
CONSTANTS
    Users = {a, b, c}
    NoOne = NoOne
    Amount = 2
    Fee = 1
    DepositSizes = {3}
    Lifetimes = {0}
    LedgerMayRefuse = TRUE
    TargetMayRefuse = TRUE
    Avoided = {}
    MaxSwaps = 1
    MaxDeposits = 3
    MaxHeld = 3
    MaxNotifies = 3
    MaxTime = 1
SYMMETRY Symmetry
INVARIANTS
    ExchangedWhole
    CompletedWasPaid
    QueuesArmed
CHECK_DEADLOCK FALSE
