SPECIFICATION Spec
CONSTANTS
    Users = {a, b}
    NoOne = NoOne
    Amount = 2
    Fee = 1
    DepositSizes = {3}
    Lifetimes = {1}
    LedgerMayRefuse = FALSE
    TargetMayRefuse = FALSE
    Avoided = {"overlap", "again"}
    MaxSwaps = 1
    MaxDeposits = 2
    MaxHeld = 3
    MaxNotifies = 2
    MaxTime = 2
PROPERTIES
    ExpiredNotExchanged
CHECK_DEADLOCK FALSE
