SPECIFICATION FairSpec
CONSTANTS
    Users = {a, b}
    NoOne = NoOne
    Amount = 2
    Fee = 1
    DepositSizes = {2, 3}
    Lifetimes = {1}
    LedgerMayRefuse = FALSE
    TargetMayRefuse = FALSE
    Avoided = {}
    MaxSwaps = 1
    MaxDeposits = 2
    MaxHeld = 5
    MaxNotifies = 2
    MaxTime = 2
PROPERTIES
    ImplementsAtomicSwap
    DepositLeaves
    CompletedTold
CHECK_DEADLOCK FALSE
