CONSTANTS
    Users = {u1, u2}
    Prizes <- TwoPrizes
    Fee = 2
    FeePercent = 5
    EndDate = 1
    MaxAttempts = 1
    MaxTime = 2
    Accepters = {u1, u2}
    Strangers = {w}
    Sender = s
    Nobody = nobody
    MaxRetries = 2
    MaxNews = 3
    Canisters = {c1, c2}
    MaxAttempt = 2
    MaxCalls = 4
    Owners = {o1, o2}
    Blobs = {x, y}
    Size <- Unit
    ByteLimit = 1
    MaxFiles = 3
SYMMETRY Symmetry
SPECIFICATION Spec
INVARIANTS
    PrizeSolvent
    OnePrizeEach
    TruthfulSwap
    OneTaker
    RetriesGoOn
    BlobsAgree
    FilesAccounted
    ChargedOnce
PROPERTIES
    StrandedByLateClaims
CHECK_DEADLOCK FALSE
