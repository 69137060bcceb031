SPECIFICATION Spec
CONSTANTS
    c1 = c1
    c2 = c2
    Callers = {c1, c2}
    TokenRefreshMargin = 2
    RequestTimeout = 1
    DefaultExpiresIn = 3
    Unreadable = Unreadable
    ExpiresIns = {3, 0}
    MaxRow = 1
    Old = {}
    Decisions <- MCOneTransaction
    BatchSize = 1
    Loads <- MCOneTransactionLoads
    None = None
PROPERTY NotPaidIsEvidence
INVARIANT MerchantToldOnce
CHECK_DEADLOCK FALSE
