SPECIFICATION FairSpec
CONSTANTS
    c1 = c1
    c2 = c2
    Callers = {c1, c2}
    TokenRefreshMargin = 2
    RequestTimeout = 1
    DefaultExpiresIn = 3
    Unreadable = Unreadable
    ExpiresIns = {3, 0}
    MaxRow = 2
    Old = {1}
    Decisions <- MCDecisions
    BatchSize = 2
    Loads <- MCLoads
    None = None
INVARIANT TokenIsLiveOnArrival
INVARIANT MerchantToldOnce
PROPERTY NotPaidIsEvidence
PROPERTY PaidIsRecovered
CHECK_DEADLOCK FALSE
