SPECIFICATION Spec
CONSTANTS
    c1 = c1
    c2 = c2
    Callers = {c1}
    TokenRefreshMargin = 3
    RequestTimeout = 2
    DefaultExpiresIn = 6
    Unreadable = Unreadable
    ExpiresIns = {6, 0}
    MaxRow = 2
    Old = {1}
    Decisions <- MCDecisions
    BatchSize = 2
    Loads <- MCUndisturbed
    None = None
INVARIANT TokenIsLiveOnArrival
CHECK_DEADLOCK FALSE
