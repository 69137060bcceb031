SPECIFICATION Spec
CONSTANTS
    c1 = c1
    c2 = c2
    Callers = {c1, c2}
    TokenRefreshMargin = 2
    RequestTimeout = 1
    DefaultExpiresIn = 3
    Unreadable = Unreadable
    ExpiresIns = {3, 0}
    MaxRow = 2
    Old = {1}
    Decisions <- MCDecisions
    BatchSize = 1
    Loads <- MCUndisturbed
    None = None
INVARIANT OneSweepAtATime
CHECK_DEADLOCK FALSE
