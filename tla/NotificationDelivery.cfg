SPECIFICATION FairSpec
CONSTANTS
    MaxDeliveries = 3
    Events = {e1}
    MaxBulk = 2
    Limits <- MCLimits
    Faults = {"db", "queue", "crash"}
    None = None
INVARIANT SuccessMeansReached
INVARIANT DuplicateHasOriginal
INVARIANT AllOrNothing
PROPERTY SuccessSticks
PROPERTY RowSettles
CHECK_DEADLOCK FALSE
