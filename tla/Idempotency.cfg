SPECIFICATION FairSpec
CONSTANTS
    Keys = {k1}
    PayReqs = {p1}
    Blank = Blank
    Handlers = {h1, h2}
    MaxDay = 1
    Faults = {"crash", "redis", "ttl"}
    MaxFaults = 2
    None = None
INVARIANT OverlapIsBounded
PROPERTY ConflictIsDeserved
PROPERTY LockIsReleased
