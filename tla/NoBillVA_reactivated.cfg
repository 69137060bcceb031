SPECIFICATION Spec
CONSTANTS
    VANos = {v1}
    PayReqs = {p1}
    ExtIds = {x1}
    Handlers = {h1}
    Amounts = {1}
    Faults = {}
    MaxCycles = 2
    None = None
INVARIANT EveryExpiryIsCalledBack
