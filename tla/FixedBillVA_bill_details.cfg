SPECIFICATION Spec
CONSTANTS
    InqIds = {i1}
    PayReqs = {p1}
    Bills = {1}
    Handlers = {h1}
    Dates = {"future"}
    Kinds = {"create", "inquiry", "payment"}
    Direct = FALSE
    BillDetails = {TRUE}
    Faults = {}
    MaxRows = 2
    MaxCycles = 1
    None = None
INVARIANT PaidIsCalledBack
