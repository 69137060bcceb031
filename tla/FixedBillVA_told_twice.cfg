SPECIFICATION Spec
CONSTANTS
    InqIds = {i1}
    PayReqs = {p1}
    Bills = {1}
    Handlers = {h1, h2}
    Dates = {"future"}
    Kinds = {"create", "inquiry", "payment", "reconcile"}
    Direct = FALSE
    BillDetails = {FALSE}
    Faults = {}
    MaxRows = 2
    MaxCycles = 1
    None = None
INVARIANT ToldOnce
