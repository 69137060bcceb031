SPECIFICATION Spec
CONSTANTS
    InqIds = {i1}
    PayReqs = {p1, p2}
    Bills = {1}
    Handlers = {h1, h2}
    Dates = {"future"}
    Kinds = {"create", "inquiry", "payment"}
    Direct = TRUE
    BillDetails = {FALSE}
    Faults = {}
    MaxRows = 2
    MaxCycles = 1
    None = None
PROPERTY PaidIsNeverMutated
