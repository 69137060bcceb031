SPECIFICATION Spec
CONSTANTS
    InqIds = {i1, i2}
    PayReqs = {p1}
    Bills = {1}
    Handlers = {h1, h2}
    Dates = {"future"}
    Kinds = {"create", "inquiry", "payment", "delete", "reconcile", "sweep"}
    Direct = TRUE
    BillDetails = {FALSE}
    Faults = {"db"}
    MaxRows = 3
    MaxCycles = 2
    None = None
SYMMETRY Symmetry
PROPERTY ClaimedIdIsKept
PROPERTY PaidStaysPaid
