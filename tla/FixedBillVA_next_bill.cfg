SPECIFICATION Spec
CONSTANTS
    InqIds = {i1}
    PayReqs = {p1}
    Bills = {1}
    Handlers = {h1}
    Dates = {"future"}
    Kinds = {"create", "inquiry", "payment", "delete"}
    Direct = FALSE
    BillDetails = {FALSE}
    Faults = {}
    MaxRows = 2
    MaxCycles = 2
    None = None
INVARIANT PaymentSettlesItsBill
