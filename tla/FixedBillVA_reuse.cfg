SPECIFICATION Spec
CONSTANTS
    InqIds = {i1}
    PayReqs = {p1, p2}
    Bills = {1}
    Handlers = {h1}
    Dates = {"future"}
    Kinds = {"create", "payment"}
    Direct = TRUE
    BillDetails = {FALSE}
    Faults = {}
    MaxRows = 2
    MaxCycles = 2
    None = None
INVARIANT AcceptedStaysOnFile
