SPECIFICATION FairSpec
CONSTANTS
    InqIds = {i1, i2}
    PayReqs = {p1}
    Bills = {1}
    Handlers = {h1}
    Dates = {"never", "future"}
    Kinds = {"create", "inquiry", "sweep"}
    Direct = FALSE
    BillDetails = {FALSE}
    Faults = {"crash"}
    MaxRows = 2
    MaxCycles = 1
    None = None
PROPERTY ClaimedPaymentIsRecovered
