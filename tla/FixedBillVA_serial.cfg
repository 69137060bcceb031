SPECIFICATION Spec
CONSTANTS
    InqIds = {i1, i2}
    PayReqs = {p1, p2}
    Bills = {1, 2}
    Handlers = {h1}
    Dates = {"future"}
    Kinds = {"create", "inquiry", "payment", "delete", "reconcile", "sweep"}
    Direct = TRUE
    BillDetails = {FALSE, TRUE}
    Faults = {"crash", "queue"}
    MaxRows = 3
    MaxCycles = 2
    None = None
SYMMETRY Symmetry
INVARIANT OnePendingTransaction
INVARIANT PaidIsBilled
PROPERTY ClosedIsFinal
