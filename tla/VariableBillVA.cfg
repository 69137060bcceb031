SPECIFICATION Spec
CONSTANTS
    PayReqs = {p1, p2, p3}
    Inquired = p1
    Amounts = {1, 2}
    Totals = {2, 3}
    Loads <- MCLoads
    Handlers = {h1, h2}
    Faults = {"crash", "queue"}
    None = None
SYMMETRY Symmetry
INVARIANT RowIsBacked
INVARIANT AnsweredIsOnFile
INVARIANT UpToTheBillInTurn
INVARIANT PaidInFullIsSettledInTurn
PROPERTY ImplementsLedger
PROPERTY ClosedStaysClosedInTurn
