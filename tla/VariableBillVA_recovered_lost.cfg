SPECIFICATION Spec
CONSTANTS
    PayReqs = {p1, p2}
    Inquired = p1
    Amounts = {1}
    Totals = {2}
    Handlers = {h1}
    Loads <- MCReconciled
    Faults = {}
    None = None
INVARIANT RecoveredMoneyCounts
