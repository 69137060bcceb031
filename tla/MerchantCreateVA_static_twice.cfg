SPECIFICATION Spec
CONSTANTS
    Callers = {c1, c2}
    Rules <- MCRules
    Reserved <- MCReserved
    Partners <- MCBilledPartners
    Customers <- MCOneCustomer
    OwnVAs <- MCNoOwnVAs
    Names = {30}
    MaxSeq = 2
    MaxCalls = 2
    Faults = {}
    None = None
INVARIANT RegisteredOnce
CHECK_DEADLOCK FALSE
