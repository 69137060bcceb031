SPECIFICATION Spec
CONSTANTS
    Callers = {c1}
    Rules <- MCRules
    Reserved <- MCReserved
    Partners <- MCBothSpellings
    Customers <- MCOneCustomer
    OwnVAs <- MCNoOwnVAs
    Names = {30}
    MaxSeq = 2
    MaxCalls = 2
    Faults = {}
    None = None
INVARIANT RegisteredOnceUnpadded
CHECK_DEADLOCK FALSE
