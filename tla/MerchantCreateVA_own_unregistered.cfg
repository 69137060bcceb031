SPECIFICATION Spec
CONSTANTS
    Callers = {c1}
    Rules <- MCRules
    Reserved <- MCReserved
    Partners <- MCBilledPartners
    Customers <- MCOneCustomer
    OwnVAs <- MCOwnVAs
    Names = {30}
    MaxSeq = 2
    MaxCalls = 2
    Faults = {}
    None = None
INVARIANT OwnIsOnFile
CHECK_DEADLOCK FALSE
