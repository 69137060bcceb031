SPECIFICATION Spec
CONSTANTS
    Callers = {c1}
    Rules <- MCRules
    Reserved <- MCReserved
    Partners <- MCBilledPartners
    Customers <- MCOneCustomer
    OwnVAs <- MCNoOwnVAs
    Names = {30}
    MaxSeq = 2
    MaxCalls = 2
    Faults = {"db"}
    None = None
INVARIANT RegisteredIsIssued
CHECK_DEADLOCK FALSE
