SPECIFICATION FairSpec
CONSTANTS
    Callers = {c1, c2}
    Rules <- MCRules
    Reserved <- MCReserved
    Partners <- MCPartners
    Customers <- MCCustomers
    OwnVAs <- MCNoOwnVAs
    Names = {30, 31}
    MaxSeq = 2
    MaxCalls = 2
    Faults = {"db", "redis", "ttl", "crash"}
    None = None
INVARIANT UniqueCustomerNo
PROPERTY IssuedIsPayable
INVARIANT RegisteredOnceInTurn
PROPERTY EveryCallIsAnswered
CHECK_DEADLOCK FALSE
