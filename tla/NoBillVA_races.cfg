SPECIFICATION Spec
CONSTANTS
    VANos = {v1}
    PayReqs = {p1}
    ExtIds = {x1}
    Handlers = {h1, h2}
    Amounts = {0, 1}
    Faults = {"db", "ack", "queue", "crash"}
    MaxCycles = 1
    None = None
SYMMETRY Symmetry
INVARIANTS
    TypeOK
    OneCallbackPerPayment
    SuccessIsOnFile
    SettledIsNeverRefused
    ExpiryCallbackPerTransition
PROPERTIES
    FlagWrittenOnce
    ImplementsLedger
