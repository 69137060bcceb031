SPECIFICATION Spec
CONSTANTS
    Keys = {k1}
    PayReqs = {p1, p2}
    Blank = Blank
    Handlers = {h1, h2}
    MaxDay = 0
    Faults = {}
    MaxFaults = 2
    None = None
INVARIANT AnsweredOnce
