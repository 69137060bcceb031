SPECIFICATION Spec
CONSTANTS
    r1 = r1
    r2 = r2
    t1 = t1
    t2 = t2
    q1 = q1
    q2 = q2
    Replicas = {r1, r2}
    Tickers = {t1, t2}
    Requests = {q2}
    At <- MCAt2
    Tables = {"vaTypes"}
    MaxVersion = 2
    Empty = {}
    MaxFailures = 1
    None = None
INVARIANT WriteIsVisibleThere
