SPECIFICATION Spec
CONSTANTS
    c1 = c1
    k1 = k1
    k2 = k2
    s1 = s1
    s2 = s2
    p1 = p1
    p2 = p2
    Clients = {c1}
    Keys = {k1, k2}
    Secrets = {s1, s2}
    Processes = {p1, p2}
    Lifetime = 1
    MaxRestarts = 1
    MaxRecords = 2
    LegacyBodyHash = TRUE
    SkipSkewCheck = FALSE
    VendorConfigs <- MCVendors
    VendorHeaders <- MCHeaders
    None = None
SYMMETRY Symmetry
INVARIANT RevokedIsRefused
INVARIANT GenuineVendorIsHeard
INVARIANT AcceptedAsItself
CHECK_DEADLOCK FALSE
