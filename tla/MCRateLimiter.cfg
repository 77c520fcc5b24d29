SPECIFICATION Spec
CONSTANTS
    r1 = r1  r2 = r2  k1 = k1  k2 = k2
    Requests <- MCRequests
    Keys <- MCKeys
    Global = "global"
    Unit = 2
    Configs <- MCConfigs
    DisabledLimits <- Generous
    Window = 3
SYMMETRY Symmetric
INVARIANTS TypeOK WindowBound RetryAfterSuffices
