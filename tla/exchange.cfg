CONSTANTS
    g1 = g1
    g2 = g2
    n1 = n1
    Gateway = {g1, g2}
    NetworkID = {n1, g1}
    NetOf <- MCNetOf
    Mapper = {m1, m2}
    Region = {r1, r2}
    MaxSends = 2
    CacheCap = 1
    MaxRefresh = 1
    None = None
SPECIFICATION Spec
INVARIANTS TypeOK BackToSender OneDownlinkBySelected ConfirmedInOwnRegion
SYMMETRY Symmetry
CHECK_DEADLOCK FALSE
