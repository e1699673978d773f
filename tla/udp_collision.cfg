SPECIFICATION Spec
CONSTANTS
    d1 = d1
    d2 = d2
    d3 = d3
    t1 = t1
    t2 = t2
    g1 = g1
    m1 = m1
    Gateway = {g1}
    Downlink = {d1, d2}
    GatewayOf <- OneGateway
    Token = {t1}
    TokenOf <- SameToken
    Items <- TwoAndOne
    Handler = {h1}
    Exchange = Exchange
    Mapper = {m1}
    SenderOf <- SecondOfMapper
    None = None
    Duplicates = TRUE
INVARIANTS TypeOK OnlyMapperPanics
CHECK_DEADLOCK FALSE
