SPECIFICATION FairPresenceSpec
CONSTANTS
    Session = {s1, s2}
    Gateway = {g1}
    NoSession = NoSession
    EventCap = 1
    ChanCap = 1
    Timeout = 1
    MaxDownlinks = 1
    Client = {c1}
    DownlinkId = {d1}
    KeepAlive = 0
    QueueCap = 1
    MaxAsked = 0
    Never = Never
    None = None
    WireCap = 1
PROPERTIES HeardGatewayKept HeardGatewayListed
CHECK_DEADLOCK FALSE
