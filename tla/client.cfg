SPECIFICATION FairSpec
CONSTANTS
    Client = {c1, c2}
    Gateway = {g1}
    DownlinkId = {d1}
    KeepAlive = 0
    QueueCap = 1
    MaxAsked = 2
    Never = Never
    None = None
INVARIANTS TypeOK AcksAnswerRequests
PROPERTY DownlinkPassedOn
