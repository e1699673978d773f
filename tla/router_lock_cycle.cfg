SPECIFICATION FairSpec
CONSTANTS
    Session = {s1}
    Gateway = {g1}
    NoSession = NoSession
    EventCap = 1
    ChanCap = 1
    Timeout = 0
    MaxDownlinks = 2
PROPERTY DownlinkReturns
CHECK_DEADLOCK FALSE
