SPECIFICATION FairSpec
CONSTANTS
    Session = {s1, s2}
    Gateway = {g1}
    NoSession = NoSession
    EventCap = 1
    ChanCap = 1
    Timeout = 0
    MaxDownlinks = 3
INVARIANTS TypeOK SubscriptionMatchesTable CleanExitLeavesNoEntry
PROPERTIES DownlinkToOwner DeadSessionForgotten BlockedOnlyInLockCycle
CHECK_DEADLOCK FALSE
