SPECIFICATION FairSpec
CONSTANTS
    Listener = {l1, l2}
    BufSize = 2
    MaxMsg = 4
INVARIANTS TypeOK NoSendAfterUnsubscribe
PROPERTIES ImplementsLossyBroadcast CallsReturn
