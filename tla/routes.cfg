SPECIFICATION FairSpec
CONSTANTS
    Router = {r1}
    Endpoint = {e1, e2}
    Unlisted = Unlisted
    UnusedPlan = UnusedPlan
    Listings = {e1, e2, Unlisted, UnusedPlan}
    Client = {c1, c2}
    None = None
    Table = Table
    MaxChanges = 2
INVARIANTS TypeOK NoOrphanClient
PROPERTIES RemovedRouterDropped UnservedOnlyIfAbandoned
