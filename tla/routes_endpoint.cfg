SPECIFICATION FairSpec
CONSTANTS
    Router = {r1}
    Endpoint = {e1, e2}
    Unlisted = Unlisted
    UnusedPlan = UnusedPlan
    Listings = {e1, e2}
    Client = {c1, c2}
    None = None
    Table = Table
    MaxChanges = 1
PROPERTY ListedRouterServed
