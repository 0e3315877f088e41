SPECIFICATION FairSpec
CONSTANTS
    None = None
    r1 = r1
    r2 = r2
    r3 = r3
    ann = ann
    bob = bob
    cat = cat
    old = old
    new = new
    Requests = {r1, r2, r3}
    Cancellable = {r1}
    Workloads <- Meetings
    Ids = {1, 2, 3}
    CacheLimit = 1
    Ttl = 2
    MaxTicks = 2
INVARIANTS
    ProjectionMatches
    ActsRightfully
PROPERTIES
    AnAdminRemains
    EveryRequestReturns
CHECK_DEADLOCK FALSE
