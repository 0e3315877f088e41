SPECIFICATION FairSpec
CONSTANTS
    None = None
    p1 = p1
    p2 = p2
    s1 = s1
    r1 = r1
    r2 = r2
    Paths = {p1, p2}
    Songs = {s1}
    SongOf <- Copies
    Requests = {r1, r2}
    Scans <- OneScan
    Plans <- Fresh
    Fragile = {p1}
    Threads = 2
    MaxAttempts = 2
    MaxJobs = 2
    MaxCrashes = 1
INVARIANTS
    OnePublishedCopy
    ResolvedIsPublished
    FreshIsAssociated
PROPERTIES
    EveryJobEnds
CHECK_DEADLOCK FALSE
