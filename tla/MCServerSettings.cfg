SPECIFICATION Spec
CONSTANTS
    None = None
    h1 = h1
    h2 = h2
    s1 = s1
    s2 = s2
    Handlers = {h1, h2}
    Slots = {s1, s2}
    Cancellable = {h1}
    Workloads <- Meetings
    Malformed = {"../Casts"}
    KeyProviders = {1}
    Backoff <- Durations
    Files = 2
    MaxTime = 2
SYMMETRY Interchangeable
INVARIANTS
    BackoffFits
    FlagsAgree
PROPERTIES
    AskedWasEnabled
    RestartsAsStored
