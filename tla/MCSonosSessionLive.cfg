SPECIFICATION FairSpec
CONSTANTS
    None = None
    r1 = r1
    r2 = r2
    x = x
    y = y
    Requests = {r1}
    Reconciler = Reconciler
    Earlier = Earlier
    Kinds <- KindsAll
    Cancellable = {r1}
    Queues <- Two
    Outcomes <- AnyOutcome
    Window = 1
    MaxClock = 2
    MaxItem = 2
INVARIANTS
    WindowNotExtended
PROPERTIES
    EveryOutageEnds
    EveryRequestIsAnswered
CHECK_DEADLOCK FALSE
