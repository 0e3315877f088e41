SPECIFICATION Spec
CONSTANTS
    None = None
    r1 = r1
    r2 = r2
    x = x
    y = y
    Requests = {r1, r2}
    Reconciler = Reconciler
    Earlier = Earlier
    Kinds <- KindsTransport
    Cancellable = {r1, r2}
    Queues <- Two
    Outcomes <- Taken
    Window = 1
    MaxClock = 0
    MaxItem = 2
SYMMETRY Interchangeable
INVARIANTS
    ClaimsAreOfThisSession
    EndedStaysEnded
    StopSilences
    StatusIsWhole
CHECK_DEADLOCK FALSE
