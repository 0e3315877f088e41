SPECIFICATION Spec
CONSTANTS
    None = None
    r1 = r1
    r2 = r2
    song = song
    other = other
    Requests = {r1, r2}
    Cancellable = {r1, r2}
    Tracks = {song, other}
    MaxId = 4
    Workloads <- Overlaps
    Library <- TwoItems
    Capacity = 2
SYMMETRY Interchangeable
INVARIANTS
    ScreensSettle
    PageCoversRevision
PROPERTIES
    OrderedList
    ItemsAreKept
CHECK_DEADLOCK FALSE
