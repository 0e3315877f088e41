CONSTANTS
    None = None
    Names <- MCNames
    Norm <- MCNorm
    Various <- MCVarious
    Subtree <- MCSubtree
    Threshold = 66
    Clean <- MCClean
    Numbered <- MCNumbered
    CopyName <- MCCopyName
    Contents <- MCContents
    Embedded <- MCEmbedded
    Answers <- MCAnswers
    Halves <- MCHalves
    Plans <- MCPlans
    Workers = {w1, w2}
    FILE_OPERATION_MAX_ATTEMPTS = 2
    MaxJobs = 2
    MaxFaults = 1
    MaxCopies = 6
SPECIFICATION Spec
SYMMETRY Overlaps
INVARIANT NothingIsLost
INVARIANT LibraryIsKnown
INVARIANT PlayableUnlessMoved
INVARIANT TagsAreKept
INVARIANT ScansSettle
CHECK_DEADLOCK FALSE
