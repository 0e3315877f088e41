CONSTANTS
    None = None
    Names <- MCNames
    Norm <- MCNorm
    NameKey <- MCNameKey
    SortKey <- MCSortKey
    Imports <- MCImports
    Readers = {r1}
    Limits = {1, 2}
    MaxChanges = 4
SPECIFICATION BrowseSpec
INVARIANT PagesAreExact
INVARIANT ListedOpens
INVARIANT SearchFindsListed
CHECK_DEADLOCK FALSE
