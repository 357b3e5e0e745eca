SPECIFICATION FairSpec
CONSTANTS
    Kind = "user"
    MaxPage = 2
INVARIANTS
    CachedIsComplete
    CachedIsCurrent
    TagEditorRefreshes
PROPERTIES
    Loads
