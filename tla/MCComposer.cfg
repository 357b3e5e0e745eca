SPECIFICATION FairSpec
CONSTANTS
    Texts = {t1, t2}
    Blank = Blank
    Initial = t1
    Torn <- MCTorn
    t1 = t1
    t2 = t2
INVARIANTS
    LockedIffRequested
    SavedMeansStored
PROPERTIES
    DraftKept
    ImplementsOutbox
    SendingResolves
    EditsGetSaved
