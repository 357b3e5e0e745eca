SPECIFICATION FairSpec
CONSTANTS
    t1 = t1
    t2 = t2
    t3 = t3
    NoTune = NoTune
    Tunes = {t1, t2, t3}
INVARIANTS
    PlayingIsHeld
    HeldIsOwnedOrLost
PROPERTIES
    ShownTuneEnds
