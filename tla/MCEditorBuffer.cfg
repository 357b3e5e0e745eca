SPECIFICATION BufferSpec
CONSTANTS
    t1 = t1
    t2 = t2
    t3 = t3
    t4 = t4
    Texts = {t1, t2, t3, t4}
    home = home
    away = away
    Cursors = {home, away}
    Start = home
    MaxHistory = 3
    Content <- MCContent
    MaxErrors = 4
INVARIANTS
    NoCommandForgotten
    LinksLeadToErrors
PROPERTIES
    SettledTextStays
    ChangeEndsRedo
