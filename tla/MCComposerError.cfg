SPECIFICATION Spec
CONSTANTS
    Texts = {t1, t2}
    Blank = Blank
    Initial = Blank
    Torn <- MCTorn
    t1 = t1
    t2 = t2
INVARIANTS
    ErrorMeansDraftSaved
