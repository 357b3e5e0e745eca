SPECIFICATION Spec
CONSTANTS
    b = b
    m1 = m1
    m2 = m2
    none = none
    Board = b
    Posts = {}
    None = none
    MaxCrumbs = 3
    Mine = {m1, m2}
    Lists = {"drafts"}
    Builds = {TRUE, FALSE}
SYMMETRY Keys
INVARIANTS
    FirstPageStays
    BackMoves
    TrailExists
    HashAgrees
    ButtonsAgree
PROPERTIES
    LinksKeepAccount
