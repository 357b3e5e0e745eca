SPECIFICATION Spec
CONSTANTS
    Height = 14
    NavHeight = 3
    Kinds = {"sent", "replies", "search"}
    Limit = 2
    MaxPosts = 5
    Heights <- MCHeights
    TabCount = 2
    NavButtons = 3
    MaxText = 1
    Offsets = {0, 2}
CHECK_DEADLOCK FALSE
INVARIANTS
    KeysMakeProgress
    ShownIsAsked
PROPERTIES
    NoGapAbove
    SentStaysInRange
    SearchesTheField
