SPECIFICATION Spec
CONSTANTS
    Editors = {a, b}
    None = None
    Pieces = {1, 2}
    MaxKeys = 3
INVARIANTS
    FieldShowsBuffer
    DraftsStayApart
PROPERTIES
    TypedGetsIn
