SPECIFICATION TextSpec
CONSTANTS
    EditorWidth = 3
    MaxTextLines = 2
    MaxChars = 8
INVARIANTS
    RowsCoverLines
    UnwrapRestores
CHECK_DEADLOCK FALSE
