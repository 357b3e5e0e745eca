SPECIFICATION CursorSpec
CONSTANTS
    EditorWidth = 2
    Width = 3
    Height = 2
    ScrollStep = 1
    MaxLines = 2
    MaxLength = 3
    RecursionLimit = 6
    Files <- MCFiles
    Snapshots <- MCSnapshots
    Clipboards <- MCClipboards
INVARIANTS
    ComesToRest
    MovedCursorsAgree
    MovedCursorVisible
CHECK_DEADLOCK FALSE
