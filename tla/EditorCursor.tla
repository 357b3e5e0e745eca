---------------------------- MODULE EditorCursor ----------------------------
(***************************************************************************)
(* A buffer of the editor: its lines, the cursor in the lines, the cursor  *)
(* in the wrapped lines that are shown, and the window around it.  A key   *)
(* writes one of the two cursors (onInput and renderBuffer of editor.nim); *)
(* rules then carry the change to the other one and back until none of     *)
(* them is triggered.                                                      *)
(*                                                                         *)
(* A Round of the rule engine takes the rules that were triggered, each    *)
(* with the facts as they were, and makes their writes in some order.      *)
(***************************************************************************)
EXTENDS LineWrap

CONSTANTS
    Files,      \* texts a buffer may start with
    Snapshots,  \* moments of the history: records of lines, cx and cy
    Clipboards, \* what may be pasted, sequences of lines
    Width, Height,  \* size of the window
    ScrollStep, \* linesPerScroll
    MaxLines, MaxLength,  \* bounds on the text
    RecursionLimit        \* rounds after which the engine gives up

ASSUME StepAssumption == ScrollStep \in Nat \ {0}
ASSUME WindowAssumption == Width \in Nat \ {0} /\ Height \in Nat \ {0}
(* The longest chain of inputs in the text has six rounds; the package     *)
(* gives up after sixteen.                                                 *)
ASSUME LimitAssumption == RecursionLimit \in Nat /\ RecursionLimit >= 6

(* A text has a line, also an empty one.                                   *)
Text == Seq(Seq(Chars)) \ {<<>>}

ASSUME TextsAssumption ==
    /\ Files \subseteq Text /\ Clipboards \subseteq Text
    /\ Snapshots \subseteq [lines : Text, cx : Int, cy : Int]

VARIABLES
    lines,          \* Lines
    wrapped,        \* WrappedLines, each with its entry of toUnwrapped
    at,             \* CursorX, CursorY, WrappedCursorX, WrappedCursorY,
                    \* ScrollX, ScrollY
    cursor,         \* Cursor
    wrappedCursor,  \* WrappedCursor
    deletePrompt,   \* Prompt is DeleteLine
    queue,          \* the rules that are triggered
    rounds,         \* rounds since the last input
    moved,          \* history: no input changed the lines alone since a cursor
                    \* was written
    outside         \* history: the last input asked for no row of the text

cursorVars == <<lines, wrapped, at, cursor, wrappedCursor, deletePrompt, queue,
          rounds, moved, outside>>

InitAt == [cx |-> 0, cy |-> 0, wx |-> 0, wy |-> 0, sx |-> 0, sy |-> 0]

(* insertBuffer and the rules it triggers.                                 *)
CursorInit ==
    /\ lines \in Files /\ wrapped = Wrap(lines)
    /\ at = InitAt /\ cursor = <<0, 0>> /\ wrappedCursor = <<0, 0>>
    /\ deletePrompt = FALSE /\ queue = {} /\ rounds = 0
    /\ moved = TRUE /\ outside = FALSE

-----------------------------------------------------------------------------
(* What the rules write, from the facts before the round.                  *)

Nothing == [f \in {} |-> 0]

(* The facts with the values written to some of them.                      *)
Over(w, facts) ==
    [f \in DOMAIN w \cup DOMAIN facts |-> IF f \in DOMAIN w THEN w[f] ELSE facts[f]]

(* mutant: a fact is written although it has the value                     *)
ChangedOrNot(want, now) == want

(* A fact is written when it has another value than it should have.        *)
Changed(want, now) ==
    [f \in {g \in DOMAIN want : want[g] # now[g]} |-> want[f]]

(* mutant: a column before the line is left alone                          *)
ClampRight(x, y, lengths) ==
    IF y < 0 THEN <<x, 0>>
    ELSE IF y >= Len(lengths) THEN <<x, Len(lengths) - 1>>
    ELSE <<IF x > lengths[y + 1] THEN lengths[y + 1] ELSE x, y>>

(* cursorChanged: a line that does not exist is corrected first, a column  *)
(* only when the line exists.                                              *)
Clamp(x, y, lengths) ==
    IF y < 0 THEN <<x, 0>>
    ELSE IF y >= Len(lengths) THEN <<x, Len(lengths) - 1>>
    ELSE <<IF x > lengths[y + 1] THEN lengths[y + 1] ELSE IF x < 0 THEN 0 ELSE x, y>>

CursorWrites ==
    LET c == Clamp(cursor[1], cursor[2], [n \in DOMAIN lines |-> Len(lines[n])])
        here == {r \in DOMAIN wrapped :
                    /\ wrapped[r].line = c[2]
                    /\ c[1] \in wrapped[r].start..wrapped[r].stop}
        row == CHOOSE r \in here : TRUE
        shown == IF here = {} THEN <<at.wx, at.wy>>
                 ELSE <<c[1] - wrapped[row].start, row - 1>>
    IN  Changed([cx |-> c[1], cy |-> c[2], wx |-> shown[1], wy |-> shown[2]],
                [cx |-> cursor[1], cy |-> cursor[2], wx |-> at.wx, wy |-> at.wy])

WrappedCursorWrites ==
    LET c == Clamp(wrappedCursor[1], wrappedCursor[2],
                   [r \in DOMAIN wrapped |-> Len(wrapped[r].chars)])
        row == wrapped[c[2] + 1]
    IN  Changed([cx |-> c[1] + row.start, cy |-> row.line, wx |-> c[1], wy |-> c[2]],
                [cx |-> at.cx, cy |-> at.cy,
                 wx |-> wrappedCursor[1], wy |-> wrappedCursor[2]])

(* mutant: the window is taken to be one larger than it is                 *)
ScrolledShort(pos, scroll, size) ==
    IF pos < scroll THEN pos
    ELSE IF pos > scroll + size THEN pos - size ELSE scroll

(* The position of a window of a given size, moved no more than necessary. *)
Scrolled(pos, scroll, size) ==
    IF pos < scroll THEN pos
    ELSE IF pos > scroll + size - 1 THEN pos - (size - 1) ELSE scroll

ScrollXAfter ==
    IF "scrollX" \in queue /\ at.wx >= 0 THEN Scrolled(at.wx, at.sx, Width) ELSE at.sx

ScrollYAfter ==
    IF /\ "scrollY" \in queue /\ at.wy >= 0
       /\ at.wy < at.sy \/ at.wy < Len(wrapped)
    THEN Scrolled(at.wy, at.sy, Height) ELSE at.sy

Triggered(facts) ==
    (IF facts \cap {"cx", "cy"} # {} THEN {"updateCursor"} ELSE {})
    \cup (IF facts \cap {"wx", "wy"} # {} THEN {"updateWrappedCursor"} ELSE {})
    \cup (IF "wx" \in facts THEN {"scrollX"} ELSE {})
    \cup (IF "wy" \in facts THEN {"scrollY"} ELSE {})

Follows == {<<"updateCursor", "cursorChanged">>,
            <<"updateWrappedCursor", "wrappedCursorChanged">>,
            <<"wrapLines", "scrollY">>}

(* The rule wrapLines makes the rows and their tables anew.                *)
RowsAfter == IF "wrapLines" \in queue THEN Wrap(lines) ELSE wrapped

(* The two rules that write the same facts are taken in either order.      *)
Round ==
    /\ queue # {} /\ rounds < RecursionLimit
    /\ LET a == IF "cursorChanged" \in queue THEN CursorWrites ELSE Nothing
           b == IF "wrappedCursorChanged" \in queue THEN WrappedCursorWrites ELSE Nothing
       IN  \E w \in {Over(a, b), Over(b, a)} :
              /\ at' = Over(w, [at EXCEPT !.sx = ScrollXAfter, !.sy = ScrollYAfter])
              /\ queue' = Triggered(DOMAIN w)
                          \cup {f[2] : f \in {g \in Follows : g[1] \in queue}}
    /\ cursor' = IF "updateCursor" \in queue THEN <<at.cx, at.cy>> ELSE cursor
    /\ wrappedCursor' = IF "updateWrappedCursor" \in queue THEN <<at.wx, at.wy>>
                        ELSE wrappedCursor
    /\ wrapped' = RowsAfter
    /\ rounds' = rounds + 1
    /\ UNCHANGED <<lines, deletePrompt, moved, outside>>

-----------------------------------------------------------------------------
(* One tick with one input: it writes the facts w and perhaps new lines.   *)
(* Every tick writes Width and Height, which triggers the scroll rules.    *)

Tick(text, w, edited) ==
    /\ lines' = text
    /\ at' = Over(w, at)
    /\ queue' = {"scrollX", "scrollY"} \cup Triggered(DOMAIN w)
                \cup (IF edited THEN {"wrapLines"} ELSE {})
    /\ rounds' = 0
    /\ moved' = (DOMAIN w # {} \/ (moved /\ ~edited))
    /\ outside' = (/\ DOMAIN w \cap {"wx", "wy"} # {}
                   /\ at'.wy \notin 0..(Len(wrapped) - 1))
    /\ UNCHANGED <<wrapped, cursor, wrappedCursor>>

InBounds(text) ==
    /\ Len(text) <= MaxLines
    /\ \A n \in DOMAIN text : Len(text[n]) <= MaxLength

Move(w) == Tick(lines, w, FALSE)

Edit(text, w) == InBounds(text) /\ Tick(text, w, TRUE)

Line == lines[at.cy + 1]
LinesBefore == SubSeq(lines, 1, at.cy)
LinesAfter == SubSeq(lines, at.cy + 2, Len(lines))
Put(line) == [lines EXCEPT ![at.cy + 1] = line]
UpTo(x) == SubSeq(Line, 1, IF x > Len(Line) THEN Len(Line) ELSE x)
From(x) == SubSeq(Line, x + 1, Len(Line))

ClearPrompt == deletePrompt' = FALSE

(* A letter or a blank; in insert mode it takes the place of the next one. *)
Type(ch, insertMode) ==
    /\ Edit(Put(Append(UpTo(at.cx), ch)
                \o From(IF insertMode THEN at.cx + 1 ELSE at.cx)),
            [cx |-> at.cx + 1])
    /\ ClearPrompt

(* At the start of a line Backspace asks whether to delete it.             *)
BackspaceAtStart ==
    /\ at.cx = 0
    /\ Move(Nothing)
    /\ deletePrompt' = TRUE

(* Beyond the end of its line Backspace would be out of range.             *)
Backspace(insertMode) ==
    /\ at.cx \in 1..Len(Line)
    /\ Edit(Put((IF insertMode THEN Append(UpTo(at.cx - 1), Blank) ELSE UpTo(at.cx - 1))
                \o From(at.cx)),
            [cx |-> at.cx - 1])
    /\ ClearPrompt

(* At the end of a line Delete joins the next one to it.                   *)
Delete ==
    /\ \/ /\ at.cx = Len(Line) /\ LinesAfter # <<>>
          /\ Edit(Append(LinesBefore, Line \o Head(LinesAfter)) \o Tail(LinesAfter), Nothing)
       \/ /\ at.cx < Len(Line)
          /\ Edit(Put(UpTo(at.cx) \o From(at.cx + 1)), Nothing)
       \/ /\ at.cx >= Len(Line) /\ ~(at.cx = Len(Line) /\ LinesAfter # <<>>)
          /\ Move(Nothing)
    /\ ClearPrompt

Enter ==
    /\ Edit(LinesBefore \o <<UpTo(at.cx), From(at.cx)>> \o LinesAfter,
            [cx |-> 0, cy |-> at.cy + 1])
    /\ ClearPrompt

(* Up, Down and the pages move by rows; Left, Right, Home and End in the   *)
(* line.                                                                   *)
MoveByRows ==
    /\ \E d \in {1, Height \div 2}, up \in BOOLEAN :
          Move([wy |-> IF up THEN at.wy - d ELSE at.wy + d])
    /\ ClearPrompt

MoveInLine ==
    /\ \E x \in {at.cx - 1, at.cx + 1, 0, Len(Line)} : Move([cx |-> x])
    /\ ClearPrompt

(* The wheel leaves the prompt.                                            *)
Scroll ==
    /\ \E d \in {-ScrollStep, ScrollStep} : Move([wy |-> at.wy + d])
    /\ UNCHANGED deletePrompt

(* A click in write mode, on the border too, or on the gutter.             *)
Click ==
    /\ \E x \in -1..(Width - 1), y \in -1..(Height - 1) :
          Move([wx |-> x + at.sx, wy |-> y + at.sy])
    /\ ClearPrompt

(* Tab while the prompt is there.                                          *)
DeleteLine ==
    /\ deletePrompt
    /\ LET text == IF Len(lines) = 1 THEN <<<<>>>> ELSE LinesBefore \o LinesAfter
       IN  Edit(text, IF at.cy > Len(text) - 1 THEN [cy |-> Len(text) - 1]
                      ELSE Nothing)
    /\ ClearPrompt

Paste ==
    /\ \E clipboard \in Clipboards :
          Edit(LinesBefore \o clipboard \o LinesAfter, [cx |-> at.cx])
    /\ ClearPrompt

(* A click in draw mode: the rows are filled up to the place, and joined   *)
(* again.  The brush takes the place of blanks only, and is a blank itself *)
(* to whatever asks ("all brush chars are treated as whitespace").         *)
Filled(s, n, v) == IF n > Len(s) THEN s \o [i \in 1..(n - Len(s)) |-> v] ELSE s

Drawn(x, y) ==
    LET chars == [r \in DOMAIN wrapped |-> wrapped[r].chars]
    IN  Unwrap([Filled(chars, y + 1, <<>>) EXCEPT ![y + 1] = Filled(@, x + 1, Blank)],
               wrapped)

Draw ==
    /\ \E x \in (at.sx - 1)..(at.sx + Width - 1),
          y \in (at.sy - 1)..(at.sy + Height - 1) :
          x >= 0 /\ y >= 0 /\ Edit(Drawn(x, y), Nothing)
    /\ ClearPrompt

(* undoIndexChanged: a moment with other lines is restored with its cursor.*)
Restore ==
    /\ \E s \in Snapshots :
          /\ s.lines # lines
          /\ Edit(s.lines, [cx |-> s.cx, cy |-> s.cy])
    /\ ClearPrompt

(* The rules rest when a tick begins: each tick ends by running them.      *)
Input ==
    \/ \E ch \in {Letter, Blank}, insertMode \in BOOLEAN : Type(ch, insertMode)
    \/ BackspaceAtStart
    \/ \E insertMode \in BOOLEAN : Backspace(insertMode)
    \/ Delete
    \/ Enter
    \/ MoveByRows
    \/ MoveInLine
    \/ Scroll
    \/ Click
    \/ DeleteLine
    \/ Paste
    \/ Draw
    \/ Restore

CursorNext ==
    \/ Round
    \/ queue = {} /\ Input

CursorSpec == CursorInit /\ [][CursorNext]_cursorVars

-----------------------------------------------------------------------------
AtRest == queue = {}

CursorInLine == at.cy \in 0..(Len(lines) - 1) /\ at.cx \in 0..Len(Line)

CursorInRow ==
    at.wy \in 0..(Len(wrapped) - 1) /\ at.wx \in 0..Len(wrapped[at.wy + 1].chars)

CursorsAgree ==
    /\ CursorInLine /\ CursorInRow
    /\ wrapped[at.wy + 1].line = at.cy
    /\ at.cx = wrapped[at.wy + 1].start + at.wx

(* Whatever the rules write to each other, they come to rest before the    *)
(* engine gives up, as long as inputs ask for a row of the text.           *)
ComesToRest == rounds = RecursionLimit => AtRest \/ outside

(* Once a cursor was written the two cursors come to rest at the same      *)
(* place, and it is a place in the text.                                   *)
MovedCursorsAgree == AtRest /\ moved => CursorsAgree

(* Then the cursor is in the window, too.                                  *)
MovedCursorVisible ==
    AtRest /\ moved =>
        /\ at.wx \in at.sx..(at.sx + Width - 1)
        /\ at.wy \in at.sy..(at.sy + Height - 1)

(* The comment of pasteLines: the cursor is refreshed in case it is out of *)
(* bounds.  It is not after a line was deleted with Tab.                   *)
NeverOutside == AtRest => CursorInLine
=============================================================================
