------------------------------ MODULE LineWrap ------------------------------
(***************************************************************************)
(* Wrapping the lines of a text at word boundaries and joining them again  *)
(* (wrapLine and wrapLines of post.nim, unwrapLines of editor.nim).        *)
(*                                                                         *)
(* A line is a sequence of visible characters: a blank or a letter.  Lines *)
(* and columns are counted from 0, as in the code.                         *)
(***************************************************************************)
EXTENDS Integers, SequencesExt

CONSTANT EditorWidth    \* the number of columns a row should fit in
ASSUME EditorWidthAssumption == EditorWidth \in Nat \ {0}

Blank == " "
Letter == "x"
Chars == {Blank, Letter}

(* A line that starts with a blank is laid out by hand and never wrapped.  *)
KeptWhole(line) == line = <<>> \/ line[1] = Blank \/ Len(line) <= EditorWidth

StartsWord(line, i) == line[i] # Blank /\ (i = 1 \/ line[i - 1] = Blank)

WordEnd(line, i) ==
    CHOOSE j \in i..Len(line) :
        /\ \A k \in i..j : line[k] # Blank
        /\ j = Len(line) \/ line[j + 1] = Blank

(* The positions at which the rows of a line start: a word that does not   *)
(* fit starts a new row, the blanks before it stay at the end of the last. *)
Breaks(line) ==
    LET upTo[i \in 0..Len(line)] ==
            IF i = 0 THEN <<1>>
            ELSE LET starts == upTo[i - 1] IN
                 IF /\ StartsWord(line, i) /\ i # Last(starts)
                    /\ WordEnd(line, i) - Last(starts) >= EditorWidth
                 THEN Append(starts, i) ELSE starts
    IN  IF KeptWhole(line) THEN <<1>> ELSE upTo[Len(line)]

(* mutant: every row has a spot after its last character                   *)
RowsWithSpots(line, n) ==
    LET b == Breaks(line)
        next(k) == IF k = Len(b) THEN Len(line) + 1 ELSE b[k + 1]
    IN  [k \in DOMAIN b |->
            [line |-> n, start |-> b[k] - 1, stop |-> next(k) - 1,
             chars |-> SubSeq(line, b[k], next(k) - 1)]]

(* The rows of line n with the columns of the line a cursor in them may    *)
(* have: the last one has a spot after its last character.                 *)
RowsOfLine(line, n) ==
    LET b == Breaks(line)
        next(k) == IF k = Len(b) THEN Len(line) + 1 ELSE b[k + 1]
    IN  [k \in DOMAIN b |->
            [line |-> n, start |-> b[k] - 1,
             stop |-> IF k = Len(b) THEN Len(line) ELSE next(k) - 2,
             chars |-> SubSeq(line, b[k], next(k) - 1)]]

(* WrappedLines with toUnwrapped, its table from rows to lines.  toWrapped *)
(* is the same table read from the lines.                                  *)
Wrap(text) == FlattenSeq([n \in DOMAIN text |-> RowsOfLine(text[n], n - 1)])

(* mutant: every row becomes a line of its own                             *)
UnwrapEach(chars, rows) == chars

(* Rows are joined to the line they came from; rows that were added are    *)
(* lines of their own.                                                     *)
Unwrap(chars, rows) ==
    LET upTo[r \in 0..Len(chars)] ==
            IF r = 0 THEN <<>>
            ELSE LET text == upTo[r - 1] IN
                 IF r <= Len(rows) /\ rows[r].line < Len(text)
                 THEN [text EXCEPT ![rows[r].line + 1] = @ \o chars[r]]
                 ELSE Append(text, chars[r])
    IN  upTo[Len(chars)]

-----------------------------------------------------------------------------
(* What wrapping promises of a text, without how it is done.               *)

(* Every column a cursor may have in a line, the one after its end included*)
(* is in exactly one row of the line, so that cursorChanged finds one.     *)
ColumnsHaveOneRowIn(text) ==
    LET rows == Wrap(text)
    IN  \A n \in DOMAIN text : \A x \in 0..Len(text[n]) :
            \E r \in DOMAIN rows : \A q \in DOMAIN rows :
                rows[q].line = n - 1 /\ x \in rows[q].start..rows[q].stop <=> q = r

(* Joining the rows gives the text back, so that a click in draw mode, on a*)
(* place that has a character, changes nothing but that character.         *)
UnwrapRestoresIn(text) ==
    LET rows == Wrap(text)
    IN  Unwrap([r \in DOMAIN rows |-> rows[r].chars], rows) = text

OneWord(chars) == \A i \in 2..Len(chars) : ~StartsWord(chars, i)

(* The columns of a row up to its last letter.                             *)
Used(chars) ==
    CHOOSE k \in 0..Len(chars) :
        /\ k = 0 \/ chars[k] # Blank
        /\ \A i \in (k + 1)..Len(chars) : chars[i] = Blank

(* A row is wider than the editor only if it is a line laid out by hand or *)
(* a single word, and no line is broken where the next word would have     *)
(* fitted.                                                                 *)
RowsFitIn(text) ==
    LET rows == Wrap(text)
    IN  \A r \in DOMAIN rows :
            LET chars == rows[r].chars
            IN  /\ \/ Used(chars) <= EditorWidth
                   \/ OneWord(chars)
                   \/ KeptWhole(text[rows[r].line + 1])
                /\ r < Len(rows) /\ rows[r].line = rows[r + 1].line =>
                      Len(chars) + WordEnd(rows[r + 1].chars, 1) > EditorWidth
=============================================================================
