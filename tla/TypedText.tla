----------------------------- MODULE TypedText -----------------------------
(***************************************************************************)
(* Every text there is, typed character by character, and what wrapping    *)
(* and joining promise of it.                                              *)
(***************************************************************************)
EXTENDS LineWrap

CONSTANTS MaxTextLines, MaxChars  \* bounds on the text

VARIABLE typed

TextInit == typed = << <<>> >>

TypeChar ==
    /\ Len(FlattenSeq(typed)) < MaxChars
    /\ \E ch \in Chars :
          typed' = [typed EXCEPT ![Len(typed)] = Append(@, ch)]

NewLine == Len(typed) < MaxTextLines /\ typed' = Append(typed, <<>>)

TextNext == TypeChar \/ NewLine

TextSpec == TextInit /\ [][TextNext]_typed

(* wrapLines: every column has one row for the cursor, and the rows fit    *)
(* and are full.                                                           *)
RowsCoverLines == ColumnsHaveOneRowIn(typed) /\ RowsFitIn(typed)

(* unwrapLines is the inverse of wrapLines.                                *)
UnwrapRestores == UnwrapRestoresIn(typed)
=============================================================================
