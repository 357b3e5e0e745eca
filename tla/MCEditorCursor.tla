--------------------------- MODULE MCEditorCursor ---------------------------
(* EditorCursor for TLC: up to two lines of up to three characters, rows of *)
(* two, a window of three by two, two texts to start with.                 *)
EXTENDS EditorCursor
Word == <<Letter, Letter, Letter>>
TwoWords == <<Letter, Blank, Letter>>
MCFiles == {<< <<>> >>, <<TwoWords, Word>>}
MCSnapshots == {[lines |-> <<Word>>, cx |-> 3, cy |-> 0],
                [lines |-> <<TwoWords, <<>>>>, cx |-> 0, cy |-> 1]}
MCClipboards == {<<TwoWords>>, << <<>> >>}
=============================================================================
