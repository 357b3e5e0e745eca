--------------------------- MODULE MCEditorBuffer ---------------------------
(* EditorBuffer for TLC: four texts, two positions, up to three snapshots. *)
(* The texts have several commands that fail, one after a line of two rows,*)
(* and beside a mistake before or after them; the last one has none.       *)
EXTENDS EditorBuffer
CONSTANTS t1, t2, t3, t4, home, away

MCContent ==
    [t \in {t1, t2, t3, t4} |->
        CASE t = t1 -> <<"fails", "plays", "fails">>
          [] t = t2 -> <<"long", "fails", "wrong">>
          [] t = t3 -> <<"wrong", "fails", "fails">>
          [] t = t4 -> <<"plays", "text">>]
=============================================================================
