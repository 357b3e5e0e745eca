----------------------------- MODULE MCComposer -----------------------------
(* Composer for TLC: two texts besides the empty one, so that what is sent, *)
(* saved, shown and being edited can all differ.  t2 is a beginning of t1.  *)
EXTENDS Composer
CONSTANTS t1, t2
MCTorn == [text \in Text |-> IF text = t1 THEN {Blank, t2} ELSE {Blank}]
=============================================================================
