---------------------------- MODULE MCNavigation ----------------------------
(* Navigation for TLC: one board and two keys of its author.                *)
EXTENDS Navigation, TLC
CONSTANTS b, m1, m2, none

(* Two keys of the author are interchangeable: a key is only ever compared *)
(* with another.                                                           *)
Keys == Permutations({m1, m2})
=============================================================================
