---------------------------- MODULE FocusScroll ----------------------------
(***************************************************************************)
(* What a key does to the focus and to the scroll position of a page that  *)
(* is no editor (the second half of bbs.tick): the next area gets the      *)
(* focus, and the page is scrolled so that its edge can be seen, but never *)
(* by more than MaxScroll rows at once.                                    *)
(*                                                                         *)
(* All of it goes by the areas of the view that was drawn last and by the  *)
(* rows of the screen they were drawn at.  The focus is the index of an    *)
(* area, from 0, or negative when it is on the navigation bar.             *)
(***************************************************************************)
EXTENDS Integers, Sequences

CONSTANTS
    Height,     \* rows of the screen
    NavHeight   \* rows of the navigation bar

ASSUME HeightAssumption == Height \in Nat
ASSUME NavHeightAssumption == NavHeight \in Nat

Lesser(a, b)  == IF a < b THEN a ELSE b
Greater(a, b) == IF a > b THEN a ELSE b

MaxScroll == Greater(1, Height \div 5)

(* A drawing has its areas with the rows they take, and the height of it   *)
(* all, navigation bar included.                                           *)
Y(d, f)      == d.areas[f + 1].y
Bottom(d, f) == d.areas[f + 1].y + d.areas[f + 1].height
Count(d)     == Len(d.areas)

At(f, s) == [focus |-> f, scroll |-> s]

-----------------------------------------------------------------------------
(* Which area is next, before it is known whether it can be shown.         *)
Above(f, s) ==
    IF f = 0 /\ s = 0 THEN -1
    ELSE IF f > 0     THEN f - 1
    ELSE f

Below(f, n) ==
    IF f < 0          THEN 0
    ELSE IF f + 1 < n THEN f + 1
    ELSE f

(* mutant: the last step to the top is not cut off                         *)
ShowTopAndMore(d, f, s) ==
    LET top == NavHeight - Y(d, f) + s IN
    IF s < top
    THEN IF top <= s + MaxScroll THEN At(f, top) ELSE At(f + 1, s + MaxScroll)
    ELSE IF f = 0 /\ s < 0       THEN At(f, s + MaxScroll) ELSE At(f, s)

(* mutant: the text above the first area is never shown again              *)
ShowTopOfAreas(d, f, s) ==
    LET top == NavHeight - Y(d, f) + s IN
    IF s < top
    THEN IF top <= s + MaxScroll THEN At(f, top) ELSE At(f + 1, s + MaxScroll)
    ELSE At(f, s)

(* Up: as much as needed to see the top of the area, or MaxScroll rows and *)
(* the area below keeps the focus.  Above the first area there may be text.*)
ShowTop(d, f, s) ==
    LET top == NavHeight - Y(d, f) + s IN
    IF s < top
    THEN IF top <= s + MaxScroll THEN At(f, top) ELSE At(f + 1, s + MaxScroll)
    ELSE IF f = 0 /\ s < 0       THEN At(f, Lesser(0, s + MaxScroll)) ELSE At(f, s)

(* Down, likewise.                                                         *)
ShowBottom(d, f, s) ==
    LET bottom == Height - Bottom(d, f) + s IN
    IF s > bottom
    THEN IF bottom >= s - MaxScroll THEN At(f, bottom) ELSE At(f - 1, s - MaxScroll)
    ELSE IF f = Count(d) - 1 /\ d.height + s > Height
         THEN At(f, Greater(Height - d.height, s - MaxScroll)) ELSE At(f, s)

(* Which area is next, and where it is shown.  With no area to show, Up    *)
(* still scrolls.                                                          *)
NextArea(key, d, f, s) ==
    IF key = "up"        THEN Above(f, s)
    ELSE IF key = "down" THEN Below(f, Count(d))
    ELSE f

Shown(key, d, next, s) ==
    LET area == Lesser(next, Count(d) - 1) IN
    IF next >= 0 /\ Count(d) > 0
    THEN IF key = "up"        THEN ShowTop(d, area, s)
         ELSE IF key = "down" THEN ShowBottom(d, area, s)
         ELSE At(area, s)
    ELSE At(next, IF key = "up" /\ s < 0 THEN Lesser(0, s + MaxScroll) ELSE s)

(* Focus and scroll after a key that nothing else was done with.           *)
After(key, d, f, s) ==
    LET shown == Shown(key, d, NextArea(key, d, f, s), s) IN
    At(IF shown.focus > 0 THEN Lesser(shown.focus, Count(d) - 1) ELSE shown.focus, shown.scroll)
=============================================================================
