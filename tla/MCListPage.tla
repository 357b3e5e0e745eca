----------------------------- MODULE MCListPage -----------------------------
(* ListPage for TLC: two posts to a page, a small one and a large one.      *)
EXTENDS ListPage
MCHeights == <<3, 9>>
=============================================================================
