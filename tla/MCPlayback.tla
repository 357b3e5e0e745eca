----------------------------- MODULE MCPlayback -----------------------------
(* Playback for TLC: one sound for each page and one that was lost.          *)
EXTENDS Playback
CONSTANTS t1, t2, t3
=============================================================================
