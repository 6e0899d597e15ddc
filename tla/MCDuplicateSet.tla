--------------------------- MODULE MCDuplicateSet ---------------------------
(* The duplicate set with a small window: two wraps of an eight value      *)
(* sequence space, a window of three and a history word of five bits keep  *)
(* every distance the code tells apart (inside, at the edge of, behind and *)
(* ahead of the window, a shift that drops bits, a jump past the window).  *)
EXTENDS DuplicateSet

MCVtimes == {0, 1}
=============================================================================
